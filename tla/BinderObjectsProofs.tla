------------------------- MODULE BinderObjectsProofs ------------------------
(***************************************************************************)
(* For any objects, fd numbers and sizes: a file that a transaction takes  *)
(* from its sender has one owner or was put once, the buffer gives back    *)
(* what it holds, and the driver closes no file of the target's own while  *)
(* the words it reads are translated ones.  ObjInv says which words of the *)
(* buffer a fixup stands for, and what is in them.  Pointers and fd arrays *)
(* are written inside their parent's buffer and never overlap: FixInv says *)
(* where the next fixup may go.                                            *)
(***************************************************************************)
EXTENDS BinderObjects, FiniteSetTheorems, FunctionTheorems, SequenceTheorems, WellFoundedInduction, TLAPS

ObjType ==
  [type : FlatTypes \cup {"fd", "ptr", "fda", "none"}, parent : Nat, off : Nat, n : Nat, at : Nat]
TypeOK ==
  /\ pc \in {"new", "build", "fda", "queued", "apply", "delivered", "undo", "failed", "gone", "dropped"}
  /\ first \in {0, 1} /\ objs \in Seq(ObjType) /\ Len(objs) <= MaxObjs /\ sg \in Nat
  /\ fda \in [obj : ObjType, done : Nat] /\ word \in [Slots -> Fds \cup {None}]
  /\ fixups \in Seq([slot : Slots, file : Nat \cup {None}]) /\ puts \in Seq(Nat)
  /\ table \in [Fds -> Nat \cup {Own, None}] /\ owned \in [FlatTypes -> Int]
  /\ opens \in Nat /\ skips \in Nat

\* Buffers and fd arrays lie in the scatter-gather area, the array in work, too.
InArea(o) == o.type \in {"ptr", "fda"} => o.at + o.n <= Extra
PlacesSound ==
  /\ \A i \in 1..Len(objs) : InArea(objs[i])
  /\ pc = "fda" => /\ fda.obj.type = "fda" /\ InArea(fda.obj) /\ fda.done <= fda.obj.n
                   /\ Len(objs) < MaxObjs
  /\ pc = "new" => objs = <<>>

\* A file is with one fixup, or behind one number of the target, or it was put.
InFixup(f) == \E k \in 1..Len(fixups) : fixups[k].file = f
InTable(f) == \E d \in Fds : table[d] = f
FilesOwned ==
  /\ \A k, l \in 1..Len(fixups) : fixups[k].file = fixups[l].file /\ fixups[k].file # None => k = l
  /\ \A d, e \in Fds : table[d] = table[e] /\ table[d] \in Nat => d = e
  /\ \A k \in 1..Len(fixups) : fixups[k].file \in 1..Len(puts) \cup {None}
  /\ \A d \in Fds : table[d] \in 1..Len(puts) \cup {Own, None}
  /\ \A f \in 1..Len(puts) : /\ ~(InFixup(f) /\ InTable(f))
                             /\ puts[f] = IF InFixup(f) \/ InTable(f) THEN 0 ELSE 1

\* The words of the buffer that stand for files.
FdSlots == {Extra + i : i \in {i \in 1..Len(objs) : objs[i].type = "fd"}}
FdaSlots == UNION {Area(i) : i \in {i \in 1..Len(objs) : objs[i].type = "fda"}}
HasFixup(s) == \E k \in 1..Len(fixups) : fixups[k].slot = s

\* Until the transaction is delivered each of them has a fixup, and none has one later.
SlotsKnown ==
  /\ pc \in {"new", "build", "fda", "queued", "apply"} => \A s \in FdSlots \cup FdaSlots : HasFixup(s)
  /\ pc = "fda" => \A s \in fda.obj.at..(fda.obj.at + fda.done - 1) : HasFixup(s)
  /\ pc \in {"new", "delivered", "undo", "failed", "gone", "dropped"} => fixups = <<>>

\* A translated word is the number of a file of the transaction, each of another one; the
\* target closes those of the fd objects only.
WordsSound ==
  /\ \A k \in 1..Len(fixups) : word[fixups[k].slot] \in Fds
  /\ \A s \in FdSlots \cup FdaSlots : s \in Slots /\ word[s] \in Fds
  /\ \A k, l \in 1..Len(fixups) :
       pc = "apply" /\ fixups[k].file = None =>
         /\ table[word[fixups[k].slot]] \in Nat
         /\ fixups[l].file = None /\ fixups[k].slot # fixups[l].slot =>
              word[fixups[k].slot] # word[fixups[l].slot]
  /\ pc \in {"new", "build", "fda", "queued"} => \A k \in 1..Len(fixups) : fixups[k].file # None
  /\ pc = "delivered" =>
       /\ \A s \in FdaSlots : table[word[s]] \in Nat
       /\ \A s, t \in FdSlots \cup FdaSlots : s # t => word[s] # word[t]

\* BufferGivesBack, and nothing is held before the loop.
CountsHeld == BufferGivesBack /\ (pc = "new" => \A k \in FlatTypes : owned[k] = 0)

ObjInv ==
  /\ TypeOK /\ PlacesSound /\ FilesOwned /\ SlotsKnown /\ WordsSound /\ CountsHeld

-----------------------------------------------------------------------------
(* The operators.                                                          *)

\* A nonempty set of numbers has a lowest one: the fixup and the fd ApplyFixup takes exist.
LEMMA LowestIn == ASSUME NEW S, S \subseteq Nat, S # {} PROVE Lowest(S) \in S
<1> DEFINE R == OpToRel(<, Nat)
<1>1. IsWellFoundedOn(R, Nat)
  BY NatLessThanWellFounded
<1>2. \A i, j \in Nat : i < j => <<i, j>> \in R
  BY DEF OpToRel
<1> HIDE DEF R
<1>3. PICK n \in S : \A k \in S : ~(<<k, n>> \in R)
  BY <1>1, WFMin
<1>4. \A k \in S : ~(k < n)
  BY <1>2, <1>3, Zenon
<1>5. \A k \in S : n <= k
  BY <1>4
<1> QED BY <1>5 DEF Lowest

\* The marks of the fd table are no file numbers.
LEMMA Markers == None \notin Nat /\ Own \notin Nat /\ None # Own
BY ObjectsAssumption

\* Sizes and offsets are numbers.
LEMMA Sizes ==
  /\ Extra \in Nat /\ Ptr \in Nat /\ Ptr > 0 /\ MaxObjs \in Nat
  /\ \A n \in Lens : n \in Nat
  /\ \A n \in Offs : n \in Nat
  /\ \A n \in NumFds : n \in Nat
BY ObjectsAssumption

\* What CountOf() counts is finite, and nothing among no objects.
LEMMA CountFinite ==
  ASSUME NEW k, NEW n \in Nat
  PROVE  /\ IsFiniteSet({i \in 1..n : objs[i].type = k}) /\ CountOf(k, n) \in Nat
         /\ n = 0 => CountOf(k, n) = 0
<1> DEFINE S == {i \in 1..n : objs[i].type = k}
<1>1. IsFiniteSet(1..n)
  BY FS_Interval
<1>2. IsFiniteSet(S)
  BY <1>1, FS_Subset
<1>3. Cardinality(S) \in Nat
  BY <1>2, FS_CardinalityType
<1>4. n = 0 => S = {}
  OBVIOUS
<1>5. n = 0 => Cardinality(S) = 0
  BY <1>4, FS_EmptySet
<1> QED BY <1>2, <1>3, <1>5 DEF CountOf

\* A new object adds one to the count of its type and nothing to the others.
LEMMA CountAppend ==
  ASSUME TypeOK, NEW o \in ObjType, objs' = Append(objs, o)
  PROVE  \A k : CountOf(k, Len(objs))' = CountOf(k, Len(objs)) + (IF o.type = k THEN 1 ELSE 0)
<1> TAKE k
<1> DEFINE n == Len(objs)
           S == {i \in 1..n : objs[i].type = k}
           T == {i \in 1..(n + 1) : objs'[i].type = k}
<1>1. /\ n \in Nat /\ Len(objs') = n + 1 /\ objs'[n + 1] = o
      /\ \A i \in 1..n : objs'[i] = objs[i]
  BY DEF TypeOK
<1>2. IsFiniteSet(S) /\ Cardinality(S) \in Nat
  BY <1>1, CountFinite DEF CountOf
<1>3. T = S \cup (IF o.type = k THEN {n + 1} ELSE {})
  BY <1>1
<1>4. n + 1 \notin S
  BY <1>1
<1>n. CountOf(k, Len(objs)) = Cardinality(S) /\ CountOf(k, Len(objs))' = Cardinality(T)
  BY <1>1 DEF CountOf
<1> HIDE DEF n, S, T
<1>5. CASE o.type = k
  <2>1. Cardinality(S \cup {n + 1}) = Cardinality(S) + 1
    BY <1>2, <1>4, FS_AddElement
  <2> QED BY <1>3, <1>5, <1>n, <2>1
<1>6. CASE o.type # k
  <2>1. T = S
    BY <1>3, <1>6
  <2> QED BY <1>2, <1>6, <1>n, <2>1
<1> QED BY <1>5, <1>6

\* The words of the buffer that stand for files, after one more object.
LEMMA SlotsAppend ==
  ASSUME TypeOK, NEW o \in ObjType, objs' = Append(objs, o)
  PROVE  /\ FdSlots' = FdSlots \cup (IF o.type = "fd" THEN {Extra + NextIndex} ELSE {})
         /\ FdaSlots' = FdaSlots \cup (IF o.type = "fda" THEN o.at..(o.at + o.n - 1) ELSE {})
<1>0. PICK n \in Nat : n = Len(objs)
  BY DEF TypeOK
<1>1. /\ n = Len(objs) /\ Len(objs') = n + 1 /\ objs'[n + 1] = o
      /\ \A i \in 1..n : objs'[i] = objs[i]
      /\ \A i \in 1..(n + 1) : i \in 1..n \/ i = n + 1
      /\ \A i \in 1..n : i \in 1..(n + 1) /\ i # n + 1
      /\ n + 1 \in 1..(n + 1)
  BY <1>0 DEF TypeOK
<1>2. /\ FdSlots = {Extra + i : i \in {i \in 1..n : objs[i].type = "fd"}}
      /\ FdSlots' = {Extra + i : i \in {i \in 1..(n + 1) : objs'[i].type = "fd"}}
  BY <1>1 DEF FdSlots
<1>3. FdSlots' = FdSlots \cup (IF o.type = "fd" THEN {Extra + (n + 1)} ELSE {})
  BY <1>1, <1>2
<1>4. \A i \in 1..n : Area(i)' = Area(i)
  BY <1>1 DEF Area
<1>5. \A s : s \in FdaSlots <=> \E i \in 1..n : objs[i].type = "fda" /\ s \in Area(i)
  BY <1>1 DEF FdaSlots
<1>6. \A s : s \in FdaSlots' <=> \E i \in 1..(n + 1) : objs'[i].type = "fda" /\ s \in Area(i)'
  BY <1>1 DEF FdaSlots
<1>7. Area(n + 1)' = o.at..(o.at + o.n - 1)
  BY <1>1 DEF Area
<1>8. \A s : s \in FdaSlots' <=> s \in FdaSlots \/ (o.type = "fda" /\ s \in o.at..(o.at + o.n - 1))
  <2> TAKE s
  <2>1. ASSUME s \in FdaSlots' PROVE s \in FdaSlots \/ (o.type = "fda" /\ s \in o.at..(o.at + o.n - 1))
    <3>1. PICK i \in 1..(n + 1) : objs'[i].type = "fda" /\ s \in Area(i)'
      BY <1>6, <2>1
    <3>2. CASE i \in 1..n
      BY <1>1, <1>4, <1>5, <3>1, <3>2
    <3>3. CASE i = n + 1
      BY <1>1, <1>7, <3>1, <3>3
    <3> QED BY <1>1, <3>2, <3>3
  <2>2. ASSUME s \in FdaSlots PROVE s \in FdaSlots'
    <3>1. PICK i \in 1..n : objs[i].type = "fda" /\ s \in Area(i)
      BY <1>5, <2>2
    <3> QED BY <1>1, <1>4, <1>6, <3>1
  <2>3. ASSUME o.type = "fda", s \in o.at..(o.at + o.n - 1) PROVE s \in FdaSlots'
    BY <1>1, <1>6, <1>7, <2>3
  <2> QED BY <2>1, <2>2, <2>3
<1> QED BY <1>1, <1>3, <1>8 DEF NextIndex

\* What fput() on some files does to their counts.
LEMMA PutValue ==
  ASSUME TypeOK, NEW files, puts' = Put(files), \A f \in 1..Len(puts) : f \in files => puts[f] = 0
  PROVE  /\ puts' \in Seq(Nat) /\ Len(puts') = Len(puts)
         /\ \A f \in 1..Len(puts) : puts'[f] = IF f \in files THEN 1 ELSE puts[f]
<1>1. DOMAIN puts = 1..Len(puts) /\ Len(puts) \in Nat /\ \A f \in 1..Len(puts) : puts[f] \in Nat
  BY DEF TypeOK
<1>2. puts' = [f \in 1..Len(puts) |-> IF f \in files THEN puts[f] + 1 ELSE puts[f]]
  BY <1>1 DEF Put
<1>3. puts' \in [1..Len(puts) -> Nat]
  BY <1>1, <1>2
<1>4. puts' \in Seq(Nat) /\ Len(puts') = Len(puts)
  BY <1>1, <1>3, SeqDef
<1> QED BY <1>1, <1>2, <1>4

\* fput() on the files of all fixups and of some numbers, which are closed, once each.
LEMMA PutFiles ==
  ASSUME TypeOK, FilesOwned, NEW closed \in SUBSET Fds, NEW more,
         \A f \in 1..Len(puts) : f \in more <=> InFixup(f), fixups' = <<>>,
         puts' = Put({table[d] : d \in closed} \cup more),
         table' = [d \in Fds |-> IF d \in closed THEN None ELSE table[d]]
  PROVE  /\ FilesOwned' /\ puts' \in Seq(Nat) /\ table' \in [Fds -> Nat \cup {Own, None}]
         /\ Len(puts') = Len(puts)
<1> USE Markers
<1> DEFINE files == {table[d] : d \in closed} \cup more
<1>1. \A f \in 1..Len(puts) : f \in files => puts[f] = 0
  BY DEF FilesOwned, InTable
<1>2. /\ puts' \in Seq(Nat) /\ Len(puts') = Len(puts)
      /\ \A f \in 1..Len(puts) : puts'[f] = IF f \in files THEN 1 ELSE puts[f]
  BY <1>1, PutValue
<1>3. table' \in [Fds -> Nat \cup {Own, None}]
  BY DEF TypeOK
<1>4. Len(fixups') = 0 /\ \A f : ~InFixup(f)'
  BY DEF InFixup
<1>5. \A f \in 1..Len(puts) : InTable(f)' <=> \E d \in Fds \ closed : table[d] = f
  <2>1. \A d \in Fds : table'[d] = IF d \in closed THEN None ELSE table[d]
    OBVIOUS
  <2>2. \A f \in 1..Len(puts) : f # None
    BY DEF TypeOK
  <2> QED BY <2>1, <2>2 DEF InTable
<1>6. \A f \in 1..Len(puts) : InTable(f)' => InTable(f) /\ f \notin files
  BY <1>5 DEF InTable, FilesOwned
<1>7. \A f \in 1..Len(puts) : InTable(f) \/ InFixup(f) => InTable(f)' \/ f \in files
  BY <1>5 DEF InTable
<1> HIDE DEF files
<1>8. ASSUME NEW f \in 1..Len(puts) PROVE puts'[f] = IF InTable(f)' THEN 0 ELSE 1
  <2>1. puts[f] = IF InFixup(f) \/ InTable(f) THEN 0 ELSE 1
    BY DEF FilesOwned
  <2> QED BY <1>1, <1>2, <1>6, <1>7, <2>1
<1>9. /\ \A d, e \in Fds : table'[d] = table'[e] /\ table'[d] \in Nat => d = e
      /\ \A d \in Fds : table'[d] \in 1..Len(puts) \cup {Own, None}
  BY DEF FilesOwned
<1>10. FilesOwned'
  <2>1. \A k \in 1..Len(fixups') : FALSE
    BY <1>4
  <2>2. \A f \in 1..Len(puts') : /\ ~(InFixup(f)' /\ InTable(f)')
                                 /\ puts'[f] = IF InFixup(f)' \/ InTable(f)' THEN 0 ELSE 1
    BY <1>2, <1>4, <1>8
  <2> QED BY <1>2, <1>9, <2>1, <2>2 DEF FilesOwned
<1> QED BY <1>2, <1>3, <1>10

\* A new fixup takes a new file.
LEMMA AddFixupFiles ==
  ASSUME TypeOK, FilesOwned, NEW s \in Slots, NEW fd \in Fds, AddFixup(s, fd), table' = table
  PROVE  /\ FilesOwned' /\ puts' \in Seq(Nat) /\ word' = [word EXCEPT ![s] = fd]
         /\ fixups' \in Seq([slot : Slots, file : Nat \cup {None}])
         /\ Len(fixups') = Len(fixups) + 1 /\ fixups'[Len(fixups) + 1] = [slot |-> s, file |-> Len(puts) + 1]
         /\ \A k \in 1..Len(fixups) : fixups'[k] = fixups[k]
<1> USE Markers
<1>0. PICK n \in Nat : n = Len(fixups)
  BY DEF TypeOK
<1>1. PICK m \in Nat : m = Len(puts)
  BY DEF TypeOK
<1>2. [slot |-> s, file |-> m + 1] \in [slot : Slots, file : Nat \cup {None}]
  BY <1>1
<1>3. /\ fixups' \in Seq([slot : Slots, file : Nat \cup {None}]) /\ Len(fixups') = n + 1
      /\ fixups'[n + 1] = [slot |-> s, file |-> m + 1] /\ \A k \in 1..n : fixups'[k] = fixups[k]
  BY <1>0, <1>1, <1>2 DEF AddFixup, TypeOK
<1>4. /\ puts' \in Seq(Nat) /\ Len(puts') = m + 1 /\ puts'[m + 1] = 0
      /\ \A f \in 1..m : puts'[f] = puts[f]
  BY <1>1 DEF AddFixup, TypeOK
<1>5. /\ \A k \in 1..n : fixups[k].file \in 1..m \cup {None}
      /\ \A d \in Fds : table[d] \in 1..m \cup {Own, None}
  BY <1>0, <1>1 DEF FilesOwned
<1>6. fixups'[n + 1].file = m + 1
  BY <1>3
<1>7. \A k \in 1..(n + 1) : k \in 1..n \/ k = n + 1
  OBVIOUS
<1>8. \A f : InTable(f)' <=> InTable(f)
  BY DEF InTable
<1>9. \A f \in 1..m : InFixup(f)' <=> InFixup(f)
  <2>1. \A f \in 1..m : f # m + 1
    OBVIOUS
  <2>2. \A f \in 1..m : InFixup(f) <=> \E k \in 1..n : fixups[k].file = f
    BY <1>0 DEF InFixup
  <2>3. \A f \in 1..m : InFixup(f)' <=> \E k \in 1..(n + 1) : fixups'[k].file = f
    BY <1>3 DEF InFixup
  <2> QED BY <1>3, <1>6, <1>7, <2>1, <2>2, <2>3
<1>10. InFixup(m + 1)' /\ ~InTable(m + 1)
  <2>1. InFixup(m + 1)'
    BY <1>3, <1>6 DEF InFixup
  <2>2. \A d \in Fds : table[d] # m + 1
    BY <1>5
  <2> QED BY <2>1, <2>2 DEF InTable
<1>11. \A k, l \in 1..(n + 1) : fixups'[k].file = fixups'[l].file /\ fixups'[k].file # None => k = l
  <2>1. \A k, l \in 1..n : fixups[k].file = fixups[l].file /\ fixups[k].file # None => k = l
    BY <1>0 DEF FilesOwned
  <2>2. \A k \in 1..n : fixups[k].file # m + 1
    <3>1. m + 1 \notin 1..m \cup {None}
      OBVIOUS
    <3> QED BY <1>5, <3>1
  <2> QED BY <1>3, <1>6, <1>7, <2>1, <2>2
<1>12. \A f \in 1..(m + 1) : /\ ~(InFixup(f)' /\ InTable(f)')
                             /\ puts'[f] = IF InFixup(f)' \/ InTable(f)' THEN 0 ELSE 1
  <2>1. \A f \in 1..m : /\ ~(InFixup(f)' /\ InTable(f)')
                        /\ puts'[f] = IF InFixup(f)' \/ InTable(f)' THEN 0 ELSE 1
    BY <1>1, <1>4, <1>8, <1>9 DEF FilesOwned
  <2>2. \A f \in 1..(m + 1) : f \in 1..m \/ f = m + 1
    OBVIOUS
  <2> QED BY <1>4, <1>8, <1>10, <2>1, <2>2
<1>13. /\ \A k \in 1..(n + 1) : fixups'[k].file \in 1..(m + 1) \cup {None}
       /\ \A d \in Fds : table'[d] \in 1..(m + 1) \cup {Own, None}
  <2>1. \A f : f \in 1..m => f \in 1..(m + 1)
    OBVIOUS
  <2>2. m + 1 \in 1..(m + 1)
    OBVIOUS
  <2> QED BY <1>3, <1>5, <1>6, <1>7, <2>1, <2>2
<1>14. FilesOwned'
  BY <1>3, <1>4, <1>11, <1>12, <1>13 DEF FilesOwned
<1> QED BY <1>0, <1>1, <1>3, <1>4, <1>14 DEF AddFixup

\* A fixup has a word of the buffer and a file.
LEMMA FixupType ==
  ASSUME TypeOK, NEW k \in 1..Len(fixups)
  PROVE  /\ fixups[k] \in [slot : Slots, file : Nat \cup {None}]
         /\ fixups[k].slot \in Slots /\ fixups[k].file \in Nat \cup {None}
<1> DEFINE R == [slot : Slots, file : Nat \cup {None}]
<1>1. fixups \in Seq(R)
  BY DEF TypeOK
<1> HIDE DEF R
<1>2. fixups[k] \in R
  BY <1>1, ElementOfSeq
<1> QED BY <1>2 DEF R

\* A step that leaves fixups, table and puts alone leaves every file its owner.
LEMMA SameFiles == ASSUME FilesOwned, UNCHANGED <<fixups, table, puts>> PROVE FilesOwned'
BY DEF FilesOwned, InFixup, InTable

\* A step that leaves the objects alone leaves the words that stand for files.
LEMMA SameObjs ==
  ASSUME objs' = objs
  PROVE  /\ FdSlots' = FdSlots /\ FdaSlots' = FdaSlots /\ Len(objs') = Len(objs)
         /\ \A k : CountOf(k, Len(objs))' = CountOf(k, Len(objs))
         /\ \A i \in 1..Len(objs) : Area(i)' = Area(i)
BY DEF FdSlots, FdaSlots, CountOf, Area

\* Fd words lie in the buffer: those of arrays in the area, those of fd objects behind it.
LEMMA SlotRange ==
  ASSUME TypeOK, PlacesSound
  PROVE  /\ \A s \in FdaSlots : s \in 0..(Extra - 1)
         /\ \A s \in FdSlots : s \in (Extra + 1)..(Extra + Len(objs))
<1> USE Sizes
<1>1. ASSUME NEW i \in 1..Len(objs), objs[i].type = "fda" PROVE Area(i) \subseteq 0..(Extra - 1)
  <2>1. objs[i].at \in Nat /\ objs[i].n \in Nat /\ objs[i].at + objs[i].n <= Extra
    <3>1. objs[i] \in ObjType
      BY DEF TypeOK
    <3> QED BY <1>1, <3>1 DEF ObjType, PlacesSound, InArea
  <2> QED BY <2>1 DEF Area
<1>2. \A s \in FdaSlots : s \in 0..(Extra - 1)
  BY <1>1 DEF FdaSlots
<1>3. \A s \in FdSlots : s \in (Extra + 1)..(Extra + Len(objs))
  BY DEF FdSlots, TypeOK
<1> QED BY <1>2, <1>3

-----------------------------------------------------------------------------
(* ObjInv is inductive, one lemma per action.                              *)

\* Nothing was taken at first.
LEMMA InitObj == Init => ObjInv
<1> SUFFICES ASSUME Init PROVE ObjInv OBVIOUS
<1> USE ObjectsAssumption, Markers DEF Init
<1>1. TypeOK
  BY DEF TypeOK, ObjType, NoFda, Object, FlatTypes
<1>2. PlacesSound
  BY DEF PlacesSound
<1>3. Len(objs) = 0 /\ Len(fixups) = 0 /\ Len(puts) = 0
  OBVIOUS
<1>4. FilesOwned
  BY <1>3 DEF FilesOwned
<1>5. FdSlots = {} /\ FdaSlots = {}
  BY <1>3 DEF FdSlots, FdaSlots
<1>6. SlotsKnown /\ WordsSound
  BY <1>3, <1>5 DEF SlotsKnown, WordsSound
<1>7. CountsHeld
  BY DEF CountsHeld, BufferGivesBack
<1> QED BY <1>1, <1>2, <1>4, <1>6, <1>7 DEF ObjInv

\* The loop starts without objects.
LEMMA CopiedObj == ASSUME ObjInv, Copied PROVE ObjInv'
<1> USE DEF ObjInv, Copied
<1>1. TypeOK' /\ PlacesSound'
  BY DEF TypeOK, PlacesSound
<1>2. FilesOwned'
  BY SameFiles
<1>3. SlotsKnown' /\ WordsSound'
  BY SameObjs DEF SlotsKnown, WordsSound, HasFixup
<1>4. CountsHeld'
  <2>1. \A k \in FlatTypes : owned[k] = 0 /\ CountOf(k, Len(objs)) = 0
    BY CountFinite DEF CountsHeld, PlacesSound
  <2> QED BY <2>1, SameObjs DEF CountsHeld, BufferGivesBack
<1> QED BY <1>1, <1>2, <1>3, <1>4

\* An array begins where there is room for it.
LEMMA BeginFdaObj == ASSUME ObjInv, BeginFda PROVE ObjInv'
<1> USE DEF ObjInv
<1>0. /\ pc = "build" /\ pc' = "fda" /\ Len(objs) < MaxObjs
      /\ UNCHANGED <<first, objs, sg, last, word, fixups, table, puts, owned, opens, skips>>
  BY DEF BeginFda, MoreObjects
<1>1. /\ fda' \in [obj : ObjType, done : Nat] /\ fda'.obj.type = "fda" /\ fda'.done = 0
      /\ fda'.obj.at + fda'.obj.n <= Extra
  <2>1. PICK p \in 1..Len(objs), off \in Offs, n \in NumFds :
          /\ ValidParent(p) /\ Fits(p, off, n)
          /\ fda' = [obj |-> Object("fda", p, off, n, objs[p].at + off), done |-> 0]
    BY DEF BeginFda
  <2>2. objs[p] \in ObjType /\ objs[p].at + objs[p].n <= Extra
    BY <2>1 DEF TypeOK, PlacesSound, InArea, ValidParent
  <2>3. p \in Nat /\ off \in Nat /\ n \in Nat /\ objs[p].at \in Nat /\ objs[p].n \in Nat
    <3>1. off \in Nat /\ n \in Nat
      BY Sizes
    <3>2. p \in Nat
      BY DEF TypeOK
    <3> QED BY <2>2, <3>1, <3>2 DEF ObjType
  <2>4. objs[p].at + off + n <= Extra
    BY <2>1, <2>2, <2>3, Sizes DEF Fits
  <2>5. Object("fda", p, off, n, objs[p].at + off) \in ObjType
    BY <2>3 DEF Object, ObjType
  <2> QED BY <2>1, <2>3, <2>4, <2>5 DEF Object
<1>2. TypeOK'
  BY <1>0, <1>1 DEF TypeOK
<1>3. PlacesSound'
  <2>1. fda'.obj.n \in Nat
    BY <1>1 DEF ObjType
  <2> QED BY <1>0, <1>1, <2>1 DEF PlacesSound, InArea
<1>4. FilesOwned'
  BY <1>0, SameFiles
<1>5. SlotsKnown'
  <2>1. fda'.obj.at..(fda'.obj.at + fda'.done - 1) = {}
    BY <1>1 DEF ObjType
  <2> QED BY <1>0, <2>1, SameObjs DEF SlotsKnown, HasFixup
<1>6. WordsSound'
  BY <1>0, SameObjs DEF WordsSound
<1>7. CountsHeld'
  BY <1>0, SameObjs DEF CountsHeld, BufferGivesBack
<1> QED BY <1>2, <1>3, <1>4, <1>5, <1>6, <1>7

\* Queueing and taking the transaction change nothing in it.
LEMMA QueueReadObj == ASSUME ObjInv, Queue \/ Read PROVE ObjInv'
<1> USE DEF ObjInv
<1>0. /\ (pc = "build" /\ pc' = "queued") \/ (pc = "queued" /\ pc' = "apply")
      /\ UNCHANGED <<first, objs, sg, last, fda, word, fixups, table, puts, owned, opens, skips>>
  BY DEF Queue, Read
<1>1. TypeOK' /\ PlacesSound'
  BY <1>0 DEF TypeOK, PlacesSound
<1>2. FilesOwned'
  BY <1>0, SameFiles
<1>3. SlotsKnown' /\ WordsSound'
  BY <1>0, SameObjs DEF SlotsKnown, WordsSound, HasFixup
<1>4. CountsHeld'
  BY <1>0, SameObjs DEF CountsHeld, BufferGivesBack
<1> QED BY <1>1, <1>2, <1>3, <1>4

\* One more object, which lies in the area if it has a place there.
LEMMA AppendObjs ==
  ASSUME TypeOK, PlacesSound, NEW o \in ObjType, InArea(o), objs' = Append(objs, o), Len(objs) < MaxObjs
  PROVE  /\ objs' \in Seq(ObjType) /\ Len(objs') <= MaxObjs
         /\ \A i \in 1..Len(objs') : InArea(objs'[i])
<1>1. PICK n \in Nat : n = Len(objs)
  BY DEF TypeOK
<1>2. /\ objs' \in Seq(ObjType) /\ Len(objs') = n + 1 /\ objs'[n + 1] = o
      /\ \A i \in 1..n : objs'[i] = objs[i]
  BY <1>1 DEF TypeOK
<1>3. \A i \in 1..(n + 1) : i \in 1..n \/ i = n + 1
  OBVIOUS
<1>4. \A i \in 1..n : InArea(objs[i])
  BY <1>1 DEF PlacesSound
<1>5. \A i \in 1..(n + 1) : InArea(objs'[i])
  BY <1>2, <1>3, <1>4
<1> QED BY <1>1, <1>2, <1>5, Sizes

\* A fixup for word s: the word is a number of the sender, and the others keep theirs.
LEMMA AddFixupWords ==
  ASSUME TypeOK, FilesOwned, WordsSound, NEW s \in Slots, NEW fd \in Fds, AddFixup(s, fd), table' = table,
         pc \in {"build", "fda"}
  PROVE  /\ \A k \in 1..Len(fixups') : word'[fixups'[k].slot] \in Fds /\ fixups'[k].file # None
         /\ \A t \in Slots : word[t] \in Fds => word'[t] \in Fds
         /\ word'[s] \in Fds /\ word' \in [Slots -> Fds \cup {None}]
         /\ HasFixup(s)' /\ \A t : HasFixup(t) => HasFixup(t)'
<1>0. PICK n \in Nat : n = Len(fixups)
  BY DEF TypeOK
<1>1. /\ word' = [word EXCEPT ![s] = fd] /\ Len(fixups') = n + 1
      /\ fixups'[n + 1] = [slot |-> s, file |-> Len(puts) + 1]
      /\ \A k \in 1..n : fixups'[k] = fixups[k]
  BY <1>0, AddFixupFiles
<1>2. fixups'[n + 1].slot = s /\ fixups'[n + 1].file \in Nat
  BY <1>1 DEF TypeOK
<1>3. /\ \A t \in Slots : word[t] \in Fds => word'[t] \in Fds
      /\ word'[s] \in Fds /\ word' \in [Slots -> Fds \cup {None}]
  BY <1>1 DEF TypeOK
<1>4. \A k \in 1..(n + 1) : k \in 1..n \/ k = n + 1
  OBVIOUS
<1>5. \A k \in 1..n : fixups[k].slot \in Slots /\ word[fixups[k].slot] \in Fds /\ fixups[k].file # None
  <2>1. \A k \in 1..n : fixups[k].slot \in Slots
    BY <1>0, FixupType
  <2> QED BY <1>0, <2>1 DEF WordsSound
<1>6. \A k \in 1..(n + 1) : word'[fixups'[k].slot] \in Fds /\ fixups'[k].file # None
  BY <1>1, <1>2, <1>3, <1>4, <1>5, Markers
<1>7. HasFixup(s)' /\ \A t : HasFixup(t) => HasFixup(t)'
  <2>1. \A k \in 1..n : k \in 1..(n + 1)
    OBVIOUS
  <2>2. n + 1 \in 1..(n + 1)
    OBVIOUS
  <2> QED BY <1>0, <1>1, <1>2, <2>1, <2>2 DEF HasFixup
<1> QED BY <1>1, <1>3, <1>6, <1>7

\* A flat object takes the count of its type.
LEMMA TranslateFlatObj == ASSUME ObjInv, TranslateFlat PROVE ObjInv'
<1> USE DEF ObjInv
<1>0. /\ pc = "build" /\ Len(objs) < MaxObjs
      /\ UNCHANGED <<pc, first, sg, last, fda, word, fixups, table, puts, opens, skips>>
  BY DEF TranslateFlat, MoreObjects
<1>1. PICK k \in FlatTypes : /\ objs' = Append(objs, Object(k, 0, 0, 0, 0))
                             /\ owned' = [owned EXCEPT ![k] = @ + 1]
  BY ObjectsAssumption DEF TranslateFlat, Translated, FlatTypes
<1> DEFINE o == Object(k, 0, 0, 0, 0)
<1>2. o \in ObjType /\ o.type = k /\ k \notin {"fd", "ptr", "fda"} /\ InArea(o)
  BY DEF Object, ObjType, FlatTypes, InArea
<1> HIDE DEF o
<1>3. objs' = Append(objs, o)
  BY <1>1 DEF o
<1>4. TypeOK'
  BY <1>0, <1>1, <1>2, <1>3, AppendObjs DEF TypeOK
<1>5. PlacesSound'
  BY <1>0, <1>2, <1>3, AppendObjs DEF PlacesSound
<1>6. FilesOwned'
  BY <1>0, SameFiles
<1>7. FdSlots' = FdSlots /\ FdaSlots' = FdaSlots
  BY <1>2, <1>3, SlotsAppend
<1>8. SlotsKnown' /\ WordsSound'
  BY <1>0, <1>7 DEF SlotsKnown, WordsSound, HasFixup
<1>9. CountsHeld'
  <2>1. \A l : CountOf(l, Len(objs))' = CountOf(l, Len(objs)) + (IF k = l THEN 1 ELSE 0)
    BY <1>2, <1>3, CountAppend
  <2>2. \A l : CountOf(l, Len(objs)) \in Nat
    <3>1. Len(objs) \in Nat
      BY DEF TypeOK
    <3> QED BY <3>1, CountFinite
  <2>3. \A l \in FlatTypes : owned[l] = CountOf(l, Len(objs))
    BY <1>0 DEF CountsHeld, BufferGivesBack
  <2>4. \A l \in FlatTypes : owned'[l] = CountOf(l, Len(objs))'
    BY <1>1, <2>1, <2>2, <2>3 DEF TypeOK
  <2> QED BY <1>0, <2>4 DEF CountsHeld, BufferGivesBack
<1> QED BY <1>4, <1>5, <1>6, <1>8, <1>9

\* Any other object takes none.
LEMMA AppendKeepsCounts ==
  ASSUME TypeOK, CountsHeld, NEW o \in ObjType, o.type \notin FlatTypes, objs' = Append(objs, o),
         pc \in {"build", "fda"}, pc' = "build", owned' = owned
  PROVE  CountsHeld'
<1>1. \A l \in FlatTypes : CountOf(l, Len(objs))' = CountOf(l, Len(objs))
  <2>1. \A l \in FlatTypes : CountOf(l, Len(objs))' = CountOf(l, Len(objs)) + 0
    BY CountAppend
  <2>2. \A l : CountOf(l, Len(objs)) \in Nat
    <3>1. Len(objs) \in Nat
      BY DEF TypeOK
    <3> QED BY <3>1, CountFinite
  <2> QED BY <2>1, <2>2
<1> QED BY <1>1 DEF CountsHeld, BufferGivesBack

\* An fd object: one fixup for its word.
LEMMA TranslateFdObj == ASSUME ObjInv, TranslateFd PROVE ObjInv'
<1> USE DEF ObjInv
<1>0. /\ pc = "build" /\ Len(objs) < MaxObjs
      /\ UNCHANGED <<pc, first, sg, last, fda, table, owned, opens, skips>>
  BY DEF TranslateFd, MoreObjects
<1>1. PICK s \in Slots : s = Extra + NextIndex
  BY <1>0, Sizes DEF NextIndex, Slots, TypeOK
<1>2. PICK fd \in Fds : AddFixup(s, fd)
  BY <1>1, ObjectsAssumption DEF TranslateFd
<1> DEFINE o == Object("fd", 0, 0, 0, 0)
<1>3. o \in ObjType /\ o.type = "fd" /\ o.type \notin FlatTypes /\ InArea(o)
  BY DEF Object, ObjType, FlatTypes, InArea
<1>4. objs' = Append(objs, o)
  BY DEF TranslateFd
<1> HIDE DEF o
<1>5. /\ FilesOwned' /\ puts' \in Seq(Nat)
      /\ fixups' \in Seq([slot : Slots, file : Nat \cup {None}])
  BY <1>0, <1>2, AddFixupFiles
<1>6. /\ \A k \in 1..Len(fixups') : word'[fixups'[k].slot] \in Fds /\ fixups'[k].file # None
      /\ \A t \in Slots : word[t] \in Fds => word'[t] \in Fds
      /\ word'[s] \in Fds /\ word' \in [Slots -> Fds \cup {None}]
      /\ HasFixup(s)' /\ \A t : HasFixup(t) => HasFixup(t)'
  BY <1>0, <1>2, AddFixupWords
<1>7. TypeOK'
  BY <1>0, <1>3, <1>4, <1>5, <1>6, AppendObjs DEF TypeOK
<1>8. PlacesSound'
  BY <1>0, <1>3, <1>4, AppendObjs DEF PlacesSound
<1>9. FdSlots' = FdSlots \cup {s} /\ FdaSlots' = FdaSlots
  BY <1>1, <1>3, <1>4, SlotsAppend
<1>10. SlotsKnown'
  BY <1>0, <1>6, <1>9 DEF SlotsKnown
<1>11. WordsSound'
  BY <1>0, <1>6, <1>9 DEF WordsSound
<1>12. CountsHeld'
  BY <1>0, <1>3, <1>4, AppendKeepsCounts
<1> QED BY <1>5, <1>7, <1>8, <1>10, <1>11, <1>12

\* One fixup for the next word of the array in work.
LEMMA TranslateFdaObj == ASSUME ObjInv, TranslateFda PROVE ObjInv'
<1> USE DEF ObjInv
<1>0. /\ pc = "fda" /\ fda.done < fda.obj.n /\ fda' = [fda EXCEPT !.done = @ + 1]
      /\ UNCHANGED <<pc, first, objs, sg, last, table, owned, opens, skips>>
  BY DEF TranslateFda
<1>1. /\ fda.obj.at \in Nat /\ fda.obj.n \in Nat /\ fda.done \in Nat
      /\ fda.obj.at + fda.obj.n <= Extra /\ fda' \in [obj : ObjType, done : Nat]
      /\ fda'.obj = fda.obj /\ fda'.done = fda.done + 1
  <2>1. fda \in [obj : ObjType, done : Nat] /\ fda.obj \in ObjType /\ fda.done \in Nat
    BY DEF TypeOK
  <2>2. fda.obj.at \in Nat /\ fda.obj.n \in Nat
    BY <2>1 DEF ObjType
  <2>3. fda.obj.at + fda.obj.n <= Extra
    BY <1>0 DEF PlacesSound, InArea
  <2> QED BY <1>0, <2>1, <2>2, <2>3
<1>2. PICK s \in Slots : s = fda.obj.at + fda.done
  BY <1>0, <1>1, Sizes DEF Slots
<1>3. PICK fd \in Fds : AddFixup(s, fd)
  BY <1>2, ObjectsAssumption DEF TranslateFda
<1>5. /\ FilesOwned' /\ puts' \in Seq(Nat)
      /\ fixups' \in Seq([slot : Slots, file : Nat \cup {None}])
  BY <1>0, <1>3, AddFixupFiles
<1>6. /\ \A k \in 1..Len(fixups') : word'[fixups'[k].slot] \in Fds /\ fixups'[k].file # None
      /\ \A t \in Slots : word[t] \in Fds => word'[t] \in Fds
      /\ word'[s] \in Fds /\ word' \in [Slots -> Fds \cup {None}]
      /\ HasFixup(s)' /\ \A t : HasFixup(t) => HasFixup(t)'
  BY <1>0, <1>3, AddFixupWords
<1>7. TypeOK'
  BY <1>0, <1>1, <1>5, <1>6 DEF TypeOK
<1>8. PlacesSound'
  BY <1>0, <1>1 DEF PlacesSound
<1>9. SlotsKnown'
  <2>1. \A t \in fda'.obj.at..(fda'.obj.at + fda'.done - 1) :
          t \in fda.obj.at..(fda.obj.at + fda.done - 1) \/ t = s
    <3>1. fda'.obj.at = fda.obj.at /\ fda'.obj.at + fda'.done - 1 = fda.obj.at + fda.done
      BY <1>1
    <3>2. \A a, b \in Nat : \A t \in a..(a + b) : t \in a..(a + b - 1) \/ t = a + b
      OBVIOUS
    <3> QED BY <1>1, <1>2, <3>1, <3>2
  <2> QED BY <1>0, <1>6, <2>1, SameObjs DEF SlotsKnown
<1>10. WordsSound'
  BY <1>0, <1>6, SameObjs DEF WordsSound
<1>11. CountsHeld'
  BY <1>0, SameObjs DEF CountsHeld, BufferGivesBack
<1> QED BY <1>5, <1>7, <1>8, <1>9, <1>10, <1>11

\* The array is done: all its words have fixups.
LEMMA EndFdaObj == ASSUME ObjInv, EndFda PROVE ObjInv'
<1> USE DEF ObjInv
<1>0. /\ pc = "fda" /\ fda.done = fda.obj.n /\ objs' = Append(objs, fda.obj) /\ pc' = "build" /\ fda' = NoFda
      /\ UNCHANGED <<first, sg, word, fixups, table, puts, owned, opens, skips>>
  BY DEF EndFda
<1>1. PICK o \in ObjType : o = fda.obj
  BY DEF TypeOK
<1>2. /\ o.type = "fda" /\ o.type \notin FlatTypes /\ InArea(o) /\ Len(objs) < MaxObjs
      /\ o.at \in Nat /\ o.n \in Nat /\ objs' = Append(objs, o)
  BY <1>0, <1>1 DEF PlacesSound, FlatTypes, ObjType
<1>3. NoFda \in [obj : ObjType, done : Nat]
  BY DEF NoFda, Object, ObjType
<1>4. TypeOK'
  BY <1>0, <1>2, <1>3, AppendObjs DEF TypeOK
<1>5. PlacesSound'
  BY <1>0, <1>2, AppendObjs DEF PlacesSound
<1>6. FilesOwned'
  BY <1>0, SameFiles
<1>7. FdSlots' = FdSlots /\ FdaSlots' = FdaSlots \cup o.at..(o.at + o.n - 1)
  BY <1>2, SlotsAppend
<1>8. \A s \in o.at..(o.at + o.n - 1) : HasFixup(s)
  BY <1>0, <1>1 DEF SlotsKnown
<1>9. SlotsKnown'
  BY <1>0, <1>7, <1>8 DEF SlotsKnown, HasFixup
<1>10. WordsSound'
  <2>1. \A s \in o.at..(o.at + o.n - 1) : s \in Slots /\ word[s] \in Fds
    <3>1. \A k \in 1..Len(fixups) : fixups[k].slot \in Slots
      BY FixupType
    <3> QED BY <1>8, <3>1 DEF HasFixup, WordsSound
  <2> QED BY <1>0, <1>7, <2>1 DEF WordsSound
<1>11. CountsHeld'
  BY <1>0, <1>2, AppendKeepsCounts
<1> QED BY <1>4, <1>5, <1>6, <1>9, <1>10, <1>11

\* A buffer object takes what is free of the area.
LEMMA TranslatePtrObj == ASSUME ObjInv, TranslatePtr PROVE ObjInv'
<1> USE DEF ObjInv
<1>0. /\ pc = "build" /\ Len(objs) < MaxObjs
      /\ UNCHANGED <<pc, first, fda, word, fixups, table, puts, owned, opens, skips>>
  BY DEF TranslatePtr, MoreObjects
<1>1. PICK n \in Lens, p \in 0..Len(objs), off \in Offs :
        n <= Extra - sg /\ objs' = Append(objs, Object("ptr", p, off, n, sg)) /\ sg' = sg + AlignPtr(n)
  BY DEF TranslatePtr
<1>2. n \in Nat /\ p \in Nat /\ off \in Nat /\ sg \in Nat
  BY Sizes DEF TypeOK
<1>3. sg' \in Nat
  <2>1. (n + Ptr - 1) \div Ptr \in Nat
    BY <1>2, Sizes
  <2>2. ((n + Ptr - 1) \div Ptr) * Ptr \in Nat
    BY <2>1, Sizes
  <2> QED BY <1>1, <1>2, <2>2 DEF AlignPtr
<1> DEFINE o == Object("ptr", p, off, n, sg)
<1>4. o \in ObjType /\ o.type = "ptr" /\ o.type \notin FlatTypes /\ InArea(o)
  BY <1>1, <1>2, Sizes DEF Object, ObjType, FlatTypes, InArea
<1>5. objs' = Append(objs, o)
  BY <1>1
<1> HIDE DEF o
<1>6. TypeOK'
  BY <1>0, <1>3, <1>4, <1>5, AppendObjs DEF TypeOK
<1>7. PlacesSound'
  BY <1>0, <1>4, <1>5, AppendObjs DEF PlacesSound
<1>8. FilesOwned'
  BY <1>0, SameFiles
<1>9. FdSlots' = FdSlots /\ FdaSlots' = FdaSlots
  BY <1>4, <1>5, SlotsAppend
<1>10. SlotsKnown' /\ WordsSound'
  BY <1>0, <1>9 DEF SlotsKnown, WordsSound, HasFixup
<1>11. CountsHeld'
  BY <1>0, <1>4, <1>5, AppendKeepsCounts
<1> QED BY <1>6, <1>7, <1>8, <1>10, <1>11

\* The words of fd arrays are numbers of the target's table.
LEMMA FdaWordsFds ==
  ASSUME TypeOK, WordsSound
  PROVE  FdaWords = {word[s] : s \in FdaSlots} /\ FdaWords \subseteq Fds /\ IsFiniteSet(FdaWords)
<1>1. FdaWords = {word[s] : s \in FdaSlots}
  BY DEF FdaWords, FdaSlots, Area
<1>2. FdaWords \subseteq Fds
  BY <1>1 DEF WordsSound
<1>3. IsFiniteSet(FdaWords)
  BY <1>2, FS_Subset, ObjectsAssumption
<1> QED BY <1>1, <1>2, <1>3

\* Reading a table at a finite set of numbers gives no more files than numbers.
LEMMA ImageBound ==
  ASSUME NEW S, IsFiniteSet(S), NEW f
  PROVE  /\ IsFiniteSet({f[x] : x \in S}) /\ Cardinality({f[x] : x \in S}) \in Nat
         /\ Cardinality({f[x] : x \in S}) <= Cardinality(S)
<1> DEFINE T == {f[x] : x \in S}
           g == [x \in S |-> f[x]]
<1>1. g \in Surjection(S, T)
  BY DEF Surjection
<1>2. IsFiniteSet(T) /\ Cardinality(T) <= Cardinality(S)
  BY <1>1, FS_Surjection
<1> QED BY <1>2, FS_CardinalityType

\* No count is left once the objects are released.
LEMMA Released ==
  ASSUME TypeOK, PlacesSound, CountsHeld, Release(Len(objs)),
         pc \in {"new", "build", "fda", "delivered", "undo"}
  PROVE  owned' \in [FlatTypes -> Int] /\ \A k \in FlatTypes : owned'[k] = 0
<1>1. \A k : CountOf(k, Len(objs)) \in Nat
  <2>1. Len(objs) \in Nat
    BY DEF TypeOK
  <2> QED BY <2>1, CountFinite
<1>2. \A k \in FlatTypes : owned[k] = CountOf(k, Len(objs))
  <2>1. CASE pc = "new"
    <3>1. Len(objs) = 0
      BY <2>1 DEF PlacesSound
    <3>2. \A k : CountOf(k, Len(objs)) = 0
      BY <3>1, CountFinite
    <3>3. \A k \in FlatTypes : owned[k] = 0
      BY <2>1 DEF CountsHeld
    <3> QED BY <3>2, <3>3
  <2>2. CASE pc # "new"
    BY <2>2 DEF CountsHeld, BufferGivesBack
  <2> QED BY <2>1, <2>2
<1> QED BY <1>1, <1>2 DEF Release

\* The error exit puts the files of all fixups and drops the counts of all objects.
LEMMA FailObj == ASSUME ObjInv, Fail PROVE ObjInv'
<1> USE DEF ObjInv
<1>0. /\ pc \in {"new", "build", "fda"} /\ pc' = "failed" /\ fixups' = <<>> /\ fda' = NoFda
      /\ puts' = Put(FixupFiles) /\ Release(Len(objs))
      /\ UNCHANGED <<first, objs, sg, last, word, table, opens, skips>>
  BY DEF Fail
<1>1. /\ FilesOwned' /\ puts' \in Seq(Nat)
  <2>1. \A f \in 1..Len(puts) : f \in FixupFiles <=> InFixup(f)
    BY DEF FixupFiles, InFixup
  <2>2. PICK closed \in SUBSET Fds : closed = {}
    OBVIOUS
  <2>3. {table[d] : d \in closed} \cup FixupFiles = FixupFiles
    BY <2>2
  <2>4. puts' = Put({table[d] : d \in closed} \cup FixupFiles)
    BY <1>0, <2>3
  <2>5. table' = [d \in Fds |-> IF d \in closed THEN None ELSE table[d]]
    BY <1>0, <2>2 DEF TypeOK
  <2> QED BY <1>0, <2>1, <2>4, <2>5, PutFiles
<1>2. NoFda \in [obj : ObjType, done : Nat]
  BY DEF NoFda, Object, ObjType
<1>3. owned' \in [FlatTypes -> Int] /\ \A k \in FlatTypes : owned'[k] = 0
  BY <1>0, Released
<1>4. TypeOK' /\ PlacesSound'
  BY <1>0, <1>1, <1>2, <1>3 DEF TypeOK, PlacesSound
<1>5. Len(fixups') = 0
  BY <1>0
<1>6. SlotsKnown' /\ WordsSound'
  BY <1>0, <1>5, SameObjs DEF SlotsKnown, WordsSound
<1>7. CountsHeld'
  BY <1>0, <1>3 DEF CountsHeld, BufferGivesBack
<1> QED BY <1>1, <1>4, <1>6, <1>7

\* A file moves from its fixup to an unused number, which goes to its word.
LEMMA ApplyFixupObj == ASSUME ObjInv, ApplyFixup PROVE ObjInv'
<1> USE DEF ObjInv
<1>0. /\ pc = "apply" /\ Pending # {} /\ Unused # {}
      /\ UNCHANGED <<pc, first, objs, sg, last, fda, puts, owned, opens, skips>>
  BY DEF ApplyFixup
<1>1. PICK k \in 1..Len(fixups) : k = Lowest(Pending) /\ fixups[k].file # None
  <2>1. Pending \subseteq Nat
    BY DEF Pending, TypeOK
  <2> QED BY <1>0, <2>1, LowestIn DEF Pending
<1>2. PICK fd \in Fds : fd = Lowest(Unused) /\ table[fd] = None
  <2>1. Unused \subseteq Nat
    BY ObjectsAssumption DEF Unused
  <2> QED BY <1>0, <2>1, LowestIn DEF Unused
<1>3. PICK f0 \in 1..Len(puts) : f0 = fixups[k].file
  BY <1>1 DEF FilesOwned
<1>4. PICK s0 \in Slots : s0 = fixups[k].slot
  BY FixupType
<1>5. /\ table' = [table EXCEPT ![fd] = f0] /\ word' = [word EXCEPT ![s0] = fd]
      /\ fixups' = [fixups EXCEPT ![k] = [fixups[k] EXCEPT !.file = None]]
  BY <1>1, <1>2, <1>3, <1>4 DEF ApplyFixup
<1>6. /\ fixups' \in Seq([slot : Slots, file : Nat \cup {None}]) /\ Len(fixups') = Len(fixups)
      /\ fixups'[k].file = None /\ fixups'[k].slot = s0
      /\ \A l \in 1..Len(fixups) : l # k => fixups'[l] = fixups[l]
  <2> DEFINE R == [slot : Slots, file : Nat \cup {None}]
             r == [fixups[k] EXCEPT !.file = None]
  <2>1. r \in R /\ r.file = None /\ r.slot = s0
    BY <1>4, FixupType
  <2>2. fixups \in Seq(R)
    BY DEF TypeOK
  <2> HIDE DEF R, r
  <2>3. /\ [fixups EXCEPT ![k] = r] \in Seq(R) /\ Len([fixups EXCEPT ![k] = r]) = Len(fixups)
        /\ \A l \in 1..Len(fixups) : [fixups EXCEPT ![k] = r][l] = IF l = k THEN r ELSE fixups[l]
    BY <2>1, <2>2, ExceptSeq
  <2> QED BY <1>5, <2>1, <2>3 DEF R, r
<1>7. f0 \in Nat /\ f0 # None
  BY Markers DEF TypeOK
<1>8. /\ table' \in [Fds -> Nat \cup {Own, None}] /\ table'[fd] = f0
      /\ \A d \in Fds : d # fd => table'[d] = table[d]
      /\ word' \in [Slots -> Fds \cup {None}] /\ word'[s0] = fd
      /\ \A s \in Slots : s # s0 => word'[s] = word[s]
  BY <1>5, <1>7 DEF TypeOK
<1>9. TypeOK' /\ PlacesSound'
  BY <1>0, <1>6, <1>8 DEF TypeOK, PlacesSound
<1>10. FilesOwned'
  <2>1. \A f \in 1..Len(puts) : InFixup(f)' <=> InFixup(f) /\ f # f0
    <3>1. \A f \in 1..Len(puts) : f # None
      BY Markers DEF TypeOK
    <3>2. \A l \in 1..Len(fixups) : l # k => fixups[l].file # f0
      BY <1>3, <1>7 DEF FilesOwned
    <3> QED BY <1>3, <1>6, <3>1, <3>2 DEF InFixup
  <2>2. \A f \in 1..Len(puts) : InTable(f)' <=> InTable(f) \/ f = f0
    <3>1. \A f \in 1..Len(puts) : f # None
      BY Markers DEF TypeOK
    <3> QED BY <1>2, <1>8, <3>1 DEF InTable
  <2>3. InFixup(f0) /\ ~InTable(f0)
    BY <1>3 DEF InFixup, FilesOwned
  <2>4. \A f \in 1..Len(puts) : /\ ~(InFixup(f)' /\ InTable(f)')
                                /\ puts[f] = IF InFixup(f)' \/ InTable(f)' THEN 0 ELSE 1
    BY <2>1, <2>2, <2>3 DEF FilesOwned
  <2>5. /\ \A l, m \in 1..Len(fixups) :
             fixups'[l].file = fixups'[m].file /\ fixups'[l].file # None => l = m
        /\ \A l \in 1..Len(fixups) : fixups'[l].file \in 1..Len(puts) \cup {None}
    BY <1>6 DEF FilesOwned
  <2>6. /\ \A d, e \in Fds : table'[d] = table'[e] /\ table'[d] \in Nat => d = e
        /\ \A d \in Fds : table'[d] \in 1..Len(puts) \cup {Own, None}
    <3>1. \A d \in Fds : table[d] # f0
      BY <2>3 DEF InTable
    <3> QED BY <1>8, <3>1 DEF FilesOwned
  <2> QED BY <1>0, <1>6, <2>4, <2>5, <2>6 DEF FilesOwned
<1>11. SlotsKnown'
  <2>1. \A s : HasFixup(s)' <=> HasFixup(s)
    <3>1. \A l \in 1..Len(fixups) : fixups'[l].slot = fixups[l].slot
      BY <1>4, <1>6
    <3> QED BY <1>6, <3>1 DEF HasFixup
  <2> QED BY <1>0, <2>1, SameObjs DEF SlotsKnown
<1>12. WordsSound'
  <2>1. \A l \in 1..Len(fixups) : fixups'[l].slot = fixups[l].slot /\ fixups[l].slot \in Slots
    BY <1>4, <1>6, FixupType
  <2>2. \A l \in 1..Len(fixups) : word'[fixups'[l].slot] \in Fds
    BY <1>8, <2>1 DEF WordsSound
  <2>3. \A s \in FdSlots \cup FdaSlots : s \in Slots /\ word'[s] \in Fds
    BY <1>8 DEF WordsSound
  <2>4. \A l \in 1..Len(fixups) : l # k /\ fixups[l].file = None =>
          table[word[fixups[l].slot]] \in Nat /\ word[fixups[l].slot] \in Fds
    BY <1>0 DEF WordsSound
  <2>5. \A l \in 1..Len(fixups) : fixups'[l].file = None => table'[word'[fixups'[l].slot]] \in Nat
    BY <1>2, <1>6, <1>7, <1>8, <2>1, <2>4, Markers
  <2>6. ASSUME NEW l \in 1..Len(fixups), NEW m \in 1..Len(fixups),
               fixups'[l].file = None, fixups'[m].file = None, fixups[l].slot # fixups[m].slot
        PROVE  word'[fixups[l].slot] # word'[fixups[m].slot]
    <3>1. CASE fixups[l].slot # s0 /\ fixups[m].slot # s0
      <4>1. l # k /\ m # k
        BY <1>4, <3>1
      <4> QED BY <1>0, <1>6, <1>8, <2>1, <2>6, <3>1, <4>1 DEF WordsSound
    <3>2. CASE fixups[l].slot = s0
      <4>1. m # k /\ fixups[m].slot # s0
        BY <1>4, <2>6, <3>2
      <4> QED BY <1>2, <1>6, <1>8, <2>1, <2>4, <2>6, <3>2, <4>1, Markers
    <3>3. CASE fixups[m].slot = s0
      <4>1. l # k /\ fixups[l].slot # s0
        BY <1>4, <2>6, <3>3
      <4> QED BY <1>2, <1>6, <1>8, <2>1, <2>4, <2>6, <3>3, <4>1, Markers
    <3> QED BY <3>1, <3>2, <3>3
  <2>7. \A l, m \in 1..Len(fixups) :
          fixups'[l].file = None =>
            /\ table'[word'[fixups'[l].slot]] \in Nat
            /\ fixups'[m].file = None /\ fixups'[l].slot # fixups'[m].slot =>
                 word'[fixups'[l].slot] # word'[fixups'[m].slot]
    BY <2>1, <2>5, <2>6
  <2>8. FdSlots' = FdSlots /\ FdaSlots' = FdaSlots
    BY <1>0, SameObjs
  <2> QED BY <1>0, <1>6, <2>2, <2>3, <2>7, <2>8 DEF WordsSound
<1>13. CountsHeld'
  BY <1>0, SameObjs DEF CountsHeld, BufferGivesBack
<1> QED BY <1>9, <1>10, <1>11, <1>12, <1>13

\* Closing numbers and putting the files of all fixups; what was not closed is counted.
LEMMA CloseAllFiles ==
  ASSUME TypeOK, FilesOwned, NEW ds \in SUBSET Fds, NEW more, CloseAll(ds, more), fixups' = <<>>,
         \A f \in 1..Len(puts) : f \in more <=> InFixup(f)
  PROVE  /\ FilesOwned' /\ puts' \in Seq(Nat) /\ table' \in [Fds -> Nat \cup {Own, None}]
         /\ Len(puts') = Len(puts) /\ skips' \in Nat
         /\ \E lost \in SUBSET ds :
              /\ IsFiniteSet(lost) /\ Cardinality(lost) <= skips'
              /\ table' = [d \in Fds |-> IF d \in ds \ lost THEN None ELSE table[d]]
<1>1. PICK lost \in SUBSET ds :
        /\ skips' = skips + Cardinality(lost)
        /\ puts' = Put({table[d] : d \in ds \ lost} \cup more)
        /\ table' = [d \in Fds |-> IF d \in ds \ lost THEN None ELSE table[d]]
  BY DEF CloseAll
<1>2. IsFiniteSet(lost)
  BY FS_Subset, ObjectsAssumption
<1>3. Cardinality(lost) \in Nat
  BY <1>2, FS_CardinalityType
<1>4. skips' \in Nat /\ Cardinality(lost) <= skips'
  BY <1>1, <1>3 DEF TypeOK
<1>5. PICK closed \in SUBSET Fds : closed = ds \ lost
  OBVIOUS
<1>6. /\ puts' = Put({table[d] : d \in closed} \cup more)
      /\ table' = [d \in Fds |-> IF d \in closed THEN None ELSE table[d]]
  BY <1>1, <1>5
<1>7. /\ FilesOwned' /\ puts' \in Seq(Nat) /\ table' \in [Fds -> Nat \cup {Own, None}]
      /\ Len(puts') = Len(puts)
  BY <1>6, PutFiles
<1> QED BY <1>1, <1>2, <1>4, <1>7

\* Once the fixups are gone the words that stand for files only have to be numbers.
LEMMA WordsKept ==
  ASSUME WordsSound, UNCHANGED <<objs, word>>, fixups' = <<>>,
         pc' \in {"undo", "failed", "gone", "dropped"}
  PROVE  SlotsKnown' /\ WordsSound'
<1>1. \A k \in 1..Len(fixups') : FALSE
  OBVIOUS
<1>2. FdSlots' = FdSlots /\ FdaSlots' = FdaSlots
  BY SameObjs
<1>3. SlotsKnown'
  BY DEF SlotsKnown
<1>4. WordsSound'
  BY <1>1, <1>2 DEF WordsSound
<1> QED BY <1>3, <1>4

\* No number is left: what was given is closed, what was not is put.
LEMMA ApplyFailsObj == ASSUME ObjInv, ApplyFails PROVE ObjInv'
<1> USE DEF ObjInv
<1> DEFINE ds == {word[fixups[k].slot] : k \in (1..Len(fixups)) \ Pending}
           more == {fixups[k].file : k \in Pending}
<1>0. /\ pc = "apply" /\ pc' = "undo" /\ fixups' = <<>> /\ CloseAll(ds, more)
      /\ UNCHANGED <<first, objs, sg, last, fda, word, owned, opens>>
  BY DEF ApplyFails
<1>1. ds \in SUBSET Fds
  BY DEF WordsSound
<1>2. \A f \in 1..Len(puts) : f \in more <=> InFixup(f)
  <2>1. \A f \in 1..Len(puts) : f # None
    BY Markers DEF TypeOK
  <2> QED BY <2>1 DEF Pending, InFixup
<1> HIDE DEF ds, more
<1>3. /\ FilesOwned' /\ puts' \in Seq(Nat) /\ table' \in [Fds -> Nat \cup {Own, None}]
      /\ skips' \in Nat
  BY <1>0, <1>1, <1>2, CloseAllFiles
<1>4. TypeOK' /\ PlacesSound'
  BY <1>0, <1>3 DEF TypeOK, PlacesSound
<1>5. SlotsKnown' /\ WordsSound'
  BY <1>0, WordsKept
<1>6. CountsHeld'
  BY <1>0, SameObjs DEF CountsHeld, BufferGivesBack
<1> QED BY <1>3, <1>4, <1>5, <1>6

\* All fixups are applied: the words of the buffer are the target's numbers.
LEMMA DeliveredObj == ASSUME ObjInv, Delivered PROVE ObjInv'
<1> USE DEF ObjInv
<1>0. /\ pc = "apply" /\ Pending = {} /\ pc' = "delivered" /\ fixups' = <<>>
      /\ UNCHANGED <<first, objs, sg, last, fda, word, table, puts, owned, opens, skips>>
  BY DEF Delivered
<1>1. \A k \in 1..Len(fixups) : fixups[k].file = None
  BY <1>0 DEF Pending
<1>2. \A k \in 1..Len(fixups') : FALSE
  BY <1>0
<1>3. TypeOK' /\ PlacesSound'
  BY <1>0 DEF TypeOK, PlacesSound
<1>4. FilesOwned'
  <2>1. \A f \in 1..Len(puts) : f # None
    BY Markers DEF TypeOK
  <2>2. \A f \in 1..Len(puts) : ~InFixup(f) /\ ~InFixup(f)' /\ (InTable(f)' <=> InTable(f))
    BY <1>0, <1>1, <1>2, <2>1 DEF InFixup, InTable
  <2> QED BY <1>0, <1>2, <2>2 DEF FilesOwned
<1>5. SlotsKnown'
  BY <1>0 DEF SlotsKnown
<1>6. WordsSound'
  <2>1. FdSlots' = FdSlots /\ FdaSlots' = FdaSlots
    BY <1>0, SameObjs
  <2>2. \A s \in FdSlots \cup FdaSlots : HasFixup(s)
    BY <1>0 DEF SlotsKnown
  <2>3. \A s \in FdaSlots : table[word[s]] \in Nat
    BY <1>0, <1>1, <2>2 DEF WordsSound, HasFixup
  <2>4. \A s, t \in FdSlots \cup FdaSlots : s # t => word[s] # word[t]
    BY <1>0, <1>1, <2>2 DEF WordsSound, HasFixup
  <2> QED BY <1>0, <1>2, <2>1, <2>3, <2>4 DEF WordsSound
<1>7. CountsHeld'
  BY <1>0, SameObjs DEF CountsHeld, BufferGivesBack
<1> QED BY <1>3, <1>4, <1>5, <1>6, <1>7

\* Numbers W that lead to the files E only where they are in S lead to no more of them
\* than S has members.
LEMMA OpenBound ==
  ASSUME NEW W, NEW u, NEW E, NEW S, IsFiniteSet(S),
         \A d \in W : u[d] \in E => d \in S
  PROVE  Cardinality({u[d] : d \in W} \cap E) <= Cardinality(S)
<1> DEFINE A == {u[d] : d \in W} \cap E
           B == {u[d] : d \in S}
<1>1. A \subseteq B
  OBVIOUS
<1>2. IsFiniteSet(B) /\ Cardinality(B) \in Nat /\ Cardinality(B) <= Cardinality(S)
  BY ImageBound
<1>3. Cardinality(S) \in Nat
  BY FS_CardinalityType
<1> HIDE DEF A, B
<1>4. IsFiniteSet(A) /\ Cardinality(A) <= Cardinality(B)
  BY <1>1, <1>2, FS_Subset
<1>5. Cardinality(A) \in Nat
  BY <1>4, FS_CardinalityType
<1> QED BY <1>2, <1>3, <1>4, <1>5 DEF A

\* The words of fd arrays change with the objects and the words only.
LEMMA SameFdaWords == ASSUME UNCHANGED <<objs, word>> PROVE FdaWords' = FdaWords
BY DEF FdaWords

\* The target frees the buffer: the numbers of its arrays are closed.
LEMMA FreeBufObj == ASSUME ObjInv, FreeBuf PROVE ObjInv'
<1> USE DEF ObjInv
<1>0. /\ pc \in {"delivered", "undo"} /\ pc' = "gone" /\ Release(Len(objs)) /\ CloseAll(FdaWords, {})
      /\ UNCHANGED <<first, objs, sg, last, fda, word, fixups, opens>>
  BY DEF FreeBuf
<1>1. fixups = <<>> /\ fixups' = <<>>
  BY <1>0 DEF SlotsKnown
<1>2. \A f \in 1..Len(puts) : f \in {} <=> InFixup(f)
  BY <1>1 DEF InFixup
<1>3. FdaWords \in SUBSET Fds /\ IsFiniteSet(FdaWords)
  BY FdaWordsFds
<1>4. /\ FilesOwned' /\ puts' \in Seq(Nat) /\ table' \in [Fds -> Nat \cup {Own, None}]
      /\ Len(puts') = Len(puts) /\ skips' \in Nat
      /\ \E lost \in SUBSET FdaWords :
           /\ IsFiniteSet(lost) /\ Cardinality(lost) <= skips'
           /\ table' = [d \in Fds |-> IF d \in FdaWords \ lost THEN None ELSE table[d]]
  BY <1>0, <1>1, <1>2, <1>3, CloseAllFiles
<1>5. owned' \in [FlatTypes -> Int] /\ \A k \in FlatTypes : owned'[k] = 0
  BY <1>0, Released
<1>6. TypeOK' /\ PlacesSound'
  BY <1>0, <1>4, <1>5 DEF TypeOK, PlacesSound
<1>7. SlotsKnown' /\ WordsSound'
  BY <1>0, <1>1, WordsKept
<1>8. CountsHeld'
  <2>1. PICK lost \in SUBSET FdaWords :
           /\ IsFiniteSet(lost) /\ Cardinality(lost) <= skips'
           /\ table' = [d \in Fds |-> IF d \in FdaWords \ lost THEN None ELSE table[d]]
    BY <1>4
  <2>2. None \notin DOMAIN puts'
    BY <1>4, Markers
  <2>3. \A d \in FdaWords : table'[d] \in DOMAIN puts' => d \in lost
    BY <1>3, <2>1, <2>2
  <2> DEFINE u == table'
             E == DOMAIN puts'
             A == {u[d] : d \in FdaWords} \cap E
  <2>4. Cardinality(A) <= Cardinality(lost)
    <3>1. \A d \in FdaWords : u[d] \in E => d \in lost
      BY <2>3
    <3>2. IsFiniteSet(lost)
      BY <2>1
    <3> HIDE DEF u, E
    <3>3. Cardinality({u[d] : d \in FdaWords} \cap E) <= Cardinality(lost)
      BY ONLY <3>1, <3>2, OpenBound
    <3> QED BY <3>3
  <2>5. IsFiniteSet(A)
    <3> HIDE DEF u, E
    <3>1. IsFiniteSet({u[d] : d \in FdaWords})
      BY <1>3, ImageBound
    <3> QED BY <3>1, FS_Subset
  <2>6. Cardinality(A) \in Nat /\ Cardinality(lost) \in Nat
    BY <2>1, <2>5, FS_CardinalityType
  <2> HIDE DEF A
  <2>7. Cardinality(A) <= skips'
    BY <1>4, <2>1, <2>4, <2>6
  <2>8. ({table[d] : d \in FdaWords} \cap DOMAIN puts)' = A
    BY <1>0, SameFdaWords DEF A
  <2>9. Cardinality({table[d] : d \in FdaWords} \cap DOMAIN puts)' <= skips'
    BY <2>7, <2>8
  <2> QED BY <1>0, <1>5, <2>9 DEF CountsHeld, BufferGivesBack
<1> QED BY <1>4, <1>6, <1>7, <1>8

\* A dead target's files are put, those of its table and those of the fixups.
LEMMA DieObj == ASSUME ObjInv, Die PROVE ObjInv'
<1> USE DEF ObjInv
<1>0. /\ pc \in {"queued", "delivered"} /\ pc' = "dropped" /\ fixups' = <<>>
      /\ puts' = Put(FixupFiles \cup {table[d] : d \in Fds})
      /\ table' = [d \in Fds |-> None] /\ owned' = [k \in FlatTypes |-> 0]
      /\ UNCHANGED <<first, objs, sg, last, fda, word, opens, skips>>
  BY DEF Die
<1>1. \A f \in 1..Len(puts) : f \in FixupFiles <=> InFixup(f)
  BY DEF FixupFiles, InFixup
<1>2. PICK closed \in SUBSET Fds : closed = Fds
  OBVIOUS
<1>3. {table[d] : d \in closed} \cup FixupFiles = FixupFiles \cup {table[d] : d \in Fds}
  BY <1>2
<1>4. /\ puts' = Put({table[d] : d \in closed} \cup FixupFiles)
      /\ table' = [d \in Fds |-> IF d \in closed THEN None ELSE table[d]]
  BY <1>0, <1>2, <1>3
<1>5. /\ FilesOwned' /\ puts' \in Seq(Nat) /\ table' \in [Fds -> Nat \cup {Own, None}]
  BY <1>0, <1>1, <1>4, PutFiles
<1>6. TypeOK' /\ PlacesSound'
  BY <1>0, <1>5 DEF TypeOK, PlacesSound
<1>7. SlotsKnown' /\ WordsSound'
  BY <1>0, WordsKept
<1>8. CountsHeld'
  BY <1>0 DEF CountsHeld, BufferGivesBack
<1> QED BY <1>5, <1>6, <1>7, <1>8

\* Fewer numbers lead to files of the transaction than before: the bound of
\* BufferGivesBack stays.
LEMMA BoundKept ==
  ASSUME TypeOK, WordsSound, UNCHANGED <<objs, word, skips>>, DOMAIN puts' = DOMAIN puts,
         \A d \in FdaWords : table'[d] \in DOMAIN puts => table'[d] = table[d],
         Cardinality({table[d] : d \in FdaWords} \cap DOMAIN puts) <= skips
  PROVE  Cardinality({table[d] : d \in FdaWords} \cap DOMAIN puts)' <= skips'
<1> DEFINE A == {table[d] : d \in FdaWords} \cap DOMAIN puts
           B == {table'[d] : d \in FdaWords} \cap DOMAIN puts
<1>1. B \subseteq A
  OBVIOUS
<1>2. IsFiniteSet(A)
  <2>1. IsFiniteSet({table[d] : d \in FdaWords})
    BY FdaWordsFds, ImageBound
  <2> QED BY <2>1, FS_Subset
<1>3. Cardinality(A) <= skips /\ skips' = skips /\ skips \in Nat
  BY DEF TypeOK
<1>4. ({table[d] : d \in FdaWords} \cap DOMAIN puts)' = B
  BY SameFdaWords
<1> HIDE DEF A, B
<1>5. IsFiniteSet(B) /\ Cardinality(B) <= Cardinality(A)
  BY <1>1, <1>2, FS_Subset
<1>6. Cardinality(A) \in Nat /\ Cardinality(B) \in Nat
  BY <1>2, <1>5, FS_CardinalityType
<1>7. Cardinality(B) <= skips'
  BY <1>3, <1>5, <1>6
<1> QED BY <1>4, <1>7

\* The target opens a file of its own at an unused number.
LEMMA UserOpenObj == ASSUME ObjInv, UserOpen PROVE ObjInv'
<1> USE DEF ObjInv
<1>0. /\ Unused # {} /\ opens' = opens + 1 /\ table' = [table EXCEPT ![Lowest(Unused)] = Own]
      /\ UNCHANGED <<pc, first, objs, sg, last, fda, word, fixups, puts, owned, skips>>
  BY DEF UserOpen
<1>1. PICK fd \in Fds : fd = Lowest(Unused) /\ table[fd] = None
  <2>1. Unused \subseteq Nat
    BY ObjectsAssumption DEF Unused
  <2> QED BY <1>0, <2>1, LowestIn DEF Unused
<1>2. /\ table' \in [Fds -> Nat \cup {Own, None}] /\ table'[fd] = Own
      /\ \A d \in Fds : d # fd => table'[d] = table[d]
  BY <1>0, <1>1 DEF TypeOK
<1>3. TypeOK' /\ PlacesSound'
  BY <1>0, <1>2 DEF TypeOK, PlacesSound
<1>4. FilesOwned'
  <2>1. \A f \in 1..Len(puts) : f # None /\ f # Own
    BY Markers DEF TypeOK
  <2>2. \A f \in 1..Len(puts) : InTable(f)' <=> InTable(f)
    BY <1>1, <1>2, <2>1 DEF InTable
  <2>3. \A f : InFixup(f)' <=> InFixup(f)
    BY <1>0 DEF InFixup
  <2>4. /\ \A d, e \in Fds : table'[d] = table'[e] /\ table'[d] \in Nat => d = e
        /\ \A d \in Fds : table'[d] \in 1..Len(puts) \cup {Own, None}
    BY <1>2, Markers DEF FilesOwned
  <2> QED BY <1>0, <2>2, <2>3, <2>4 DEF FilesOwned
<1>5. \A d \in Fds : table[d] \in Nat => table'[d] \in Nat
  BY <1>1, <1>2, Markers
<1>6. SlotsKnown'
  BY <1>0, SameObjs DEF SlotsKnown, HasFixup
<1>7. WordsSound'
  <2>1. FdSlots' = FdSlots /\ FdaSlots' = FdaSlots
    BY <1>0, SameObjs
  <2> QED BY <1>0, <1>5, <2>1 DEF WordsSound
<1>8. CountsHeld'
  <2>1. \A k : CountOf(k, Len(objs))' = CountOf(k, Len(objs))
    BY <1>0, SameObjs
  <2>2. ASSUME pc = "gone" PROVE Cardinality({table[d] : d \in FdaWords} \cap DOMAIN puts)' <= skips'
    <3>1. Own \notin DOMAIN puts /\ DOMAIN puts' = DOMAIN puts
      BY <1>0, Markers DEF TypeOK
    <3>2. \A d \in FdaWords : table'[d] \in DOMAIN puts => table'[d] = table[d]
      BY <1>2, <3>1, FdaWordsFds
    <3>3. Cardinality({table[d] : d \in FdaWords} \cap DOMAIN puts) <= skips
      BY <2>2 DEF CountsHeld, BufferGivesBack
    <3> QED BY <1>0, <3>1, <3>2, <3>3, BoundKept
  <2> QED BY <1>0, <2>1, <2>2 DEF CountsHeld, BufferGivesBack
<1> QED BY <1>3, <1>4, <1>6, <1>7, <1>8

\* The target closes the file of an fd object, once.
LEMMA UserCloseObj == ASSUME ObjInv, UserClose PROVE ObjInv'
<1> USE DEF ObjInv
<1>0. /\ pc \in {"delivered", "gone"}
      /\ UNCHANGED <<pc, first, objs, sg, last, fda, word, fixups, owned, opens, skips>>
  BY DEF UserClose
<1>1. PICK i \in 1..Len(objs) :
        /\ objs[i].type = "fd" /\ table[word[Extra + i]] \in DOMAIN puts
        /\ puts' = Put({table[word[Extra + i]]})
        /\ table' = [table EXCEPT ![word[Extra + i]] = None]
  BY DEF UserClose
<1>2. Extra + i \in FdSlots
  BY <1>1 DEF FdSlots
<1>3. PICK fd \in Fds : fd = word[Extra + i]
  BY <1>2 DEF WordsSound
<1>4. fixups = <<>> /\ fixups' = <<>>
  BY <1>0 DEF SlotsKnown
<1>5. \A f \in 1..Len(puts) : f \in {} <=> InFixup(f)
  BY <1>4 DEF InFixup
<1>6. PICK closed \in SUBSET Fds : closed = {fd}
  OBVIOUS
<1>7. puts' = Put({table[d] : d \in closed} \cup {})
  <2>1. {table[d] : d \in closed} \cup {} = {table[fd]}
    BY <1>6
  <2> QED BY <1>1, <1>3, <2>1
<1>8. /\ table' = [d \in Fds |-> IF d \in closed THEN None ELSE table[d]]
      /\ \A d \in Fds : table'[d] = IF d = fd THEN None ELSE table[d]
  BY <1>1, <1>3, <1>6 DEF TypeOK
<1>9. /\ FilesOwned' /\ puts' \in Seq(Nat) /\ table' \in [Fds -> Nat \cup {Own, None}]
      /\ Len(puts') = Len(puts)
  BY <1>4, <1>5, <1>7, <1>8, PutFiles
<1>10. TypeOK' /\ PlacesSound'
  BY <1>0, <1>9 DEF TypeOK, PlacesSound
<1>11. SlotsKnown'
  BY <1>0, <1>4 DEF SlotsKnown
<1>12. WordsSound'
  <2>1. FdSlots' = FdSlots /\ FdaSlots' = FdaSlots
    BY <1>0, SameObjs
  <2>2. ASSUME pc = "delivered", NEW s \in FdaSlots PROVE table'[word[s]] \in Nat
    <3>1. s \in 0..(Extra - 1) /\ Extra + i \in (Extra + 1)..(Extra + Len(objs))
      BY <1>2, SlotRange
    <3>2. Len(objs) \in Nat /\ i \in Nat /\ i >= 1
      BY DEF TypeOK
    <3>3. s # Extra + i
      BY <3>1, <3>2, Sizes
    <3>4. word[s] # fd /\ word[s] \in Fds /\ table[word[s]] \in Nat
      BY <1>2, <1>3, <2>2, <3>3 DEF WordsSound
    <3> QED BY <1>8, <3>4
  <2>3. \A k \in 1..Len(fixups') : FALSE
    BY <1>4
  <2> QED BY <1>0, <2>1, <2>2, <2>3 DEF WordsSound
<1>13. CountsHeld'
  <2>1. \A k : CountOf(k, Len(objs))' = CountOf(k, Len(objs))
    BY <1>0, SameObjs
  <2>2. ASSUME pc = "gone" PROVE Cardinality({table[d] : d \in FdaWords} \cap DOMAIN puts)' <= skips'
    <3>1. None \notin DOMAIN puts /\ DOMAIN puts' = DOMAIN puts
      BY <1>9, Markers DEF TypeOK
    <3>2. \A d \in FdaWords : table'[d] \in DOMAIN puts => table'[d] = table[d]
      BY <1>8, <3>1, FdaWordsFds
    <3>3. Cardinality({table[d] : d \in FdaWords} \cap DOMAIN puts) <= skips
      BY <2>2 DEF CountsHeld, BufferGivesBack
    <3> QED BY <1>0, <3>1, <3>2, <3>3, BoundKept
  <2> QED BY <1>0, <2>1, <2>2 DEF CountsHeld, BufferGivesBack
<1> QED BY <1>9, <1>10, <1>11, <1>12, <1>13

\* A step that changes nothing.
LEMMA StutterObj == ASSUME ObjInv, UNCHANGED vars PROVE ObjInv'
<1> USE DEF ObjInv, vars
<1>1. TypeOK' /\ PlacesSound'
  BY DEF TypeOK, PlacesSound
<1>2. FilesOwned'
  BY SameFiles
<1>3. SlotsKnown' /\ WordsSound'
  BY SameObjs DEF SlotsKnown, WordsSound, HasFixup
<1>4. CountsHeld'
  BY SameObjs, SameFdaWords DEF CountsHeld, BufferGivesBack
<1> QED BY <1>1, <1>2, <1>3, <1>4

\* Every step of the specification keeps ObjInv.
LEMMA NextObj == ObjInv /\ [Next]_vars => ObjInv'
<1> SUFFICES ASSUME ObjInv, [Next]_vars PROVE ObjInv' OBVIOUS
<1> QED BY CopiedObj, TranslateFlatObj, TranslateFdObj, BeginFdaObj, TranslateFdaObj, EndFdaObj,
           TranslatePtrObj, FailObj, QueueReadObj, ApplyFixupObj, ApplyFailsObj, DeliveredObj,
           FreeBufObj, DieObj, UserOpenObj, UserCloseObj, StutterObj DEF Next

-----------------------------------------------------------------------------
(* What the specification promises.                                        *)

\* ObjInv holds in every reachable state, whatever the objects, sizes and fd numbers.
THEOREM ObjInvariant == Spec => []ObjInv
<1>1. Init => ObjInv
  BY InitObj
<1>2. ObjInv /\ [Next]_vars => ObjInv'
  BY NextObj
<1> QED BY <1>1, <1>2, PTL DEF Spec

\* With one owner at most, what owners a file has and its puts add up to one.
LEMMA OwnedBalances == ObjInv => FilesBalanced
<1> SUFFICES ASSUME ObjInv, NEW f \in DOMAIN puts
             PROVE  Cardinality({k \in 1..Len(fixups) : fixups[k].file = f})
                      + Cardinality({d \in Fds : table[d] = f}) + puts[f] = 1
  BY DEF FilesBalanced
<1> DEFINE K == {k \in 1..Len(fixups) : fixups[k].file = f}
           D == {d \in Fds : table[d] = f}
<1>1. f \in 1..Len(puts) /\ f \in Nat /\ f # None
  BY Markers DEF ObjInv, TypeOK
<1>2. \A k, l \in K : k = l
  BY <1>1 DEF ObjInv, FilesOwned
<1>3. \A d, e \in D : d = e
  BY <1>1 DEF ObjInv, FilesOwned
<1>4. /\ InFixup(f) <=> K # {}
      /\ InTable(f) <=> D # {}
  BY DEF InFixup, InTable
<1>5. /\ ~(InFixup(f) /\ InTable(f))
      /\ puts[f] = IF InFixup(f) \/ InTable(f) THEN 0 ELSE 1
  BY <1>1 DEF ObjInv, FilesOwned
<1> HIDE DEF K, D
<1>6. Cardinality(K) = IF InFixup(f) THEN 1 ELSE 0
  <2>1. CASE K = {}
    BY <1>4, <2>1, FS_EmptySet
  <2>2. CASE K # {}
    <3>1. PICK k : K = {k}
      BY <1>2, <2>2
    <3> QED BY <1>4, <2>2, <3>1, FS_Singleton
  <2> QED BY <2>1, <2>2
<1>7. Cardinality(D) = IF InTable(f) THEN 1 ELSE 0
  <2>1. CASE D = {}
    BY <1>4, <2>1, FS_EmptySet
  <2>2. CASE D # {}
    <3>1. PICK d : D = {d}
      BY <1>3, <2>2
    <3> QED BY <1>4, <2>2, <3>1, FS_Singleton
  <2> QED BY <2>1, <2>2
<1>8. Cardinality(K) + Cardinality(D) + puts[f] = 1
  BY <1>5, <1>6, <1>7
<1> QED BY <1>8 DEF K, D

\* FilesBalanced of BinderObjects: every file taken by binder_translate_fd() has exactly
\* one owner until it is put exactly once, on every path of binder_transaction(),
\* binder_apply_fd_fixups(), binder_free_buf() and the death of the target.
THEOREM FilesAlwaysBalanced == Spec => []FilesBalanced
<1>1. ObjInv => FilesBalanced
  BY OwnedBalances
<1> QED BY <1>1, ObjInvariant, PTL

\* BufferGivesBack of BinderObjects: the counts a buffer holds are those of its objects
\* and all are dropped with it, and the files of fd arrays are closed but for closes that
\* found no memory.
THEOREM BufferAlwaysGivesBack == Spec => []BufferGivesBack
<1>1. ObjInv => BufferGivesBack
  BY DEF ObjInv, CountsHeld
<1> QED BY <1>1, ObjInvariant, PTL

\* What CloseAll() closes is in its set.
LEMMA ClosedIn ==
  ASSUME TypeOK, NEW ds, NEW more, CloseAll(ds, more), NEW d \in Fds, table[d] = Own, table'[d] # Own
  PROVE  d \in ds
<1>1. PICK lost \in SUBSET ds : table' = [e \in Fds |-> IF e \in ds \ lost THEN None ELSE table[e]]
  BY DEF CloseAll
<1> QED BY <1>1

\* No step but the death of the target and the release after failed fixups takes a number
\* from a file the target opened itself.
LEMMA StepClosesOwn ==
  ASSUME ObjInv, [Next]_vars, NEW d \in Fds, table[d] = Own, table'[d] # Own
  PROVE  pc = "undo" \/ pc' = "dropped"
<1> USE Markers DEF ObjInv
<1>1. CASE table' = table
  BY <1>1
<1>2. CASE ApplyFixup
  <2>1. Unused \subseteq Nat /\ Unused # {}
    BY <1>2, ObjectsAssumption DEF Unused, ApplyFixup
  <2>2. table[Lowest(Unused)] = None /\ Lowest(Unused) \in Fds
    BY <2>1, LowestIn DEF Unused
  <2>3. d # Lowest(Unused)
    BY <2>2
  <2> QED BY <1>2, <2>2, <2>3 DEF ApplyFixup, TypeOK
<1>3. CASE ApplyFails
  <2>1. d \in {word[fixups[k].slot] : k \in (1..Len(fixups)) \ Pending}
    BY <1>3, ClosedIn DEF ApplyFails
  <2>2. PICK k \in 1..Len(fixups) : k \notin Pending /\ d = word[fixups[k].slot]
    BY <2>1
  <2>3. pc = "apply" /\ fixups[k].file = None
    BY <1>3, <2>2 DEF Pending, ApplyFails
  <2>4. table[d] \in Nat
    BY <2>2, <2>3 DEF WordsSound
  <2> QED BY <2>4
<1>4. CASE FreeBuf
  <2>1. d \in FdaWords
    BY <1>4, ClosedIn DEF FreeBuf
  <2>2. PICK s \in FdaSlots : d = word[s]
    BY <2>1, FdaWordsFds
  <2>3. pc = "delivered" => table[d] \in Nat
    BY <2>2 DEF WordsSound
  <2> QED BY <1>4, <2>3 DEF FreeBuf
<1>5. CASE Die
  BY <1>5 DEF Die
<1>6. CASE UserOpen
  <2>1. table' = [table EXCEPT ![Lowest(Unused)] = Own]
    BY <1>6 DEF UserOpen
  <2> QED BY <2>1 DEF TypeOK
<1>7. CASE UserClose
  <2>1. PICK i \in 1..Len(objs) : /\ table[word[Extra + i]] \in DOMAIN puts
                                  /\ table' = [table EXCEPT ![word[Extra + i]] = None]
    BY <1>7 DEF UserClose
  <2>2. table[word[Extra + i]] \in Nat
    BY <2>1 DEF TypeOK
  <2>3. d # word[Extra + i]
    BY <2>2
  <2> QED BY <2>1, <2>3 DEF TypeOK
<1> QED
  BY <1>1, <1>2, <1>3, <1>4, <1>5, <1>6, <1>7
  DEF Next, vars, Copied, TranslateFlat, TranslateFd, BeginFda, TranslateFda, EndFda, TranslatePtr,
      Fail, Queue, Read, Delivered

\* ClosesOnlyItsOwn of BinderObjects: binder_deferred_fd_close() takes no number from a
\* file of the target's own, except after a failed fixup.
THEOREM AlwaysClosesItsOwn == Spec => ClosesOnlyItsOwn
<1>1. ObjInv /\ [Next]_vars =>
        [\A d \in Fds : table[d] = Own /\ table'[d] # Own => pc = "undo" \/ pc' = "dropped"]_vars
  BY StepClosesOwn
<1> QED BY <1>1, ObjInvariant, PTL DEF Spec, ClosesOnlyItsOwn

-----------------------------------------------------------------------------
(* Where the driver writes.  The objects form trees; fixups go along one    *)
(* path of them, from the last object fixed up to its root, and in each     *)
(* buffer of the path past what was fixed up there.                         *)

Width(o) == IF o.type = "fda" THEN o.n ELSE Ptr

\* Nothing in the buffer of p is fixed up at b or behind.
Below(p, b) == \A j \in 1..Len(objs) : objs[j].parent = p => objs[j].off + Width(objs[j]) <= b

\* A parent is a buffer object before its child and has room for it.
Tree ==
  \A k \in 1..Len(objs) : objs[k].parent # 0 =>
    /\ objs[k].parent \in 1..(k - 1) /\ objs[objs[k].parent].type = "ptr"
    /\ objs[k].off + Width(objs[k]) <= objs[objs[k].parent].n

\* Buffers follow each other in the area, fixups in a buffer.
Increasing ==
  /\ \A i \in 1..Len(objs) : objs[i].type = "ptr" => objs[i].at + objs[i].n <= sg
  /\ \A i, j \in 1..Len(objs) : i < j =>
       /\ objs[i].type = "ptr" /\ objs[j].type = "ptr" => objs[i].at + objs[i].n <= objs[j].at
       /\ objs[i].parent = objs[j].parent /\ objs[i].parent # 0 =>
            objs[i].off + Width(objs[i]) <= objs[j].off

\* P holds the last object fixed up and its parents, and each step up says where the fixups
\* in the parent end.
Path(P) ==
  /\ P \subseteq 1..Len(objs) /\ Index(last.off) \in P /\ Below(Index(last.off), last.min)
  /\ \A k \in P : objs[k].parent # 0 => objs[k].parent \in P /\ Below(objs[k].parent, objs[k].off + Ptr)

\* The checks for an fd array still hold when its last fd is translated.
ArrayAllowed(o) == ValidParent(o.parent) /\ FixupAllowed(o.parent, o.off) /\ Fits(o.parent, o.off, o.n)

FixInv ==
  /\ last \in [off : Nat, min : Nat] /\ Tree /\ Increasing
  /\ last.off # 0 => \E P : Path(P)
  /\ pc = "fda" => ArrayAllowed(fda.obj)

\* The fields of an object are numbers.
LEMMA ObjNats ==
  ASSUME TypeOK, NEW i \in 1..Len(objs)
  PROVE  /\ objs[i].parent \in Nat /\ objs[i].off \in Nat /\ objs[i].n \in Nat /\ objs[i].at \in Nat
         /\ Width(objs[i]) \in Nat
<1>1. objs[i] \in ObjType
  BY DEF TypeOK
<1> QED BY <1>1, Sizes DEF ObjType, Width

\* A set of numbers has a least member.
LEMMA Least ==
  ASSUME NEW S, S \subseteq Nat, S # {}
  PROVE  \E n \in S : \A k \in S : n <= k
<1> DEFINE R == OpToRel(<, Nat)
<1>1. IsWellFoundedOn(R, Nat)
  BY NatLessThanWellFounded
<1>2. \A i, j \in Nat : i < j => <<i, j>> \in R
  BY DEF OpToRel
<1> HIDE DEF R
<1>3. PICK n \in S : \A k \in S : ~(<<k, n>> \in R)
  BY <1>1, WFMin
<1>4. \A k \in S : ~(k < n)
  BY <1>2, <1>3, Zenon
<1>5. \A k \in S : n <= k
  BY <1>4
<1> QED BY <1>5

\* The walk of binder_validate_fixup() ends, because every step goes to an earlier object.
LEMMA WalkIs ==
  ASSUME TypeOK, Tree, NEW p, NEW i \in 1..Len(objs)
  PROVE  MinOffset(p, i) = IF objs[i].parent = 0 THEN -1
                           ELSE IF objs[i].parent = p THEN objs[i].off + Ptr
                           ELSE MinOffset(p, objs[i].parent)
<1>N. PICK N \in Nat : N = Len(objs)
  BY DEF TypeOK
<1> DEFINE Up(f, k) == IF objs[k].parent = 0 THEN -1
                       ELSE IF objs[k].parent = p THEN objs[k].off + Ptr
                       ELSE f[objs[k].parent]
           F(f, n) == DOMAIN f = 1..n /\ \A k \in 1..n : f[k] = Up(f, k)
           Bad == {n \in 0..N : ~\E f : F(f, n)}
<1>t. \A k \in 1..N : objs[k].parent # 0 => objs[k].parent \in 1..(k - 1)
  BY <1>N DEF Tree
<1>1. ASSUME Bad # {} PROVE FALSE
  <2>1. PICK n \in Bad : \A m \in Bad : n <= m
    <3>1. Bad \subseteq Nat
      OBVIOUS
    <3> HIDE DEF Bad
    <3> QED BY <1>1, <3>1, Least
  <2>2. n \in 0..N /\ ~\E f : F(f, n)
    OBVIOUS
  <2>3. CASE n = 0
    <3> DEFINE f == [k \in 1..0 |-> 0]
    <3>1. F(f, 0)
      OBVIOUS
    <3> QED BY <2>2, <2>3, <3>1
  <2>4. CASE n > 0
    <3>1. n - 1 \in 0..N /\ n - 1 \notin Bad
      BY <2>1, <2>2, <2>4
    <3>2. PICK g : F(g, n - 1)
      BY <3>1
    <3> DEFINE f == [k \in 1..n |-> IF k = n THEN Up(g, n) ELSE g[k]]
    <3>3. ASSUME NEW k \in 1..n PROVE f[k] = Up(f, k)
      <4>0. k \in 1..N
        BY <2>2
      <4>1. objs[k].parent # 0 => objs[k].parent \in 1..n /\ objs[k].parent # n /\ objs[k].parent \in 1..(k - 1)
        BY <1>t, <2>2, <4>0
      <4>2. objs[k].parent # 0 => f[objs[k].parent] = g[objs[k].parent]
        BY <4>1
      <4>3. Up(f, k) = Up(g, k)
        BY <4>2
      <4>4. k # n => k \in 1..(n - 1) /\ f[k] = g[k]
        BY <2>2
      <4>5. k = n => f[k] = Up(g, k)
        BY <2>2, <2>4
      <4>6. k # n => g[k] = Up(g, k)
        BY <3>2, <4>4
      <4> HIDE DEF Up, f
      <4> QED BY <4>3, <4>4, <4>5, <4>6
    <3>4. DOMAIN f = 1..n
      OBVIOUS
    <3> HIDE DEF f, Up
    <3>5. F(f, n)
      BY <3>3, <3>4
    <3> QED BY <2>2, <3>5
  <2> QED BY <2>2, <2>3, <2>4
<1>2. PICK f : F(f, N)
  BY <1>1
<1> DEFINE G(g) == g = [k \in 1..Len(objs) |-> IF objs[k].parent = 0 THEN -1
                                               ELSE IF objs[k].parent = p THEN objs[k].off + Ptr
                                               ELSE g[objs[k].parent]]
<1>3. G([k \in 1..N |-> f[k]])
  <2> DEFINE g == [k \in 1..N |-> f[k]]
  <2>1. \A k \in 1..N : g[k] = f[k]
    OBVIOUS
  <2>2. ASSUME NEW k \in 1..N
        PROVE  g[k] = IF objs[k].parent = 0 THEN -1
                      ELSE IF objs[k].parent = p THEN objs[k].off + Ptr ELSE g[objs[k].parent]
    <3>1. f[k] = Up(f, k)
      BY <1>2
    <3>2. objs[k].parent # 0 => objs[k].parent \in 1..N
      BY <1>t
    <3> HIDE DEF g
    <3> QED BY <2>1, <3>1, <3>2
  <2>3. DOMAIN g = 1..N /\ g = [k \in 1..N |-> g[k]]
    OBVIOUS
  <2> HIDE DEF g
  <2>4. G(g)
    BY <1>N, <2>2, <2>3
  <2> QED BY <2>4 DEF g
<1> DEFINE W == CHOOSE g : G(g)
<1>4. \A k : MinOffset(p, k) = W[k]
  BY DEF MinOffset
<1>5. G(W)
  <2> HIDE DEF G
  <2> QED BY <1>3
<1> HIDE DEF W
<1>6. W = [k \in 1..Len(objs) |-> IF objs[k].parent = 0 THEN -1
                                  ELSE IF objs[k].parent = p THEN objs[k].off + Ptr
                                  ELSE W[objs[k].parent]]
  BY <1>5
<1>7. W[i] = IF objs[i].parent = 0 THEN -1
             ELSE IF objs[i].parent = p THEN objs[i].off + Ptr ELSE W[objs[i].parent]
  BY <1>6
<1> QED BY <1>4, <1>7

\* Where the walk from an object of the path ends: at a child of p in the path, or nowhere.
LEMMA WalkOnPath ==
  ASSUME TypeOK, Tree, NEW P, Path(P), NEW p \in 1..Len(objs), NEW i \in P, MinOffset(p, i) >= 0
  PROVE  \E k \in P : objs[k].parent = p /\ MinOffset(p, i) = objs[k].off + Ptr
<1> DEFINE Good(n) == \E k \in P : objs[k].parent = p /\ MinOffset(p, n) = objs[k].off + Ptr
           Bad == {n \in P : MinOffset(p, n) >= 0 /\ ~Good(n)}
<1>1. SUFFICES ASSUME Bad # {} PROVE FALSE
  OBVIOUS
<1>2. P \subseteq 1..Len(objs) /\ \A k \in P : objs[k].parent # 0 => objs[k].parent \in P
  BY DEF Path
<1>3. PICK n \in Bad : \A m \in Bad : n <= m
  <2>1. Len(objs) \in Nat
    BY DEF TypeOK
  <2>2. P \subseteq Nat
    BY ONLY <1>2, <2>1
  <2>3. Bad \subseteq P
    OBVIOUS
  <2> HIDE DEF Bad
  <2>4. Bad \subseteq Nat
    BY ONLY <2>2, <2>3
  <2> QED BY ONLY <1>1, <2>4, Least
<1>4. n \in P /\ MinOffset(p, n) >= 0 /\ ~Good(n)
  OBVIOUS
<1>5. n \in 1..Len(objs)
  BY <1>2, <1>4
<1>6. MinOffset(p, n) = IF objs[n].parent = 0 THEN -1
                        ELSE IF objs[n].parent = p THEN objs[n].off + Ptr
                        ELSE MinOffset(p, objs[n].parent)
  BY <1>5, WalkIs
<1>7. objs[n].parent # 0
  <2>1. ~(-1 >= 0)
    OBVIOUS
  <2> QED BY <1>4, <1>6, <2>1
<1>8. objs[n].parent # p
  BY <1>4, <1>6, <1>7
<1>9. MinOffset(p, n) = MinOffset(p, objs[n].parent) /\ objs[n].parent \in P /\ objs[n].parent \in 1..(n - 1)
  BY <1>2, <1>4, <1>5, <1>6, <1>7, <1>8 DEF Tree
<1>10. objs[n].parent \in Bad
  BY <1>4, <1>9
<1>11. n <= objs[n].parent
  BY <1>3, <1>10
<1> HIDE DEF Bad
<1> QED BY <1>5, <1>9, <1>11

\* What binder_validate_fixup() allows: a buffer of the path, past its fixups.
LEMMA Allowed ==
  ASSUME TypeOK, Tree, last \in [off : Nat, min : Nat], NEW P, Path(P), NEW p \in 1..Len(objs), NEW off \in Nat,
         FixupAllowed(p, off)
  PROVE  p \in P /\ Below(p, off)
<1>1. CASE Index(last.off) = p
  <2>1. off >= last.min /\ last.min \in Nat
    BY <1>1 DEF FixupAllowed
  <2>2. Below(p, last.min) /\ p \in P
    BY <1>1 DEF Path
  <2> QED BY <2>1, <2>2, ObjNats DEF Below
<1>2. CASE Index(last.off) # p
  <2>1. MinOffset(p, Index(last.off)) >= 0 /\ off >= MinOffset(p, Index(last.off)) /\ Index(last.off) \in P
    BY <1>2 DEF FixupAllowed, Path
  <2>2. PICK k \in P : objs[k].parent = p /\ MinOffset(p, Index(last.off)) = objs[k].off + Ptr
    BY <2>1, WalkOnPath
  <2>3. p \in P /\ Below(p, objs[k].off + Ptr) /\ k \in 1..Len(objs)
    BY <2>2 DEF Path
  <2>4. objs[k].off \in Nat /\ Ptr \in Nat /\ objs[k].off + Ptr <= off
    BY <2>1, <2>2, <2>3, ObjNats, Sizes
  <2>5. ASSUME NEW j \in 1..Len(objs), objs[j].parent = p PROVE objs[j].off + Width(objs[j]) <= off
    <3>1. objs[j].off + Width(objs[j]) <= objs[k].off + Ptr
      BY <2>3, <2>5 DEF Below
    <3>2. objs[j].off \in Nat /\ Width(objs[j]) \in Nat
      BY ObjNats
    <3> QED BY <2>4, <3>1, <3>2
  <2> QED BY <2>3, <2>5 DEF Below
<1> QED BY <1>1, <1>2

\* An object after the others, fixed up past what was fixed up in its parent's buffer.
LEMMA Appended ==
  ASSUME TypeOK, Tree, Increasing, NEW o \in ObjType, objs' = Append(objs, o), sg \in Nat, sg' \in Nat, sg <= sg',
         o.type = "ptr" => o.at = sg /\ o.at + o.n <= sg',
         o.parent # 0 => /\ o.parent \in 1..Len(objs) /\ objs[o.parent].type = "ptr" /\ Below(o.parent, o.off)
                         /\ o.off + Width(o) <= objs[o.parent].n
  PROVE  Tree' /\ Increasing'
<1>N. PICK N \in Nat : N = Len(objs)
  BY DEF TypeOK
<1>1. /\ Len(objs') = N + 1 /\ objs'[N + 1] = o /\ (\A i \in 1..N : objs'[i] = objs[i])
      /\ (\A i \in 1..(N + 1) : i \in 1..N \/ i = N + 1)
  BY <1>N DEF TypeOK
<1>2. \A i \in 1..N : /\ objs[i].parent \in Nat /\ objs[i].off \in Nat /\ objs[i].n \in Nat /\ objs[i].at \in Nat
                      /\ Width(objs[i]) \in Nat
  BY <1>N, ObjNats
<1>3. o.parent \in Nat /\ o.off \in Nat /\ o.n \in Nat /\ o.at \in Nat /\ Width(o) \in Nat
  BY Sizes DEF ObjType, Width
<1>4. Tree'
  <2>1. ASSUME NEW k \in 1..(N + 1), objs'[k].parent # 0
        PROVE  /\ objs'[k].parent \in 1..(k - 1) /\ objs'[objs'[k].parent].type = "ptr"
               /\ objs'[k].off + Width(objs'[k]) <= objs'[objs'[k].parent].n
    <3>1. CASE k \in 1..N
      <4>1. objs'[k] = objs[k] /\ objs[k].parent \in 1..(k - 1) /\ objs[objs[k].parent].type = "ptr"
            /\ objs[k].off + Width(objs[k]) <= objs[objs[k].parent].n
        BY <1>N, <1>1, <2>1, <3>1 DEF Tree
      <4>2. objs[k].parent \in 1..N
        BY <3>1, <4>1
      <4> QED BY <1>1, <4>1, <4>2
    <3>2. CASE k = N + 1
      <4>1. o.parent \in 1..N /\ (N + 1) - 1 = N
        BY <1>N, <1>1, <2>1, <3>2
      <4> QED BY <1>1, <2>1, <3>2, <4>1
    <3> QED BY <1>1, <3>1, <3>2
  <2> QED BY <1>1, <2>1 DEF Tree, Width
<1>5. Increasing'
  <2>1. ASSUME NEW i \in 1..(N + 1), objs'[i].type = "ptr" PROVE objs'[i].at + objs'[i].n <= sg'
    <3>1. CASE i \in 1..N
      <4>1. objs[i].at + objs[i].n <= sg /\ objs'[i] = objs[i]
        BY <1>N, <1>1, <2>1, <3>1 DEF Increasing
      <4> QED BY <1>2, <3>1, <4>1
    <3>2. CASE i = N + 1
      BY <1>1, <2>1, <3>2
    <3> QED BY <1>1, <3>1, <3>2
  <2>2. ASSUME NEW i \in 1..(N + 1), NEW j \in 1..(N + 1), i < j
        PROVE  /\ objs'[i].type = "ptr" /\ objs'[j].type = "ptr" => objs'[i].at + objs'[i].n <= objs'[j].at
               /\ objs'[i].parent = objs'[j].parent /\ objs'[i].parent # 0 =>
                    objs'[i].off + Width(objs'[i]) <= objs'[j].off
    <3>0. i \in 1..N /\ objs'[i] = objs[i]
      BY <1>1, <2>2
    <3>1. CASE j \in 1..N
      BY <1>N, <1>1, <2>2, <3>0, <3>1 DEF Increasing
    <3>2. CASE j = N + 1
      <4>1. objs'[j] = o
        BY <1>1, <3>2
      <4>2. objs[i].type = "ptr" => objs[i].at + objs[i].n <= sg
        BY <1>N, <3>0 DEF Increasing
      <4>3. o.parent # 0 /\ objs[i].parent = o.parent => objs[i].off + Width(objs[i]) <= o.off
        BY <1>N, <3>0 DEF Below
      <4> QED BY <3>0, <4>1, <4>2, <4>3
    <3> QED BY <1>1, <3>1, <3>2
  <2> QED BY <1>1, <2>1, <2>2 DEF Increasing, Width
<1> QED BY <1>4, <1>5

\* The part of a path up to p, after another object: it may begin there, or with the new object.
LEMMA PathAppend ==
  ASSUME TypeOK, Tree, NEW P, Path(P), NEW o \in ObjType, objs' = Append(objs, o), NEW p \in P, o.parent = p, Below(p, o.off),
         NEW Q, Q = {k \in P : k <= p}
  PROVE  /\ Q \subseteq 1..Len(objs) /\ p \in Q /\ Below(p, o.off + Width(o))'
         /\ \A k \in Q : objs[k].parent # 0 => objs[k].parent \in Q /\ Below(objs[k].parent, objs[k].off + Ptr)'
<1>N. PICK N \in Nat : N = Len(objs)
  BY DEF TypeOK
<1>1. /\ Len(objs') = N + 1 /\ objs'[N + 1] = o /\ (\A i \in 1..N : objs'[i] = objs[i])
      /\ (\A i \in 1..(N + 1) : i \in 1..N \/ i = N + 1)
  BY <1>N DEF TypeOK
<1>2. P \subseteq 1..N /\ Q \subseteq 1..N /\ p \in 1..N
  BY <1>N DEF Path
<1>3. p \in Q
  BY <1>2
<1>4. o.off \in Nat /\ Width(o) \in Nat
  BY Sizes DEF ObjType, Width
<1>5. ASSUME NEW j \in 1..(N + 1), objs'[j].parent = p PROVE objs'[j].off + Width(objs'[j]) <= o.off + Width(o)
  <2>1. CASE j \in 1..N
    <3>1. objs[j].off + Width(objs[j]) <= o.off /\ objs'[j] = objs[j]
      BY <1>N, <1>1, <1>5, <2>1 DEF Below
    <3>2. objs[j].off \in Nat /\ Width(objs[j]) \in Nat
      BY <1>N, <2>1, ObjNats
    <3> QED BY <1>4, <3>1, <3>2
  <2>2. CASE j = N + 1
    BY <1>1, <1>4, <2>2
  <2> QED BY <1>1, <2>1, <2>2
<1>6. Below(p, o.off + Width(o))'
  <2>1. Below(p, o.off + Width(o))' <=> \A j \in 1..(N + 1) : objs'[j].parent = p => objs'[j].off + Width(objs'[j]) <= o.off + Width(o)
    BY <1>1 DEF Below, Width
  <2> QED BY <1>5, <2>1
<1>7. ASSUME NEW k \in Q, objs[k].parent # 0
      PROVE  objs[k].parent \in Q /\ Below(objs[k].parent, objs[k].off + Ptr)'
  <2>1. k \in 1..N /\ k \in P /\ k <= p
    BY <1>2
  <2>2. objs[k].parent \in 1..(k - 1) /\ objs[k].parent \in P /\ Below(objs[k].parent, objs[k].off + Ptr)
    BY <1>N, <1>7, <2>1 DEF Path, Tree
  <2>3. objs[k].parent \in Q /\ objs[k].parent # p
    BY <1>2, <2>1, <2>2
  <2>4. ASSUME NEW j \in 1..(N + 1), objs'[j].parent = objs[k].parent PROVE objs'[j].off + Width(objs'[j]) <= objs[k].off + Ptr
    <3>1. j \in 1..N
      BY <1>1, <2>3, <2>4
    <3> QED BY <1>N, <1>1, <2>2, <2>4, <3>1 DEF Below
  <2>5. objs'[k] = objs[k]
    BY <1>1, <2>1
  <2>6. Below(objs[k].parent, objs[k].off + Ptr)' <=>
          \A j \in 1..(N + 1) : objs'[j].parent = objs[k].parent => objs'[j].off + Width(objs'[j]) <= objs[k].off + Ptr
    BY <1>1, <2>5 DEF Below, Width
  <2> QED BY <2>3, <2>4, <2>6
<1> QED BY <1>N, <1>2, <1>3, <1>6, <1>7

\* At first there is nothing to fix up.
LEMMA InitFix == Init => FixInv
<1> SUFFICES ASSUME Init PROVE FixInv
  OBVIOUS
<1>1. Len(objs) = 0 /\ last = [off |-> 0, min |-> 0] /\ pc = "new"
  BY DEF Init, NoLast
<1>2. Tree /\ Increasing
  BY <1>1 DEF Tree, Increasing
<1> QED BY <1>1, <1>2 DEF FixInv

\* A step that leaves the objects and the last fixup alone.
LEMMA SameFix ==
  ASSUME FixInv, UNCHANGED <<first, objs, sg, last>>, pc' = "fda" => ArrayAllowed(fda.obj)'
  PROVE  FixInv'
<1>1. last' \in [off : Nat, min : Nat] /\ Tree' /\ Increasing'
  BY DEF FixInv, Tree, Increasing, Width
<1>2. ASSUME last'.off # 0 PROVE \E P : Path(P)'
  <2>1. PICK P : Path(P)
    BY <1>2 DEF FixInv
  <2>2. Path(P)'
    BY <2>1 DEF Path, Below, Index, Width
  <2> QED BY <2>2
<1> QED BY <1>1, <1>2 DEF FixInv

\* An object without a parent that is no buffer.
LEMMA LooseFix ==
  ASSUME TypeOK, FixInv, NEW o \in ObjType, o.type \notin {"ptr", "fda"}, o.parent = 0, objs' = Append(objs, o),
         UNCHANGED <<first, sg, last>>, pc' # "fda"
  PROVE  FixInv'
<1>N. PICK N \in Nat : N = Len(objs)
  BY DEF TypeOK
<1>1. /\ Len(objs') = N + 1 /\ objs'[N + 1] = o /\ (\A i \in 1..N : objs'[i] = objs[i])
      /\ (\A i \in 1..(N + 1) : i \in 1..N \/ i = N + 1)
  BY <1>N DEF TypeOK
<1>2. Tree' /\ Increasing'
  <2>1. Tree /\ Increasing /\ sg \in Nat /\ sg' = sg
    BY DEF FixInv, TypeOK
  <2> QED BY <2>1, Appended
<1>3. ASSUME last'.off # 0 PROVE \E P : Path(P)'
  <2>1. PICK P : Path(P)
    BY <1>3 DEF FixInv
  <2>2. P \subseteq 1..N /\ Index(last.off) \in P /\ Index(last.off)' = Index(last.off)
    BY <1>N, <2>1 DEF Path, Index
  <2>3. ASSUME NEW q \in 1..N, NEW b, Below(q, b)
        PROVE  \A j \in 1..(N + 1) : objs'[j].parent = q => objs'[j].off + Width(objs'[j]) <= b
    <3>1. \A j \in 1..N : objs[j].parent = q => objs[j].off + Width(objs[j]) <= b
      BY <1>N, <2>3 DEF Below
    <3>2. q # 0
      OBVIOUS
    <3> QED BY <1>1, <3>1, <3>2
  <2>4. Below(Index(last.off), last.min)'
    <3>1. Below(Index(last.off), last.min)
      BY <2>1 DEF Path
    <3>2. \A j \in 1..(N + 1) : objs'[j].parent = Index(last.off) => objs'[j].off + Width(objs'[j]) <= last.min
      BY <2>2, <2>3, <3>1
    <3> QED BY <1>1, <2>2, <3>2 DEF Below, Width
  <2>5. ASSUME NEW k \in P, objs'[k].parent # 0 PROVE objs'[k].parent \in P /\ Below(objs[k].parent, objs[k].off + Ptr)'
    <3>1. k \in 1..N /\ objs'[k] = objs[k]
      BY <1>1, <2>2
    <3>2. objs[k].parent \in P /\ Below(objs[k].parent, objs[k].off + Ptr)
      BY <2>1, <2>5, <3>1 DEF Path
    <3>3. \A j \in 1..(N + 1) : objs'[j].parent = objs[k].parent => objs'[j].off + Width(objs'[j]) <= objs[k].off + Ptr
      BY <2>2, <2>3, <3>2
    <3> QED BY <1>1, <3>1, <3>2, <3>3 DEF Below, Width
  <2>6. P \subseteq 1..Len(objs')
    BY <1>1, <2>2
  <2>7. Path(P)'
    BY <2>2, <2>4, <2>5, <2>6 DEF Path
  <2> QED BY <2>7
<1> QED BY <1>2, <1>3 DEF FixInv

\* A translated array lies past the fixups of its parent and becomes the last of them.
LEMMA EndFdaFix == ASSUME ObjInv, FixInv, EndFda PROVE FixInv'
<1>N. PICK N \in Nat : N = Len(objs)
  BY DEF ObjInv, TypeOK
<1>o. PICK o : o = fda.obj
  OBVIOUS
<1>0. /\ TypeOK /\ Tree /\ Increasing /\ sg \in Nat /\ last \in [off : Nat, min : Nat] /\ first \in {0, 1}
      /\ pc = "fda" /\ o \in ObjType /\ o.type = "fda"
  BY <1>o DEF ObjInv, FixInv, TypeOK, PlacesSound, EndFda
<1>1. /\ objs' = Append(objs, o) /\ last' = [off |-> Offset(o.parent), min |-> o.off + o.n]
      /\ pc' = "build" /\ first' = first /\ sg' = sg
  BY <1>o DEF EndFda
<1>2. /\ Len(objs') = N + 1 /\ (\A i \in 1..N : objs'[i] = objs[i])
  BY <1>0, <1>1, <1>N DEF TypeOK
<1>p. PICK p : p = o.parent
  OBVIOUS
<1>3. ValidParent(p) /\ FixupAllowed(p, o.off) /\ Fits(p, o.off, o.n)
  BY <1>0, <1>o, <1>p DEF FixInv, ArrayAllowed
<1>4. p \in 1..N /\ objs[p].type = "ptr" /\ last.off # 0
  BY <1>3, <1>N DEF ValidParent, FixupAllowed
<1>5. o.off \in Nat /\ o.n \in Nat /\ Width(o) = o.n
  BY <1>0 DEF ObjType, Width
<1>6. PICK P : Path(P)
  BY <1>4 DEF FixInv
<1>7. p \in P /\ Below(p, o.off)
  BY <1>0, <1>3, <1>4, <1>5, <1>6, <1>N, Allowed
<1>8. Tree' /\ Increasing'
  <2>1. o.off + o.n <= objs[p].n
    <3>1. objs[p].n \in Nat
      BY <1>0, <1>4, <1>N, ObjNats
    <3> QED BY <1>3, <1>5, <3>1 DEF Fits
  <2> QED BY <1>0, <1>1, <1>4, <1>5, <1>7, <1>N, <1>p, <2>1, Appended
<1>Q. PICK Q : Q = {k \in P : k <= p}
  OBVIOUS
<1>9. /\ Q \subseteq 1..N /\ p \in Q /\ Below(p, o.off + Width(o))'
      /\ \A k \in Q : objs[k].parent # 0 => objs[k].parent \in Q /\ Below(objs[k].parent, objs[k].off + Ptr)'
  BY <1>0, <1>1, <1>6, <1>7, <1>N, <1>p, <1>Q, PathAppend
<1>10. Index(last.off)' = p
  <2>1. last'.off = first + p - 1
    BY <1>1, <1>p DEF Offset
  <2> QED BY <1>0, <1>1, <1>4, <2>1 DEF Index
<1>11. Path(Q)'
  <2>1. Q \subseteq 1..Len(objs')
    BY <1>2, <1>9
  <2>2. last'.min = o.off + Width(o)
    BY <1>1, <1>5
  <2>3. Below(Index(last.off), last.min)'
    <3>1. Below(p, o.off + Width(o))' <=> \A j \in 1..Len(objs') : objs'[j].parent = p => objs'[j].off + Width(objs'[j]) <= o.off + Width(o)
      BY DEF Below, Width
    <3> QED BY <1>9, <1>10, <2>2, <3>1 DEF Below, Width
  <2>4. ASSUME NEW k \in Q, objs'[k].parent # 0 PROVE objs'[k].parent \in Q /\ Below(objs[k].parent, objs[k].off + Ptr)'
    <3>1. objs'[k] = objs[k]
      BY <1>2, <1>9
    <3> QED BY <1>9, <2>4, <3>1
  <2> QED BY <1>9, <1>10, <2>1, <2>3, <2>4 DEF Path
<1>12. last' \in [off : Nat, min : Nat]
  <2>1. first + p - 1 \in Nat
    BY <1>0, <1>4
  <2> QED BY <1>1, <1>5, <1>p, <2>1 DEF Offset
<1> QED BY <1>1, <1>8, <1>11, <1>12 DEF FixInv

\* Alignment adds to a size, if anything.
LEMMA AlignUp == ASSUME NEW n \in Nat PROVE AlignPtr(n) \in Nat /\ n <= AlignPtr(n)
<1> USE Sizes
<1>1. PICK q \in Int : q = (n + Ptr - 1) \div Ptr
  OBVIOUS
<1>2. Ptr * q <= n + Ptr - 1 /\ n + Ptr - 1 < Ptr * q + Ptr
  BY <1>1, Z3
<1>3. q * Ptr = Ptr * q /\ Ptr * q \in Int
  OBVIOUS
<1> QED BY <1>1, <1>2, <1>3 DEF AlignPtr

\* A buffer goes behind the others, its address past the fixups of its parent; the next fixups
\* may go into it.
LEMMA TranslatePtrFix == ASSUME ObjInv, FixInv, TranslatePtr PROVE FixInv'
<1>N. PICK N \in Nat : N = Len(objs)
  BY DEF ObjInv, TypeOK
<1>0. /\ TypeOK /\ Tree /\ Increasing /\ sg \in Nat /\ last \in [off : Nat, min : Nat] /\ first \in {0, 1}
  BY DEF ObjInv, FixInv, TypeOK
<1>1. PICK n \in Lens, p \in 0..Len(objs), off \in Offs :
        /\ ParentFixed(p, off) /\ objs' = Append(objs, Object("ptr", p, off, n, sg)) /\ sg' = sg + AlignPtr(n)
  BY DEF TranslatePtr
<1>2. /\ pc' = "build" /\ first' = first /\ last' = [off |-> first + (N + 1) - 1, min |-> 0]
  BY <1>N DEF TranslatePtr, MoreObjects, Offset, NextIndex
<1>o. PICK o : o = Object("ptr", p, off, n, sg)
  OBVIOUS
<1>3. /\ o \in ObjType /\ o.type = "ptr" /\ o.parent = p /\ o.off = off /\ o.n = n /\ o.at = sg /\ Width(o) = Ptr
      /\ n \in Nat /\ off \in Nat /\ p \in Nat
  <2>1. n \in Nat /\ off \in Nat /\ p \in Nat
    BY <1>N, Sizes
  <2> QED BY <1>0, <1>o, <2>1 DEF Object, ObjType, Width
<1>4. /\ objs' = Append(objs, o) /\ Len(objs') = N + 1 /\ objs'[N + 1] = o /\ (\A i \in 1..N : objs'[i] = objs[i])
      /\ (\A i \in 1..(N + 1) : i \in 1..N \/ i = N + 1)
  BY <1>0, <1>1, <1>o, <1>N DEF TypeOK
<1>5. sg' \in Nat /\ sg <= sg' /\ o.at + o.n <= sg'
  <2>1. AlignPtr(n) \in Nat /\ n <= AlignPtr(n)
    BY <1>3, AlignUp
  <2> QED BY <1>0, <1>1, <1>3, <2>1
<1>6. ASSUME p # 0 PROVE /\ p \in 1..N /\ objs[p].type = "ptr" /\ last.off # 0 /\ FixupAllowed(p, off)
                         /\ off + Ptr <= objs[p].n
  <2>1. ValidParent(p) /\ FixupAllowed(p, off) /\ Fits(p, off, Ptr)
    BY <1>1, <1>6 DEF ParentFixed
  <2>2. p \in 1..N /\ objs[p].type = "ptr" /\ last.off # 0
    BY <1>N, <2>1 DEF ValidParent, FixupAllowed
  <2>3. objs[p].n \in Nat
    BY <1>0, <1>N, <2>2, ObjNats
  <2> QED BY <1>3, <2>1, <2>2, <2>3, Sizes DEF Fits
<1>7. ASSUME p # 0 PROVE \E P : Path(P) /\ p \in P /\ Below(p, off)
  <2>1. PICK P : Path(P)
    BY <1>6, <1>7 DEF FixInv
  <2>2. p \in P /\ Below(p, off)
    BY <1>0, <1>3, <1>6, <1>7, <1>N, <2>1, Allowed
  <2> QED BY <2>1, <2>2
<1>8. Tree' /\ Increasing'
  <2>1. o.parent # 0 => /\ o.parent \in 1..Len(objs) /\ objs[o.parent].type = "ptr" /\ Below(o.parent, o.off)
                        /\ o.off + Width(o) <= objs[o.parent].n
    BY <1>3, <1>6, <1>7, <1>N
  <2> QED BY <1>0, <1>3, <1>4, <1>5, <2>1, Appended
<1>9. last' \in [off : Nat, min : Nat] /\ last'.min = 0 /\ Index(last.off)' = N + 1
  <2>1. first + (N + 1) - 1 \in Nat /\ first + (N + 1) - 1 - first + 1 = N + 1
    BY <1>0
  <2>2. last'.off = first + (N + 1) - 1 /\ last'.min = 0 /\ last' \in [off : Nat, min : Nat]
    BY <1>2, <2>1
  <2>3. Index(last.off)' = last'.off - first + 1
    BY <1>2 DEF Index
  <2>4. first \in Int
    BY <1>0
  <2>5. Index(last.off)' = N + 1
    BY ONLY N \in Nat, <2>2, <2>3, <2>4
  <2> QED BY <2>2, <2>5
<1>10. Below(Index(last.off), last.min)'
  <2>1. ASSUME NEW j \in 1..(N + 1) PROVE objs'[j].parent # N + 1
    <3>1. CASE j \in 1..N
      <4>1. objs[j].parent # 0 => objs[j].parent \in 1..(j - 1)
        BY <1>0, <1>N, <3>1 DEF Tree
      <4> QED BY <1>4, <3>1, <4>1
    <3>2. CASE j = N + 1
      BY <1>3, <1>4, <1>N, <3>2
    <3> QED BY <1>4, <3>1, <3>2
  <2> QED BY <1>4, <1>9, <2>1 DEF Below
<1>11. \E P : Path(P)'
  <2>1. CASE p = 0
    <3>1. {N + 1} \subseteq 1..Len(objs') /\ objs'[N + 1].parent = 0
      BY <1>3, <1>4, <2>1
    <3>2. Path({N + 1})'
      BY <1>9, <1>10, <3>1 DEF Path
    <3> QED BY <3>2
  <2>2. CASE p # 0
    <3>1. PICK P : Path(P) /\ p \in P /\ Below(p, off)
      BY <1>7, <2>2
    <3>Q. PICK Q : Q = {k \in P : k <= p}
      OBVIOUS
    <3>2. /\ Q \subseteq 1..N /\ p \in Q /\ Below(p, o.off + Width(o))'
          /\ \A k \in Q : objs[k].parent # 0 => objs[k].parent \in Q /\ Below(objs[k].parent, objs[k].off + Ptr)'
      BY <1>0, <1>3, <1>4, <1>N, <3>1, <3>Q, PathAppend
    <3>3. ASSUME NEW k \in Q \cup {N + 1}, objs'[k].parent # 0
          PROVE  objs'[k].parent \in Q \cup {N + 1} /\ Below(objs[k].parent, objs[k].off + Ptr)'
      <4>1. CASE k \in Q
        <5>1. objs'[k] = objs[k]
          BY <1>4, <3>2, <4>1
        <5> QED BY <3>2, <3>3, <4>1, <5>1
      <4>2. CASE k = N + 1
        <5>1. objs'[k] = o
          BY <1>4, <4>2
        <5>2. Below(p, o.off + Width(o))' <=> \A j \in 1..Len(objs') : objs'[j].parent = p => objs'[j].off + Width(objs'[j]) <= o.off + Width(o)
          BY DEF Below, Width
        <5>3. Below(objs[k].parent, objs[k].off + Ptr)' <=> \A j \in 1..Len(objs') : objs'[j].parent = p => objs'[j].off + Width(objs'[j]) <= off + Ptr
          BY <1>3, <5>1 DEF Below, Width
        <5> QED BY <1>3, <3>2, <5>1, <5>2, <5>3
      <4> QED BY <3>3, <4>1, <4>2
    <3>4. Q \cup {N + 1} \subseteq 1..Len(objs')
      BY <1>4, <3>2
    <3>5. Path(Q \cup {N + 1})'
      BY <1>9, <1>10, <3>3, <3>4 DEF Path
    <3> QED BY <3>5
  <2> QED BY <2>1, <2>2
<1> QED BY <1>2, <1>8, <1>9, <1>11 DEF FixInv

\* Every step keeps the fixups on the path.
LEMMA NextFix == ASSUME ObjInv, FixInv, [Next]_vars PROVE FixInv'
<1>0. TypeOK
  BY DEF ObjInv
<1>1. CASE TranslateFlat
  <2>1. PICK k \in FlatTypes : objs' = Append(objs, Object(k, 0, 0, 0, 0))
    <3>1. PICK type \in Flat : \E k \in Translated(type) : objs' = Append(objs, Object(k, 0, 0, 0, 0))
      BY <1>1 DEF TranslateFlat
    <3>2. Translated(type) \subseteq FlatTypes
      BY ObjectsAssumption DEF Translated, FlatTypes
    <3> QED BY <3>1, <3>2
  <2>2. Object(k, 0, 0, 0, 0) \in ObjType /\ Object(k, 0, 0, 0, 0).parent = 0 /\ Object(k, 0, 0, 0, 0).type \notin {"ptr", "fda"}
    BY DEF Object, ObjType, FlatTypes
  <2>3. UNCHANGED <<first, sg, last>> /\ pc' # "fda"
    BY <1>1 DEF TranslateFlat, MoreObjects
  <2> QED BY <1>0, <2>1, <2>2, <2>3, LooseFix
<1>2. CASE TranslateFd
  <2>1. objs' = Append(objs, Object("fd", 0, 0, 0, 0)) /\ UNCHANGED <<first, sg, last>> /\ pc' # "fda"
    BY <1>2 DEF TranslateFd, MoreObjects
  <2>2. Object("fd", 0, 0, 0, 0) \in ObjType /\ Object("fd", 0, 0, 0, 0).parent = 0 /\ Object("fd", 0, 0, 0, 0).type \notin {"ptr", "fda"}
    BY DEF Object, ObjType, FlatTypes
  <2> QED BY <1>0, <2>1, <2>2, LooseFix
<1>3. CASE BeginFda
  <2>1. UNCHANGED <<first, objs, sg, last>>
    BY <1>3 DEF BeginFda
  <2>2. PICK p \in 1..Len(objs), off \in Offs, n \in NumFds :
          /\ ValidParent(p) /\ FixupAllowed(p, off) /\ Fits(p, off, n)
          /\ fda' = [obj |-> Object("fda", p, off, n, objs[p].at + off), done |-> 0]
    BY <1>3 DEF BeginFda
  <2>3. fda'.obj.parent = p /\ fda'.obj.off = off /\ fda'.obj.n = n
    BY <2>2 DEF Object
  <2>o. PICK o : o = fda'.obj
    OBVIOUS
  <2>4. ArrayAllowed(o)
    BY <2>2, <2>3, <2>o DEF ArrayAllowed
  <2>5. ArrayAllowed(fda.obj)'
    BY <2>1, <2>4, <2>o DEF ArrayAllowed, ValidParent, FixupAllowed, Fits, MinOffset, Index
  <2> QED BY <2>1, <2>5, SameFix
<1>4. CASE TranslateFda
  <2>1. UNCHANGED <<first, objs, sg, last>> /\ fda'.obj = fda.obj /\ pc = "fda"
    BY <1>0, <1>4 DEF TranslateFda, TypeOK
  <2>2. ArrayAllowed(fda.obj)
    BY <2>1 DEF FixInv
  <2>3. ArrayAllowed(fda.obj)'
    BY <2>1, <2>2 DEF ArrayAllowed, ValidParent, FixupAllowed, Fits, MinOffset, Index
  <2> QED BY <2>1, <2>3, SameFix
<1>5. CASE EndFda
  BY <1>5, EndFdaFix
<1>6. CASE TranslatePtr
  BY <1>6, TranslatePtrFix
<1>7. CASE Copied \/ Fail \/ Queue \/ Read \/ ApplyFixup \/ ApplyFails \/ Delivered \/ FreeBuf \/ Die \/ UserClose
  <2>1. UNCHANGED <<first, objs, sg, last>> /\ pc' # "fda"
    BY <1>7 DEF Copied, Fail, Queue, Read, ApplyFixup, ApplyFails, Delivered, FreeBuf, Die, UserClose
  <2> QED BY <2>1, SameFix
<1>8. CASE UserOpen \/ UNCHANGED vars
  <2>1. UNCHANGED <<first, objs, sg, last, pc, fda>>
    BY <1>8 DEF UserOpen, vars
  <2>2. pc' = "fda" => ArrayAllowed(fda.obj)'
    BY <2>1 DEF FixInv, ArrayAllowed, ValidParent, FixupAllowed, Fits, MinOffset, Index
  <2> QED BY <2>1, <2>2, SameFix
<1> QED BY <1>1, <1>2, <1>3, <1>4, <1>5, <1>6, <1>7, <1>8 DEF Next

\* What the path and the order say of the bytes that are written.
LEMMA FixupsApart == ASSUME ObjInv, FixInv PROVE FixupsDisjoint
<1>0. TypeOK /\ PlacesSound /\ Tree /\ Increasing
  BY DEF ObjInv, FixInv
<1>N. PICK N \in Nat : N = Len(objs)
  BY <1>0 DEF TypeOK
<1>1. \A i \in 1..N : /\ objs[i].parent \in Nat /\ objs[i].off \in Nat /\ objs[i].n \in Nat /\ objs[i].at \in Nat
                      /\ Width(objs[i]) \in Nat
  BY <1>0, <1>N, ObjNats
<1>2. ASSUME NEW i \in 1..N, objs[i].type = "ptr" PROVE Area(i) \subseteq 0..(Extra - 1)
  <2>1. objs[i].at + objs[i].n <= Extra
    BY <1>0, <1>2, <1>N DEF PlacesSound, InArea
  <2> QED BY <1>1, <2>1, Sizes DEF Area
<1>3. ASSUME NEW i \in 1..N, NEW p, p = objs[i].parent, p # 0
      PROVE  /\ p \in 1..N /\ objs[p].type = "ptr" /\ objs[i].off + Width(objs[i]) <= objs[p].n
             /\ Written(i) = (objs[p].at + objs[i].off)..(objs[p].at + objs[i].off + Width(objs[i]) - 1)
             /\ Written(i) \subseteq Area(p)
  <2>1. p \in 1..(i - 1) /\ objs[p].type = "ptr" /\ objs[i].off + Width(objs[i]) <= objs[p].n
    BY <1>0, <1>3, <1>N DEF Tree
  <2>2. p \in 1..N
    BY <2>1
  <2>3. Written(i) = (objs[p].at + objs[i].off)..(objs[p].at + objs[i].off + Width(objs[i]) - 1)
    BY <1>3 DEF Written, Width
  <2>4. objs[p].at \in Nat /\ objs[p].n \in Nat /\ objs[i].off \in Nat /\ Width(objs[i]) \in Nat
    BY <1>1, <2>2
  <2>5. Written(i) \subseteq Area(p)
    <3>1. Area(p) = (objs[p].at)..(objs[p].at + objs[p].n - 1)
      BY DEF Area
    <3> QED BY <2>1, <2>3, <2>4, <3>1
  <2> QED BY <2>1, <2>2, <2>3, <2>5
<1>4. ASSUME NEW i \in 1..N PROVE objs[i].parent = 0 => Written(i) = {}
  BY DEF Written
<1>5. ASSUME NEW i \in 1..N, NEW j \in 1..N, i < j
      PROVE  /\ objs[i].type = "ptr" /\ objs[j].type = "ptr" => Area(i) \cap Area(j) = {}
             /\ objs[i].parent = objs[j].parent => Written(i) \cap Written(j) = {}
  <2>1. objs[i].type = "ptr" /\ objs[j].type = "ptr" => objs[i].at + objs[i].n <= objs[j].at
    BY <1>0, <1>5, <1>N DEF Increasing
  <2>2. objs[i].at \in Nat /\ objs[i].n \in Nat /\ objs[j].at \in Nat /\ objs[j].n \in Nat
    BY <1>1
  <2>3. objs[i].type = "ptr" /\ objs[j].type = "ptr" => Area(i) \cap Area(j) = {}
    BY <2>1, <2>2 DEF Area
  <2>4. ASSUME NEW p, p = objs[i].parent, p = objs[j].parent, p # 0 PROVE Written(i) \cap Written(j) = {}
    <3>1. objs[i].off + Width(objs[i]) <= objs[j].off
      BY <1>0, <1>5, <1>N, <2>4 DEF Increasing
    <3>2. /\ Written(i) = (objs[p].at + objs[i].off)..(objs[p].at + objs[i].off + Width(objs[i]) - 1)
          /\ Written(j) = (objs[p].at + objs[j].off)..(objs[p].at + objs[j].off + Width(objs[j]) - 1)
          /\ p \in 1..N
      BY <1>3, <2>4
    <3>3. objs[p].at \in Nat /\ objs[i].off \in Nat /\ Width(objs[i]) \in Nat /\ objs[j].off \in Nat /\ Width(objs[j]) \in Nat
      BY <1>1, <3>2
    <3> QED BY <3>1, <3>2, <3>3
  <2> QED BY <1>4, <2>3, <2>4
<1>6. ASSUME NEW i \in 1..N, NEW j \in 1..N, i # j
      PROVE  /\ objs[i].type = "ptr" /\ objs[j].type = "ptr" => Area(i) \cap Area(j) = {}
             /\ objs[i].parent = objs[j].parent => Written(i) \cap Written(j) = {}
  <2>1. i < j \/ j < i
    BY <1>6
  <2> QED BY <1>5, <2>1
<1>7. ASSUME NEW i \in 1..N, NEW j \in 1..N, objs[i].parent # objs[j].parent PROVE Written(i) \cap Written(j) = {}
  <2>1. CASE objs[i].parent # 0 /\ objs[j].parent # 0
    <3>1. /\ objs[i].parent \in 1..N /\ objs[objs[i].parent].type = "ptr" /\ Written(i) \subseteq Area(objs[i].parent)
          /\ objs[j].parent \in 1..N /\ objs[objs[j].parent].type = "ptr" /\ Written(j) \subseteq Area(objs[j].parent)
      BY <1>3, <2>1
    <3>2. Area(objs[i].parent) \cap Area(objs[j].parent) = {}
      BY <1>6, <1>7, <3>1
    <3> QED BY <3>1, <3>2
  <2> QED BY <1>4, <2>1
<1>8. ASSUME NEW i \in 1..N, Written(i) # {} PROVE Written(i) \subseteq Area(objs[i].parent)
  BY <1>3, <1>4, <1>8
<1> QED BY <1>2, <1>6, <1>7, <1>8, <1>N DEF FixupsDisjoint

\* The inductive invariant of fixups, for any trees of objects: binder_validate_fixup() lets a
\* fixup through only on the path from the last one to its root, past the fixups there.
THEOREM FixInvariant == Spec => []FixInv
<1>1. Init => FixInv
  BY InitFix
<1>2. ObjInv /\ FixInv /\ [Next]_vars => FixInv'
  BY NextFix
<1> QED BY <1>1, <1>2, ObjInvariant, PTL DEF Spec

\* FixupsDisjoint of BinderObjects: pointers (binder_fixup_parent()) and fds
\* (binder_translate_fd_array()) are written inside the parent's buffer and over nothing else.
THEOREM FixupsAlwaysDisjoint == Spec => []FixupsDisjoint
BY FixInvariant, ObjInvariant, FixupsApart, PTL
=============================================================================
