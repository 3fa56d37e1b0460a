------------------------- MODULE BinderAllocProofs --------------------------
(***************************************************************************)
(* For any mapping, page and word size, and for any requests, transactions *)
(* and freers: the buffers tile the mapping and both trees agree with      *)
(* them, a page is held exactly while an allocated buffer has a byte in    *)
(* it, no assertion of the allocator fails, each buffer has one holder     *)
(* that will free it, and the budget of asynchronous space adds up.  The   *)
(* layout is first studied on sets: S the start addresses, F the free ones *)
(* of them, L the end of the mapping.                                      *)
(***************************************************************************)
EXTENDS BinderAlloc, FiniteSetTheorems, SequenceTheorems, WellFoundedInduction, TLAPS

\* The end of the buffer at a, and what makes it that.
End(S, L, a) == Min({b \in S : b > a} \cup {L})
NextIs(S, L, a, e) == e \in S \cup {L} /\ a < e /\ \A b \in S : b > a => e <= b

\* No two neighbours are free.
Tiling(S, F, L) ==
  /\ L \in Nat /\ S \subseteq 0 .. L - 1 /\ F \subseteq S
  /\ S # {} => 0 \in S
  /\ \A a \in F : End(S, L, a) \notin F

\* The tree in order, as its insertions and removals keep it.
Ordered(tree, S, L) ==
  \A i, j \in DOMAIN tree : i < j => End(S, L, tree[i]) - tree[i] <= End(S, L, tree[j]) - tree[j]
TreeOf(tree, S, F, L) ==
  tree \in Seq(Addr) /\ Range(tree) = F /\ IsInjective(tree) /\ Ordered(tree, S, L)

\* The pages the buffer at b has a byte in.
Touches(S, L, b, p) == PageOf(b) <= p /\ p <= PageOf(End(S, L, b) - 1)

\* An allocated buffer has the size that was asked for; a free one has nothing to tell.
SizeExact(a) ==
  /\ buffers[a].req \in Requests /\ SizeValid(buffers[a].req)
  /\ End(Starts, buffer_size, a) - a = PaddedSize(buffers[a].req)

HeapType ==
  /\ buffer_size \in {0, Length}
  /\ Starts \subseteq Addr /\ \A a \in Starts : buffers[a] \in BufferRecord
  /\ free_buffers \in Seq(Addr) /\ allocated_buffers \subseteq Addr
  /\ pages \in [Page -> {NoPage, Active, OnLru}]
  /\ free_async_space \in 0 .. SizeT - 1

LayoutInv ==
  /\ HeapType /\ (buffer_size = 0 => Starts = {})
  /\ Tiling(Starts, FreeIn(Starts), buffer_size)
  /\ TreeOf(free_buffers, Starts, FreeIn(Starts), buffer_size)
  /\ allocated_buffers = Starts \ FreeIn(Starts)
  /\ \A p \in Page : pages[p] = Active <=> \E a \in allocated_buffers : Touches(Starts, buffer_size, a, p)
  /\ \A a \in allocated_buffers : SizeExact(a)
  /\ \A a \in FreeIn(Starts) : buffers[a] = FreeBuffer

\* The search has found a for a request of n bytes: an exact fit, or the next larger one.
FitsIn(tree, S, F, L, a, n) ==
  /\ a \in F /\ n <= End(S, L, a) - a
  /\ \/ n = End(S, L, a) - a
     \/ \E k \in DOMAIN tree :
          /\ tree[k] = a
          /\ k > 1 => End(S, L, tree[k - 1]) - tree[k - 1] < n
Fits(a, n) == FitsIn(free_buffers, Starts, FreeIn(Starts), buffer_size, a, n)

\* Who has the buffer of a transaction, at each place of it.
TxnOk(t) ==
  LET a == tbuf[t] IN
  /\ tpc[t] = "idle" => a = None
  /\ tpc[t] = "find" => /\ mutex = t /\ treq[t] \in Requests /\ SizeValid(treq[t])
                        /\ Fits(a, PaddedSize(treq[t]))
  /\ tpc[t] \in {"alloc", "failed", "queued"} =>
       a \in allocated_buffers /\ ~buffers[a].allow_user_free /\ \A u \in Freers : ubuf[u] # a
  /\ tpc[t] \in {"alloc", "failed"} => buffers[a].transaction = None
  /\ tpc[t] = "alloc" => buffers[a].req = treq[t]
  /\ tpc[t] = "queued" => buffers[a].transaction = t
  /\ tpc[t] = "delivered" /\ a # None =>
       /\ a \in allocated_buffers /\ buffers[a].transaction = t
       /\ buffers[a].allow_user_free \/ \E u \in Freers : ubuf[u] = a
  /\ a # None => \A s \in Txns \ {t} : tbuf[s] # a

FreerOk(u) ==
  LET a == ubuf[u] IN
  /\ upc[u] = "idle" <=> a = None
  /\ a # None => /\ a \in allocated_buffers /\ ~buffers[a].allow_user_free
                 /\ upc[u] = "detached" => buffers[a].transaction = None
                 /\ \A v \in Freers \ {u} : ubuf[v] # a

\* A buffer knows the transaction it was sent with, and is in somebody's hands.
BufferOk(a) ==
  /\ buffers[a].transaction # None =>
       /\ tbuf[buffers[a].transaction] = a
       /\ tpc[buffers[a].transaction] \in {"queued", "delivered"}
  /\ life = "open" /\ a \notin stuck => \/ buffers[a].allow_user_free
                                        \/ \E t \in Txns : tbuf[t] = a
                                        \/ \E u \in Freers : ubuf[u] = a

\* What a dead process has left.
LifeOk ==
  /\ mutex # None => tpc[mutex] = "find"
  /\ life # "open" => ~vma /\ \A u \in Freers : upc[u] = "idle"
  /\ life \in {"releasing", "gone"} => \A t \in Txns : tpc[t] = "idle"

OwnerType ==
  /\ vma \in BOOLEAN /\ mm \in BOOLEAN /\ mutex \in Txns \cup {None}
  /\ tpc \in [Txns -> {"idle", "find", "alloc", "failed", "queued", "delivered"}]
  /\ treq \in [Txns -> Requests \cup {NoRequest}] /\ tbuf \in [Txns -> Addr \cup {None}]
  /\ upc \in [Freers -> {"idle", "prepared", "detached"}] /\ ubuf \in [Freers -> Addr \cup {None}]
  /\ life \in {"open", "dead", "releasing", "gone"}

OwnersInv ==
  /\ OwnerType
  /\ \A t \in Txns : TxnOk(t)
  /\ \A u \in Freers : FreerOk(u)
  /\ \A a \in allocated_buffers : BufferOk(a)
  /\ LifeOk

AllocInv == LayoutInv /\ OwnersInv /\ failed = {}

-----------------------------------------------------------------------------
(* Neighbours in the list.                                                 *)

\* A set of natural numbers has a least member.
LEMMA LeastIs ==
  ASSUME NEW S, S \subseteq Nat, S # {}
  PROVE  \E n \in S : \A k \in S : n <= k
<1> DEFINE R == OpToRel(<, Nat)
<1>1. IsWellFoundedOn(R, Nat)
  BY NatLessThanWellFounded
<1>2. \A i, j \in Nat : i < j => <<i, j>> \in R
  BY DEF OpToRel
<1> HIDE DEF R
<1>3. PICK n \in S : \A k \in S : ~(<<k, n>> \in R)
  BY <1>1, WFMin
<1>4. \A k \in S : ~(k < n)
  BY <1>2, <1>3, Zenon
<1> QED BY <1>4

\* Min of such a set is a member of it, and the least one.
LEMMA MinIs ==
  ASSUME NEW S, S \subseteq Nat, S # {}
  PROVE  Min(S) \in S /\ \A k \in S : Min(S) <= k
<1>1. \E n \in S : \A k \in S : n <= k
  BY LeastIs
<1> QED BY <1>1 DEF Min

\* A bounded set of natural numbers has a Max.
LEMMA MaxIs ==
  ASSUME NEW S, NEW m \in Nat, S \subseteq 0 .. m, S # {}
  PROVE  Max(S) \in S /\ \A k \in S : k <= Max(S)
<1> DEFINE T == {m - k : k \in S}
<1>0. \A k \in S : k \in Nat /\ m - k \in Nat
  OBVIOUS
<1>1. T \subseteq Nat /\ T # {}
  <2>1. PICK k : k \in S
    OBVIOUS
  <2>2. m - k \in T
    BY <2>1
  <2> QED BY <1>0, <2>2
<1>2. PICK n \in T : \A k \in T : n <= k
  BY <1>1, LeastIs
<1>3. PICK x \in S : n = m - x
  BY <1>2
<1>4. \A k \in S : x >= k
  <2> TAKE k \in S
  <2>1. m - k \in T
    OBVIOUS
  <2>2. m - x <= m - k
    BY <1>2, <1>3, <2>1
  <2> QED BY <2>2
<1> QED BY <1>4 DEF Max

\* The end of a buffer is where the next one begins, or the end of the mapping.
LEMMA EndIs ==
  ASSUME NEW L \in Nat, NEW S, S \subseteq 0 .. L - 1, NEW a \in 0 .. L - 1
  PROVE  NextIs(S, L, a, End(S, L, a)) /\ End(S, L, a) \in a + 1 .. L
<1> DEFINE B == {b \in S : b > a} \cup {L}
<1>0. \A b \in S : b \in Nat /\ b < L
  OBVIOUS
<1>1. B \subseteq Nat /\ B # {} /\ \A b \in B : a < b /\ b <= L
  <2>1. L \in B
    OBVIOUS
  <2>2. \A b \in B : b \in Nat /\ a < b /\ b <= L
    BY <1>0
  <2> QED BY <2>1, <2>2
<1>2. Min(B) \in B /\ \A k \in B : Min(B) <= k
  BY <1>1, MinIs
<1> QED BY <1>1, <1>2 DEF End, NextIs

\* There is only one such place.
LEMMA EndFrom ==
  ASSUME NEW L \in Nat, NEW S, S \subseteq 0 .. L - 1, NEW a \in 0 .. L - 1, NEW e, NextIs(S, L, a, e)
  PROVE  End(S, L, a) = e
<1>1. NextIs(S, L, a, End(S, L, a)) /\ End(S, L, a) \in a + 1 .. L
  BY EndIs
<1>2. e \in Int
  BY DEF NextIs
<1>3. e <= End(S, L, a) /\ End(S, L, a) <= e
  BY <1>1, <1>2 DEF NextIs
<1> QED BY <1>1, <1>2, <1>3

\* The buffer before a is the last one that starts before it.
LEMMA PrevIs ==
  ASSUME NEW L \in Nat, NEW S, S \subseteq 0 .. L - 1, NEW a \in 0 .. L, NEW c \in S, c < a
  PROVE  /\ PrevOf(S, a) \in S /\ PrevOf(S, a) < a
         /\ \A b \in S : b < a => b <= PrevOf(S, a)
<1> DEFINE B == {b \in S : b < a}
<1>0. \A b \in S : b \in 0 .. L
  OBVIOUS
<1>1. B \subseteq 0 .. L /\ B # {}
  <2>1. c \in B
    OBVIOUS
  <2> QED BY <1>0, <2>1
<1>2. Max(B) \in B /\ \A k \in B : k <= Max(B)
  BY <1>1, MaxIs
<1> QED BY <1>2 DEF PrevOf

\* It ends at a, if a is a buffer or the end of the mapping.
LEMMA PrevEnds ==
  ASSUME NEW L \in Nat, NEW S, S \subseteq 0 .. L - 1, NEW a \in S \cup {L}, NEW c \in S, c < a
  PROVE  End(S, L, PrevOf(S, a)) = a
<1>1. /\ PrevOf(S, a) \in S /\ PrevOf(S, a) < a
      /\ \A b \in S : b < a => b <= PrevOf(S, a)
  <2>1. a \in 0 .. L
    OBVIOUS
  <2> QED BY <2>1, PrevIs
<1>2. PICK p \in S : p = PrevOf(S, a) /\ p < a /\ \A b \in S : b < a => b <= p
  BY <1>1
<1>3. NextIs(S, L, p, a)
  <2>1. \A b \in S : b \in Int
    OBVIOUS
  <2>2. a \in Int
    OBVIOUS
  <2> QED BY <1>2, <2>1, <2>2 DEF NextIs
<1> QED BY <1>2, <1>3, EndFrom

\* A buffer that ends at a is the one before a.
LEMMA PrevFrom ==
  ASSUME NEW L \in Nat, NEW S, S \subseteq 0 .. L - 1, NEW a \in S
  PROVE  PrevOf(S, End(S, L, a)) = a
<1> DEFINE n == End(S, L, a)
<1>0. a \in 0 .. L - 1
  OBVIOUS
<1>1. NextIs(S, L, a, n) /\ n \in 0 .. L /\ a < n
  <2>1. NextIs(S, L, a, End(S, L, a)) /\ End(S, L, a) \in a + 1 .. L
    BY <1>0, EndIs
  <2> QED BY <1>0, <2>1
<1> HIDE DEF n
<1>2. PICK p \in S : p = PrevOf(S, n) /\ p < n /\ \A b \in S : b < n => b <= p
  BY <1>1, PrevIs
<1>3. p \in Int /\ a \in Int /\ n \in Int
  BY <1>1
<1>4. a <= p /\ ~(p > a)
  BY <1>1, <1>2, <1>3 DEF NextIs
<1> QED BY <1>2, <1>3, <1>4 DEF n

\* Buffers do not overlap: one that starts before a ends by then.
LEMMA EndsBefore ==
  ASSUME NEW L \in Nat, NEW S, S \subseteq 0 .. L - 1, NEW a \in S, NEW b \in S, b < a
  PROVE  End(S, L, b) <= a
BY EndIs DEF NextIs

-----------------------------------------------------------------------------
(* Pages.                                                                  *)

\* What the proofs need of the division by PAGE_SIZE.
LEMMA PageFacts ==
  ASSUME NEW x \in Int
  PROVE  /\ PageOf(x) \in Int /\ PageUp(x) = PageOf(x - 1) + 1
         /\ x % PageSize = 0 => PageOf(x) = PageOf(x - 1) + 1
         /\ x % PageSize # 0 => PageOf(x) = PageOf(x - 1)
BY AllocAssumption DEF PageOf, PageUp

\* Higher addresses are in higher pages.
LEMMA PageMono ==
  ASSUME NEW x \in Int, NEW y \in Int, x <= y
  PROVE  PageOf(x) <= PageOf(y)
BY AllocAssumption DEF PageOf

\* The two ends of the mapping.
LEMMA PageEnds ==
  /\ Length \in Nat \ {0} /\ PageOf(Length) = NPages /\ PageOf(Length - 1) = NPages - 1
  /\ PageOf(0) = 0 /\ PageOf(-1) = -1
<1>1. Length \in Nat \ {0}
  BY AllocAssumption DEF Length
<1>2. PageOf(Length) = NPages /\ Length % PageSize = 0
  BY AllocAssumption DEF PageOf, Length
<1>3. PageOf(Length - 1) = NPages - 1
  BY <1>1, <1>2, PageFacts, AllocAssumption
<1>4. PageOf(0) = 0 /\ PageOf(-1) = -1
  BY AllocAssumption DEF PageOf
<1> QED BY <1>1, <1>2, <1>3, <1>4

-----------------------------------------------------------------------------
(* The list when the buffer at a is freed: it takes in a free buffer       *)
(* behind it, and a free one before it takes it in.                        *)

LessNext(S, F, L, a) == IF End(S, L, a) \in F THEN S \ {End(S, L, a)} ELSE S
NewEnd(S, F, L, a) == IF End(S, L, a) \in F THEN End(S, L, End(S, L, a)) ELSE End(S, L, a)
WithPrev(S, F, a) == \E b \in F : b < a /\ b = PrevOf(S, a)
Kept(S, F, a) == IF WithPrev(S, F, a) THEN PrevOf(S, a) ELSE a
Joined(S, F, L, a) == IF WithPrev(S, F, a) THEN LessNext(S, F, L, a) \ {a} ELSE LessNext(S, F, L, a)

\* What a tiling says of its members, for the provers.
LEMMA TilingFacts ==
  ASSUME NEW S, NEW F, NEW L, Tiling(S, F, L)
  PROVE  /\ L \in Nat /\ S \subseteq 0 .. L - 1 /\ \A b \in S : b \in 0 .. L - 1 /\ b \in Int
         /\ \A b \in S : NextIs(S, L, b, End(S, L, b)) /\ End(S, L, b) \in Int /\ b < End(S, L, b) /\ End(S, L, b) <= L
         /\ \A b \in S : End(S, L, b) # L => End(S, L, b) \in S
<1>1. L \in Nat /\ S \subseteq 0 .. L - 1 /\ \A b \in S : b \in 0 .. L - 1
  BY DEF Tiling
<1>2. ASSUME NEW b \in S
      PROVE  /\ NextIs(S, L, b, End(S, L, b)) /\ End(S, L, b) \in Int /\ b < End(S, L, b) /\ End(S, L, b) <= L
             /\ End(S, L, b) # L => End(S, L, b) \in S
  <2>1. NextIs(S, L, b, End(S, L, b)) /\ End(S, L, b) \in b + 1 .. L
    BY <1>1, EndIs
  <2>2. b \in Int
    BY <1>1
  <2> QED BY <1>1, <2>1, <2>2 DEF NextIs
<1> QED BY <1>1, <1>2

\* The buffer behind a is taken in: a gets its end, and nobody else's end moves.
LEMMA LessNextFacts ==
  ASSUME NEW S, NEW F, NEW L, Tiling(S, F, L), NEW a \in S, a \notin F, NEW T, T = LessNext(S, F, L, a)
  PROVE  /\ T \subseteq S /\ a \in T /\ 0 \in T /\ (S \ F) \subseteq T
         /\ \A b \in T : b # a => End(T, L, b) = End(S, L, b)
         /\ End(T, L, a) = NewEnd(S, F, L, a) /\ NewEnd(S, F, L, a) \notin F
         /\ NewEnd(S, F, L, a) \in (S \ {a}) \cup {L} /\ a < NewEnd(S, F, L, a)
         /\ \A b \in S \ F : b > a => NewEnd(S, F, L, a) <= b
<1>0. /\ L \in Nat /\ S \subseteq 0 .. L - 1 /\ \A b \in S : b \in 0 .. L - 1 /\ b \in Int
      /\ \A b \in S : NextIs(S, L, b, End(S, L, b)) /\ End(S, L, b) \in Int /\ b < End(S, L, b) /\ End(S, L, b) <= L
      /\ \A b \in S : End(S, L, b) # L => End(S, L, b) \in S
  BY TilingFacts
<1>1. 0 \in S /\ L \notin S /\ F \subseteq S /\ \A b \in F : End(S, L, b) \notin F
  BY DEF Tiling
<1>2. PICK n \in Int : n = End(S, L, a) /\ a < n /\ n \in S \cup {L} /\ n <= L /\ \A b \in S : b > a => n <= b
  BY <1>0 DEF NextIs
<1>3. CASE n \notin F
  <2>1. T = S /\ NewEnd(S, F, L, a) = n
    BY <1>2, <1>3 DEF LessNext, NewEnd
  <2> QED BY <1>0, <1>1, <1>2, <1>3, <2>1
<1>4. CASE n \in F
  <2>1. T = S \ {n} /\ NewEnd(S, F, L, a) = End(S, L, n) /\ n \in S
    BY <1>1, <1>2, <1>4 DEF LessNext, NewEnd
  <2>2. PICK m \in Int : m = End(S, L, n) /\ n < m /\ m \in S \cup {L} /\ m <= L /\ \A b \in S : b > n => m <= b
    BY <1>0, <2>1 DEF NextIs
  <2>3. m \notin F
    BY <1>1, <1>4, <2>2
  <2>4. T \subseteq 0 .. L - 1 /\ T \subseteq S /\ a \in T /\ 0 \in T
    <3>1. a \in Int /\ 0 <= a
      BY <1>0
    <3>2. n # a /\ n # 0
      BY <1>2, <3>1
    <3> QED BY <1>0, <1>1, <2>1, <3>2
  <2>5. End(T, L, a) = m
    <3>1. NextIs(T, L, a, m)
      BY <1>0, <1>2, <2>1, <2>2 DEF NextIs
    <3> QED BY <1>0, <2>4, <3>1, EndFrom
  <2>6. ASSUME NEW b \in T, b # a PROVE End(T, L, b) = End(S, L, b)
    <3>1. PICK e \in Int : e = End(S, L, b) /\ b < e /\ e \in S \cup {L} /\ \A c \in S : c > b => e <= c
      BY <1>0, <2>1 DEF NextIs
    <3>2. e # n
      BY <1>0, <1>2, <2>1, <2>6, <3>1
    <3>3. NextIs(T, L, b, e)
      BY <2>1, <3>1, <3>2 DEF NextIs
    <3> QED BY <1>0, <2>4, <3>1, <3>3, EndFrom
  <2>7. \A b \in S \ F : b > a => m <= b
    BY <1>0, <1>2, <1>4, <2>2
  <2>8. (S \ F) \subseteq T /\ m \in (S \ {a}) \cup {L} /\ a < m
    BY <1>0, <1>2, <1>4, <2>1, <2>2
  <2> QED BY <2>1, <2>2, <2>3, <2>4, <2>5, <2>6, <2>7, <2>8
<1> QED BY <1>3, <1>4

\* The free buffer before a.
LEMMA PrevFacts ==
  ASSUME NEW S, NEW F, NEW L, Tiling(S, F, L), NEW a \in S, a # 0
  PROVE  /\ PrevOf(S, a) \in S /\ PrevOf(S, a) < a /\ End(S, L, PrevOf(S, a)) = a
         /\ \A b \in S : b < a => b <= PrevOf(S, a)
         /\ WithPrev(S, F, a) <=> PrevOf(S, a) \in F
<1>0. L \in Nat /\ S \subseteq 0 .. L - 1 /\ \A b \in S : b \in 0 .. L - 1 /\ b \in Int
  BY TilingFacts
<1>1. 0 \in S /\ 0 < a /\ a \in 0 .. L /\ a \in S \cup {L}
  BY <1>0 DEF Tiling
<1>2. /\ PrevOf(S, a) \in S /\ PrevOf(S, a) < a
      /\ \A b \in S : b < a => b <= PrevOf(S, a)
  BY <1>0, <1>1, PrevIs
<1>3. End(S, L, PrevOf(S, a)) = a
  BY <1>0, <1>1, PrevEnds
<1> QED BY <1>2, <1>3 DEF WithPrev

JoinedOk(S, F, L, a, T, k) ==
  /\ T \subseteq S /\ k \in T /\ k \in F \cup {a} /\ (S \ F) \ {a} \subseteq T
  /\ \A b \in T : b # k => b # a /\ End(T, L, b) = End(S, L, b)
  /\ End(T, L, k) = NewEnd(S, F, L, a)
  /\ T \ ((T \cap F) \cup {k}) = (S \ F) \ {a}
  /\ Tiling(T, (T \cap F) \cup {k}, L)

\* After a free the buffers tile the mapping again: only a has gone from the allocated ones,
\* no end has moved but that of the buffer that is kept.
LEMMA JoinedFacts ==
  ASSUME NEW S, NEW F, NEW L, Tiling(S, F, L), NEW a \in S, a \notin F,
         NEW T, T = Joined(S, F, L, a), NEW k, k = Kept(S, F, a)
  PROVE  JoinedOk(S, F, L, a, T, k)
<1>0. /\ L \in Nat /\ S \subseteq 0 .. L - 1 /\ \A b \in S : b \in 0 .. L - 1 /\ b \in Int
      /\ \A b \in S : NextIs(S, L, b, End(S, L, b)) /\ End(S, L, b) \in Int /\ b < End(S, L, b) /\ End(S, L, b) <= L
  BY TilingFacts
<1>1. 0 \in S /\ L \notin S /\ F \subseteq S /\ \A b \in F : End(S, L, b) \notin F
  BY DEF Tiling
<1>2. PICK U, e : U = LessNext(S, F, L, a) /\ e = NewEnd(S, F, L, a)
  OBVIOUS
<1>3. /\ U \subseteq S /\ a \in U /\ 0 \in U /\ (S \ F) \subseteq U
      /\ \A b \in U : b # a => End(U, L, b) = End(S, L, b)
      /\ End(U, L, a) = e /\ e \notin F
      /\ e \in (S \ {a}) \cup {L} /\ a < e
  BY <1>2, LessNextFacts
<1>4. CASE ~WithPrev(S, F, a)
  <2>1. T = U /\ k = a
    BY <1>2, <1>4 DEF Joined, Kept
  <2>2. ASSUME NEW b \in (T \cap F) \cup {k} PROVE End(T, L, b) \notin (T \cap F) \cup {k}
    <3>1. CASE b = a
      <4>1. e # a
        BY <1>1, <1>3
      <4> QED BY <1>3, <2>1, <3>1, <4>1
    <3>2. CASE b # a
      <4>1. b \in F /\ b \in S /\ End(T, L, b) = End(S, L, b) /\ End(S, L, b) \notin F
        BY <1>1, <1>3, <2>1, <2>2, <3>2
      <4>2. End(S, L, b) # a
        <5>1. SUFFICES ASSUME End(S, L, b) = a PROVE FALSE
          OBVIOUS
        <5>2. b < a /\ a # 0 /\ PrevOf(S, a) = b
          <6>1. PrevOf(S, a) = b
            <7>1. PrevOf(S, End(S, L, b)) = b
              BY <1>0, <4>1, PrevFrom
            <7> QED BY <5>1, <7>1
          <6> QED BY <1>0, <4>1, <5>1, <6>1
        <5> QED BY <1>4, <4>1, <5>2 DEF WithPrev
      <4> QED BY <2>1, <4>1, <4>2
    <3> QED BY <3>1, <3>2
  <2>3. Tiling(T, (T \cap F) \cup {k}, L)
    BY <1>0, <1>3, <2>1, <2>2 DEF Tiling
  <2> QED BY <1>2, <1>3, <2>1, <2>3 DEF JoinedOk
<1>5. CASE WithPrev(S, F, a)
  <2>1. PICK q \in F : q < a /\ q = PrevOf(S, a)
    BY <1>5 DEF WithPrev
  <2>2. T = U \ {a} /\ k = q /\ q \in S /\ a # 0
    BY <1>0, <1>1, <1>2, <1>5, <2>1 DEF Joined, Kept
  <2>3. End(S, L, q) = a /\ \A b \in S : b < a => b <= q
    BY <2>1, <2>2, PrevFacts
  <2>4. q \in U /\ q # a
    <3>1. CASE End(S, L, a) \in F
      <4>1. a < End(S, L, a) /\ End(S, L, a) \in Int /\ a \in Int /\ q \in Int
        BY <1>0, <2>2
      <4> QED BY <1>2, <2>1, <2>2, <3>1, <4>1 DEF LessNext
    <3>2. CASE End(S, L, a) \notin F
      BY <1>0, <1>2, <2>1, <2>2, <3>2 DEF LessNext
    <3> QED BY <3>1, <3>2
  <2>5. T \subseteq S /\ T \subseteq 0 .. L - 1 /\ q \in T /\ 0 \in T /\ (S \ F) \ {a} \subseteq T /\ U \subseteq 0 .. L - 1
    BY <1>0, <1>3, <2>2, <2>4
  <2>6. End(T, L, q) = e
    <3>1. /\ \A b \in U : b \in Int /\ b \in S
          /\ e \in U \cup {L} /\ \A b \in U : b > a => e <= b
      <4>1. NextIs(U, L, a, e)
        BY <1>0, <1>3, <2>5, EndIs
      <4> QED BY <1>0, <1>3, <4>1 DEF NextIs
    <3>2. e \in Int /\ a \in Int /\ q \in Int
      BY <1>0, <1>3, <2>2
    <3>3. NextIs(T, L, q, e)
      BY <1>3, <2>1, <2>2, <2>3, <3>1, <3>2 DEF NextIs
    <3> QED BY <1>0, <2>2, <2>5, <3>3, EndFrom
  <2>7. ASSUME NEW b \in T, b # q PROVE b # a /\ End(T, L, b) = End(S, L, b)
    <3>1. b \in U /\ b # a /\ b \in S
      BY <1>3, <2>2, <2>7
    <3>2. End(U, L, b) = End(S, L, b) /\ NextIs(U, L, b, End(U, L, b))
      BY <1>0, <1>3, <2>5, <3>1, EndIs
    <3>3. End(S, L, b) # a
      <4>1. SUFFICES ASSUME End(S, L, b) = a PROVE FALSE
        OBVIOUS
      <4>2. PrevOf(S, a) = b
        <5>1. PrevOf(S, End(S, L, b)) = b
          BY <1>0, <3>1, PrevFrom
        <5> QED BY <4>1, <5>1
      <4> QED BY <2>1, <2>7, <4>2
    <3>4. NextIs(T, L, b, End(S, L, b))
      BY <2>2, <3>2, <3>3 DEF NextIs
    <3>5. b \in 0 .. L - 1
      BY <1>0, <3>1
    <3> QED BY <1>0, <2>5, <3>1, <3>4, <3>5, EndFrom
  <2>8. ASSUME NEW b \in (T \cap F) \cup {k} PROVE End(T, L, b) \notin (T \cap F) \cup {k}
    <3>1. CASE b = q
      <4>1. e # q
        BY <1>0, <1>3, <2>1, <2>2
      <4> QED BY <1>3, <2>2, <2>6, <3>1, <4>1
    <3>2. CASE b # q
      <4>1. b \in F /\ End(T, L, b) = End(S, L, b) /\ End(S, L, b) \notin F
        BY <1>1, <2>2, <2>7, <2>8, <3>2
      <4> QED BY <2>1, <2>2, <4>1
    <3> QED BY <3>1, <3>2
  <2>9. Tiling(T, (T \cap F) \cup {k}, L)
    BY <1>0, <2>2, <2>5, <2>8 DEF Tiling
  <2> QED BY <1>2, <2>1, <2>2, <2>5, <2>6, <2>7, <2>9 DEF JoinedOk
<1> QED BY <1>4, <1>5

-----------------------------------------------------------------------------
(* The pages a freed buffer gives up.                                      *)

DelPages(S, L, a) ==
  IF /\ PageOf(PrevOf(S, a) - 1) # PageOf(a)
     /\ PageOf(End(S, L, a)) # PageOf(a)
     /\ a % PageSize # 0
  THEN {PageOf(a)} ELSE {}
FreedWhole(S, L, a) == PageUp(a) .. PageOf(End(S, L, a)) - 1
FreedNext(S, F, L, a) == IF End(S, L, a) \in F THEN DelPages(S, L, End(S, L, a)) ELSE {}
FreedPrev(S, F, L, a) == IF WithPrev(S, F, a) THEN DelPages(LessNext(S, F, L, a), L, a) ELSE {}

\* Other buffers and the byte ranges they can have.
LEMMA OthersApart ==
  ASSUME NEW S, NEW F, NEW L, Tiling(S, F, L), NEW a \in S, NEW b \in S, b # a
  PROVE  (b < a /\ End(S, L, b) <= a) \/ (b > a /\ b >= End(S, L, a))
<1>0. /\ L \in Nat /\ S \subseteq 0 .. L - 1 /\ \A c \in S : c \in 0 .. L - 1 /\ c \in Int
      /\ \A c \in S : NextIs(S, L, c, End(S, L, c)) /\ End(S, L, c) \in Int /\ c < End(S, L, c) /\ End(S, L, c) <= L
  BY TilingFacts
<1>1. /\ \A c \in S : c > b => End(S, L, b) <= c
      /\ \A c \in S : c > a => End(S, L, a) <= c
  BY <1>0 DEF NextIs
<1>2. a \in Int /\ b \in Int /\ End(S, L, a) \in Int /\ End(S, L, b) \in Int
  BY <1>0
<1>3. CASE b < a
  <2>1. a > b
    BY <1>2, <1>3
  <2>2. End(S, L, b) <= a
    BY <1>1, <2>1
  <2> QED BY <1>3, <2>2
<1>4. CASE b > a
  BY <1>1, <1>2, <1>4
<1> QED BY <1>2, <1>3, <1>4

\* The three sets of pages, spelled out: e is where the joined buffer ends, q the one before a.
LEMMA FreedSets ==
  ASSUME NEW S, NEW F, Tiling(S, F, Length), NEW a \in S, a \notin F,
         NEW n, n = End(S, Length, a), NEW e, e = NewEnd(S, F, Length, a), NEW q, q = PrevOf(S, a)
  PROVE  /\ \A p : p \in FreedWhole(S, Length, a) <=> p \in Int /\ PageOf(a - 1) < p /\ p < PageOf(n)
         /\ \A p : p \in FreedNext(S, F, Length, a) <=>
                     /\ n \in F /\ p = PageOf(n) /\ n % PageSize # 0
                     /\ PageOf(a - 1) # PageOf(n) /\ PageOf(e) # PageOf(n)
         /\ \A p : p \in FreedPrev(S, F, Length, a) <=>
                     /\ WithPrev(S, F, a) /\ p = PageOf(a) /\ a % PageSize # 0
                     /\ PageOf(q - 1) # PageOf(a) /\ PageOf(e) # PageOf(a)
<1> DEFINE L == Length
<1>0. /\ L \in Nat /\ S \subseteq 0 .. L - 1 /\ \A c \in S : c \in 0 .. L - 1 /\ c \in Int
      /\ \A c \in S : NextIs(S, L, c, End(S, L, c)) /\ End(S, L, c) \in Int /\ c < End(S, L, c) /\ End(S, L, c) <= L
  BY TilingFacts
<1>1. a \in Int /\ n \in Int /\ a < n
  BY <1>0
<1>2. \A p : p \in FreedWhole(S, L, a) <=> p \in Int /\ PageOf(a - 1) < p /\ p < PageOf(n)
  <2>1. PageUp(a) = PageOf(a - 1) + 1 /\ PageOf(a - 1) \in Int /\ PageOf(n) \in Int
    BY <1>1, PageFacts
  <2> QED BY <2>1 DEF FreedWhole
<1>3. \A p : p \in FreedNext(S, F, L, a) <=>
                     /\ n \in F /\ p = PageOf(n) /\ n % PageSize # 0
                     /\ PageOf(a - 1) # PageOf(n) /\ PageOf(e) # PageOf(n)
  <2>1. CASE n \in F
    <3>1. PrevOf(S, n) = a
      BY <1>0, PrevFrom
    <3>2. e = End(S, L, n)
      BY <2>1 DEF NewEnd
    <3>3. FreedNext(S, F, L, a) = DelPages(S, L, n)
      BY <2>1 DEF FreedNext
    <3> QED BY <2>1, <3>1, <3>2, <3>3 DEF DelPages
  <2>2. CASE n \notin F
    BY <2>2 DEF FreedNext
  <2> QED BY <2>1, <2>2
<1>4. \A p : p \in FreedPrev(S, F, L, a) <=>
                     /\ WithPrev(S, F, a) /\ p = PageOf(a) /\ a % PageSize # 0
                     /\ PageOf(q - 1) # PageOf(a) /\ PageOf(e) # PageOf(a)
  <2>1. CASE WithPrev(S, F, a)
    <3>1. PICK U : U = LessNext(S, F, L, a)
      OBVIOUS
    <3>2. End(U, L, a) = e
      BY <3>1, LessNextFacts
    <3>3. {b \in U : b < a} = {b \in S : b < a}
      BY <1>0, <1>1, <3>1 DEF LessNext
    <3>4. PrevOf(U, a) = q
      BY <3>3 DEF PrevOf
    <3>5. FreedPrev(S, F, L, a) = DelPages(U, L, a)
      BY <2>1, <3>1 DEF FreedPrev
    <3> QED BY <2>1, <3>2, <3>4, <3>5 DEF DelPages
  <2>2. CASE ~WithPrev(S, F, a)
    BY <2>2 DEF FreedPrev
  <2> QED BY <2>1, <2>2
<1> QED BY <1>2, <1>3, <1>4

\* The pages given up are those that only the freed buffer had a byte in, and none twice.
LEMMA FreedPages ==
  ASSUME NEW S, NEW F, Tiling(S, F, Length), NEW a \in S, a \notin F,
         NEW W, W = FreedWhole(S, Length, a) \cup FreedNext(S, F, Length, a) \cup FreedPrev(S, F, Length, a)
  PROVE  /\ \A p \in W : p \in Page /\ Touches(S, Length, a, p)
         /\ \A p \in W : \A b \in (S \ F) \ {a} : ~Touches(S, Length, b, p)
         /\ \A p \in Int : Touches(S, Length, a, p) /\ p \notin W => \E b \in (S \ F) \ {a} : Touches(S, Length, b, p)
         /\ FreedNext(S, F, Length, a) \cap FreedPrev(S, F, Length, a) = {}
         /\ FreedWhole(S, Length, a) \cap (FreedNext(S, F, Length, a) \cup FreedPrev(S, F, Length, a)) = {}
<1>1. PICK L : L = Length
  OBVIOUS
<1>2. /\ L \in Nat /\ S \subseteq 0 .. L - 1 /\ \A c \in S : c \in 0 .. L - 1 /\ c \in Int
      /\ \A c \in S : NextIs(S, L, c, End(S, L, c)) /\ End(S, L, c) \in Int /\ c < End(S, L, c) /\ End(S, L, c) <= L
      /\ \A c \in S : End(S, L, c) # L => End(S, L, c) \in S
  BY <1>1, TilingFacts
<1>3. 0 \in S /\ F \subseteq S /\ \A b \in F : End(S, L, b) \notin F
  BY <1>1 DEF Tiling
<1>4. PICK n, e, q : n = End(S, L, a) /\ e = NewEnd(S, F, L, a) /\ q = PrevOf(S, a)
  OBVIOUS
<1>5. a \in Int /\ 0 <= a /\ n \in Int /\ a < n /\ n <= L /\ n \in S \cup {L}
  BY <1>2, <1>4
<1>6. /\ e \notin F /\ e \in (S \ {a}) \cup {L} /\ a < e /\ n <= e /\ e \in Int /\ e <= L
      /\ (n \notin F => e = n) /\ \A b \in S \ F : b > a => e <= b
  <2>1. /\ e \notin F /\ e \in (S \ {a}) \cup {L} /\ a < e /\ \A b \in S \ F : b > a => e <= b
    BY <1>1, <1>4, LessNextFacts
  <2>2. e \in Int /\ e <= L
    BY <1>2, <2>1
  <2>3. (n \notin F => e = n) /\ (n \in F => e = End(S, L, n) /\ n \in S)
    BY <1>3, <1>4 DEF NewEnd
  <2>4. n <= e
    BY <1>2, <1>5, <2>2, <2>3
  <2> QED BY <2>1, <2>2, <2>3, <2>4
<1>7. WithPrev(S, F, a) => /\ q \in F /\ q < a /\ q \in Int /\ 0 <= q /\ End(S, L, q) = a
                           /\ \A b \in S : b < a => b <= q
  <2>1. SUFFICES ASSUME WithPrev(S, F, a)
                 PROVE  q \in F /\ q < a /\ q \in Int /\ 0 <= q /\ End(S, L, q) = a /\ \A b \in S : b < a => b <= q
    OBVIOUS
  <2>2. q \in F /\ q < a /\ q \in Int /\ 0 <= q
    BY <1>2, <1>3, <1>4, <2>1 DEF WithPrev
  <2>3. a # 0
    BY <1>5, <2>2
  <2> QED BY <1>1, <1>4, <2>2, <2>3, PrevFacts
<1>8. /\ \A x \in Int : PageOf(x) \in Int
      /\ \A x, y \in Int : x <= y => PageOf(x) <= PageOf(y)
      /\ PageOf(L) = NPages /\ PageOf(L - 1) = NPages - 1 /\ PageOf(0) = 0 /\ PageOf(-1) = -1 /\ NPages \in Nat
  BY <1>1, PageFacts, PageMono, PageEnds, AllocAssumption
<1>9. \A x \in Int : (x % PageSize = 0 /\ PageOf(x) = PageOf(x - 1) + 1) \/ (x % PageSize # 0 /\ PageOf(x) = PageOf(x - 1))
  BY PageFacts
<1>10. /\ \A p : p \in FreedWhole(S, L, a) <=> p \in Int /\ PageOf(a - 1) < p /\ p < PageOf(n)
       /\ \A p : p \in FreedNext(S, F, L, a) <=>
                     /\ n \in F /\ p = PageOf(n) /\ n % PageSize # 0
                     /\ PageOf(a - 1) # PageOf(n) /\ PageOf(e) # PageOf(n)
       /\ \A p : p \in FreedPrev(S, F, L, a) <=>
                     /\ WithPrev(S, F, a) /\ p = PageOf(a) /\ a % PageSize # 0
                     /\ PageOf(q - 1) # PageOf(a) /\ PageOf(e) # PageOf(a)
  BY <1>1, <1>4, FreedSets
<1>11. \A p : Touches(S, L, a, p) <=> PageOf(a) <= p /\ p <= PageOf(n - 1)
  BY <1>4 DEF Touches
<1>12. PICK fa, fa1, fn, fn1, fe : /\ fa = PageOf(a) /\ fa1 = PageOf(a - 1) /\ fn = PageOf(n) /\ fn1 = PageOf(n - 1)
                                   /\ fe = PageOf(e)
                                   /\ fa \in Int /\ fa1 \in Int /\ fn \in Int /\ fn1 \in Int /\ fe \in Int
  <2>1. PageOf(a) \in Int /\ PageOf(a - 1) \in Int /\ PageOf(n) \in Int /\ PageOf(n - 1) \in Int /\ PageOf(e) \in Int
    BY <1>5, <1>6, <1>8
  <2> QED BY <2>1
<1>13. /\ fa1 <= fa /\ fa <= fn1 /\ fn1 <= fn /\ fn <= fe /\ 0 <= fa /\ fn1 <= NPages - 1
       /\ (a % PageSize # 0 /\ fa = fa1) \/ (a % PageSize = 0 /\ fa = fa1 + 1)
       /\ (n % PageSize # 0 /\ fn = fn1) \/ (n % PageSize = 0 /\ fn = fn1 + 1)
  <2>1. fa1 <= fa /\ fa <= fn1 /\ fn1 <= fn /\ fn <= fe /\ 0 <= fa /\ fn1 <= NPages - 1
    BY <1>2, <1>5, <1>6, <1>8, <1>12
  <2>2. /\ (a % PageSize # 0 /\ fa = fa1) \/ (a % PageSize = 0 /\ fa = fa1 + 1)
        /\ (n % PageSize # 0 /\ fn = fn1) \/ (n % PageSize = 0 /\ fn = fn1 + 1)
    BY <1>5, <1>9, <1>12
  <2> QED BY <2>1, <2>2
<1>14. ASSUME NEW p \in W PROVE p \in Page /\ Touches(S, L, a, p)
  <2>1. p \in Int /\ fa <= p /\ p <= fn1
    BY <1>1, <1>10, <1>12, <1>13, <1>14
  <2> QED BY <1>8, <1>11, <1>12, <1>13, <2>1 DEF Page
<1>15. ASSUME NEW p \in W, NEW b \in (S \ F) \ {a} PROVE ~Touches(S, L, b, p)
  <2>0. p \in Int /\ b \in Int /\ b \in S
    BY <1>2, <1>14, <1>15 DEF Page
  <2>1. CASE b < a
    <3>1. PICK d \in Int : d = End(S, L, b) /\ d <= a
      BY <1>1, <1>2, <2>0, <2>1, OthersApart
    <3>2. PICK fd \in Int : fd = PageOf(d - 1) /\ fd <= fa1
      BY <1>5, <1>8, <1>12, <3>1
    <3>3. WithPrev(S, F, a) => fd <= PageOf(q - 1)
      <4>1. SUFFICES ASSUME WithPrev(S, F, a) PROVE fd <= PageOf(q - 1)
        OBVIOUS
      <4>2. q \in S /\ b # q /\ b <= q /\ q \in Int
        BY <1>3, <1>7, <1>15, <2>0, <2>1, <4>1
      <4>3. d <= q
        BY <1>1, <2>0, <3>1, <4>2, OthersApart
      <4> QED BY <1>8, <3>1, <3>2, <4>2, <4>3
    <3>4. WithPrev(S, F, a) => PageOf(q - 1) \in Int /\ PageOf(q - 1) <= fa
      BY <1>5, <1>7, <1>8, <1>12
    <3>5. fd < p
      <4>1. CASE p \in FreedWhole(S, L, a)
        BY <1>10, <1>12, <3>2, <4>1
      <4>2. CASE p \in FreedNext(S, F, L, a)
        BY <1>10, <1>12, <1>13, <3>2, <4>2
      <4>3. CASE p \in FreedPrev(S, F, L, a)
        BY <1>10, <1>12, <1>13, <3>2, <3>3, <3>4, <4>3
      <4> QED BY <1>1, <1>15, <4>1, <4>2, <4>3
    <3> QED BY <2>0, <3>1, <3>2, <3>5 DEF Touches
  <2>2. CASE b > a
    <3>1. e <= b /\ n <= b
      BY <1>5, <1>6, <1>15, <2>0, <2>2
    <3>2. PICK fb \in Int : fb = PageOf(b) /\ fe <= fb /\ fn <= fb
      BY <1>5, <1>6, <1>8, <1>12, <2>0, <3>1
    <3>3. p < fb
      <4>1. CASE p \in FreedWhole(S, L, a)
        BY <1>10, <1>12, <3>2, <4>1
      <4>2. CASE p \in FreedNext(S, F, L, a)
        BY <1>10, <1>12, <1>13, <3>2, <4>2
      <4>3. CASE p \in FreedPrev(S, F, L, a)
        BY <1>10, <1>12, <1>13, <3>2, <4>3
      <4> QED BY <1>1, <1>15, <4>1, <4>2, <4>3
    <3> QED BY <2>0, <3>2, <3>3 DEF Touches
  <2> QED BY <1>5, <1>15, <2>0, <2>1, <2>2
<1>16. ASSUME NEW x \in S \ F, x # a, PageOf(x) <= fa \/ x = e \/ x = n, NEW p \in Int, PageOf(x) = p
       PROVE  Touches(S, L, x, p)
  <2>1. PICK d \in Int : d = End(S, L, x) /\ x <= d - 1 /\ x \in Int
    BY <1>2
  <2>2. PageOf(x) <= PageOf(d - 1)
    BY <1>8, <2>1
  <2> QED BY <1>16, <2>1, <2>2 DEF Touches
<1>17. ASSUME NEW p \in Int, PageOf(a) <= p, p <= PageOf(n - 1), p \notin W
       PROVE  \E b \in (S \ F) \ {a} : Touches(S, L, b, p)
  <2>1. p <= fa1 \/ p >= fn
    BY <1>1, <1>10, <1>12, <1>17
  <2>2. ASSUME p <= fa1 PROVE \E b \in (S \ F) \ {a} : Touches(S, L, b, p)
    <3>1. p = fa /\ fa = fa1 /\ a % PageSize # 0
      BY <1>12, <1>13, <1>17, <2>2
    <3>2. a # 0
      BY <1>8, <1>12, <1>13, <3>1
    <3>3. /\ q \in S /\ q < a /\ End(S, L, q) = a /\ q \in Int /\ 0 <= q
          /\ WithPrev(S, F, a) <=> q \in F
      <4>1. /\ PrevOf(S, a) \in S /\ PrevOf(S, a) < a /\ End(S, L, PrevOf(S, a)) = a
            /\ WithPrev(S, F, a) <=> PrevOf(S, a) \in F
        BY <1>1, <3>2, PrevFacts
      <4>2. q \in Int /\ 0 <= q
        <5>1. q \in S
          BY <1>4, <4>1
        <5>2. q \in 0 .. L - 1
          BY <1>2, <5>1
        <5> QED BY <1>2, <5>2
      <4> QED BY <1>4, <4>1, <4>2
    <3>4. CASE q \notin F
      <4>1. PageOf(q) <= PageOf(a - 1)
        BY <1>5, <1>8, <3>3
      <4>2. Touches(S, L, q, p)
        BY <1>12, <3>1, <3>3, <4>1 DEF Touches
      <4>3. q # a
        BY <1>5, <3>3
      <4> QED BY <3>3, <3>4, <4>2, <4>3
    <3>5. CASE q \in F
      <4>1. PageOf(q - 1) = fa \/ fe = fa
        BY <1>1, <1>10, <1>12, <1>17, <3>1, <3>3, <3>5
      <4>2. CASE PageOf(q - 1) = fa
        <5>1. q # 0
          BY <1>8, <1>13, <4>2
        <5>2. PICK r : r = PrevOf(S, q) /\ r \in S /\ r < q /\ End(S, L, r) = q
          BY <1>1, <3>3, <5>1, PrevFacts
        <5>3. r \notin F /\ r # a /\ r \in Int
          BY <1>2, <1>3, <1>5, <3>3, <3>5, <5>2
        <5>4. PageOf(r) <= PageOf(q - 1)
          BY <1>8, <3>3, <5>2, <5>3
        <5>5. Touches(S, L, r, p)
          BY <3>1, <4>2, <5>2, <5>4 DEF Touches
        <5> QED BY <5>2, <5>3, <5>5
      <4>3. CASE fe = fa
        <5>1. e # L
          <6>1. fe # NPages
            BY <1>8, <1>12, <1>13, <4>3
          <6> QED BY <1>8, <1>12, <6>1
        <5>2. e \in S \ F /\ e # a
          BY <1>6, <5>1
        <5>3. Touches(S, L, e, p)
          BY <1>12, <1>16, <3>1, <4>3, <5>2
        <5> QED BY <5>2, <5>3
      <4> QED BY <4>1, <4>2, <4>3
    <3> QED BY <3>4, <3>5
  <2>3. ASSUME p >= fn PROVE \E b \in (S \ F) \ {a} : Touches(S, L, b, p)
    <3>1. p = fn /\ fn = fn1 /\ n % PageSize # 0
      BY <1>12, <1>13, <1>17, <2>3
    <3>2. n # L
      <4>1. fn # NPages
        BY <1>8, <1>12, <1>13, <3>1
      <4> QED BY <1>8, <1>12, <4>1
    <3>3. n \in S /\ n # a
      BY <1>5, <3>2
    <3>4. CASE n \notin F
      <4>1. Touches(S, L, n, p)
        BY <1>12, <1>16, <3>1, <3>3, <3>4
      <4> QED BY <3>3, <3>4, <4>1
    <3>5. CASE n \in F
      <4>1. fa1 = fn \/ fe = fn
        BY <1>1, <1>10, <1>12, <1>17, <3>1, <3>5
      <4>2. CASE fa1 = fn
        BY <2>2, <3>1, <4>2
      <4>3. CASE fe = fn
        <5>1. e # L
          <6>1. fe # NPages
            BY <1>8, <1>12, <1>13, <3>1, <4>3
          <6> QED BY <1>8, <1>12, <6>1
        <5>2. e \in S \ F /\ e # a
          BY <1>6, <5>1
        <5>3. Touches(S, L, e, p)
          BY <1>12, <1>16, <3>1, <4>3, <5>2
        <5> QED BY <5>2, <5>3
      <4> QED BY <4>1, <4>2, <4>3
    <3> QED BY <3>4, <3>5
  <2> QED BY <2>1, <2>2, <2>3
<1>18. FreedNext(S, F, L, a) \cap FreedPrev(S, F, L, a) = {}
  BY <1>10, <1>12, <1>13
<1>19. FreedWhole(S, L, a) \cap (FreedNext(S, F, L, a) \cup FreedPrev(S, F, L, a)) = {}
  BY <1>10, <1>12, <1>13
<1> QED BY <1>1, <1>11, <1>14, <1>15, <1>17, <1>18, <1>19

-----------------------------------------------------------------------------
(* The list and the pages when s bytes of the free buffer at a are taken.  *)

Cut(S, L, a, s) == IF a + s = End(S, L, a) THEN S ELSE S \cup {a + s}
CutFree(S, F, L, a, s) == IF a + s = End(S, L, a) THEN F \ {a} ELSE (F \ {a}) \cup {a + s}

CutOk(S, F, L, a, s, T, G) ==
  /\ S \subseteq T /\ a \in S /\ a + s \in Int /\ a + s <= L
  /\ End(T, L, a) = a + s
  /\ \A b \in S : b # a => End(T, L, b) = End(S, L, b)
  /\ a + s # End(S, L, a) => a + s \notin S /\ End(T, L, a + s) = End(S, L, a)
  /\ Tiling(T, G, L)
  /\ T \ G = (S \ F) \cup {a}

\* The buffer at a ends behind the s bytes, the rest is a free buffer with the old end.
LEMMA CutFacts ==
  ASSUME NEW S, NEW F, NEW L, Tiling(S, F, L), NEW a \in F, NEW s \in Nat, 0 < s, s <= End(S, L, a) - a,
         NEW T, T = Cut(S, L, a, s), NEW G, G = CutFree(S, F, L, a, s)
  PROVE  CutOk(S, F, L, a, s, T, G)
<1>0. /\ L \in Nat /\ S \subseteq 0 .. L - 1 /\ \A b \in S : b \in 0 .. L - 1 /\ b \in Int
      /\ \A b \in S : NextIs(S, L, b, End(S, L, b)) /\ End(S, L, b) \in Int /\ b < End(S, L, b) /\ End(S, L, b) <= L
      /\ \A b \in S : End(S, L, b) # L => End(S, L, b) \in S
  BY TilingFacts
<1>1. 0 \in S /\ L \notin S /\ F \subseteq S /\ a \in S /\ \A b \in F : End(S, L, b) \notin F
  BY DEF Tiling
<1>2. PICK n \in Int : n = End(S, L, a) /\ a < n /\ n \in S \cup {L} /\ n <= L /\ \A b \in S : b > a => n <= b
  BY <1>0, <1>1 DEF NextIs
<1>3. PICK r \in Int : r = a + s /\ a < r /\ r <= n /\ r <= L /\ a \in Int /\ 0 <= a
  BY <1>0, <1>1, <1>2
<1>4. CASE r = n
  <2>1. T = S /\ G = F \ {a}
    BY <1>2, <1>3, <1>4 DEF Cut, CutFree
  <2>2. Tiling(T, G, L)
    BY <1>0, <1>1, <2>1 DEF Tiling
  <2> QED BY <1>0, <1>1, <1>2, <1>3, <1>4, <2>1, <2>2 DEF CutOk
<1>5. CASE r # n
  <2>1. T = S \cup {r} /\ G = (F \ {a}) \cup {r} /\ r < n
    BY <1>2, <1>3, <1>5 DEF Cut, CutFree
  <2>2. r \notin S /\ r \in 0 .. L - 1
    <3>1. r \in S => n <= r
      BY <1>2, <1>3
    <3>2. ~(n <= r)
      BY ONLY <2>1, <1>2, <1>3
    <3>3. 0 <= r /\ r <= L - 1
      BY <1>0, <1>2, <1>3, <2>1
    <3> QED BY <1>0, <1>3, <3>1, <3>2, <3>3
  <2>3. T \subseteq 0 .. L - 1
    BY <1>0, <2>1, <2>2
  <2>4. End(T, L, a) = r
    <3>1. \A b \in T : b > a => r <= b
      BY <1>0, <1>2, <1>3, <2>1
    <3>2. NextIs(T, L, a, r)
      BY <1>3, <2>1, <3>1 DEF NextIs
    <3>3. a \in 0 .. L - 1
      BY <1>0, <1>1
    <3> QED BY <1>0, <2>3, <3>2, <3>3, EndFrom
  <2>5. End(T, L, r) = n
    <3>1. \A b \in T : b > r => n <= b
      BY <1>0, <1>2, <1>3, <2>1
    <3>2. NextIs(T, L, r, n)
      BY <1>2, <2>1, <3>1 DEF NextIs
    <3> QED BY <1>0, <2>2, <2>3, <3>2, EndFrom
  <2>6. ASSUME NEW b \in S, b # a PROVE End(T, L, b) = End(S, L, b)
    <3>1. PICK e \in Int : e = End(S, L, b) /\ b < e /\ e \in S \cup {L} /\ \A c \in S : c > b => e <= c
      BY <1>0 DEF NextIs
    <3>2. b \in Int /\ b \in 0 .. L - 1
      BY <1>0
    <3>3. r > b => e <= r
      <4>1. CASE b < a
        <5>1. e <= a
          BY <1>1, <1>3, <3>1, <3>2, <4>1
        <5> QED BY <1>3, <3>1, <5>1
      <4>2. CASE b > a
        BY <1>2, <1>3, <2>1, <3>2, <4>2
      <4> QED BY <1>3, <2>6, <3>2, <4>1, <4>2
    <3>4. NextIs(T, L, b, e)
      BY <2>1, <3>1, <3>3 DEF NextIs
    <3> QED BY <1>0, <2>3, <3>1, <3>2, <3>4, EndFrom
  <2>7. n \notin F
    BY <1>1, <1>2
  <2>8. ASSUME NEW b \in G PROVE End(T, L, b) \notin G
    <3>1. CASE b = r
      BY <2>1, <2>5, <2>7, <3>1
    <3>2. CASE b # r
      <4>1. b \in F /\ b # a /\ b \in S
        BY <1>1, <2>1, <2>8, <3>2
      <4>2. End(T, L, b) = End(S, L, b) /\ End(S, L, b) \notin F
        BY <1>1, <2>6, <4>1
      <4>3. End(S, L, b) # r
        BY <1>0, <1>3, <2>1, <2>2, <4>1, <1>2
      <4> QED BY <2>1, <4>2, <4>3
    <3> QED BY <3>1, <3>2
  <2>9. Tiling(T, G, L)
    BY <1>0, <1>1, <2>1, <2>3, <2>8 DEF Tiling
  <2>10. T \ G = (S \ F) \cup {a}
    BY <1>1, <1>3, <2>1, <2>2
  <2> QED BY <1>1, <1>2, <1>3, <1>5, <2>1, <2>2, <2>4, <2>5, <2>6, <2>9, <2>10 DEF CutOk
<1> QED BY <1>4, <1>5

\* The smaller of two numbers.
LEMMA MinOfTwo ==
  ASSUME NEW x \in Int, NEW y \in Int
  PROVE  /\ Min({x, y}) \in {x, y} /\ Min({x, y}) <= x /\ Min({x, y}) <= y
<1>1. CASE x <= y
  <2>1. x \in {x, y} /\ \A z \in {x, y} : x <= z
    BY <1>1
  <2>2. Min({x, y}) \in {x, y} /\ \A z \in {x, y} : Min({x, y}) <= z
    BY <2>1 DEF Min
  <2> QED BY <2>2
<1>2. CASE y < x
  <2>1. y \in {x, y} /\ \A z \in {x, y} : y <= z
    BY <1>2
  <2>2. Min({x, y}) \in {x, y} /\ \A z \in {x, y} : Min({x, y}) <= z
    BY <2>1 DEF Min
  <2> QED BY <2>2
<1> QED BY <1>1, <1>2

NewPages(S, L, a, s) == PageUp(a) .. Min({PageUp(a + s), PageOf(End(S, L, a))}) - 1

\* An allocation provides exactly the pages of its bytes that no other buffer holds already.
LEMMA CutPages ==
  ASSUME NEW S, NEW F, Tiling(S, F, Length), NEW a \in F, NEW s \in Nat, 0 < s, s <= End(S, Length, a) - a,
         NEW P, P = NewPages(S, Length, a, s)
  PROVE  /\ \A p \in P : p \in Page /\ PageOf(a) <= p /\ p <= PageOf(a + s - 1)
         /\ \A p \in P : \A b \in S \ F : ~Touches(S, Length, b, p)
         /\ \A p \in Int : PageOf(a) <= p /\ p <= PageOf(a + s - 1) /\ p \notin P
                             => \E b \in S \ F : Touches(S, Length, b, p)
<1>1. PICK L : L = Length
  OBVIOUS
<1>2. /\ L \in Nat /\ S \subseteq 0 .. L - 1 /\ \A c \in S : c \in 0 .. L - 1 /\ c \in Int
      /\ \A c \in S : NextIs(S, L, c, End(S, L, c)) /\ End(S, L, c) \in Int /\ c < End(S, L, c) /\ End(S, L, c) <= L
      /\ \A c \in S : End(S, L, c) # L => End(S, L, c) \in S
  BY <1>1, TilingFacts
<1>3. 0 \in S /\ F \subseteq S /\ a \in S /\ \A b \in F : End(S, L, b) \notin F
  BY <1>1 DEF Tiling
<1>4. PICK n : n = End(S, L, a)
  OBVIOUS
<1>5. a \in Int /\ 0 <= a /\ n \in Int /\ a < n /\ n <= L /\ n \in S \cup {L} /\ n \notin F /\ a + s \in Int /\ a + s <= n /\ a < a + s
  BY <1>1, <1>2, <1>3, <1>4
<1>6. /\ \A x \in Int : PageOf(x) \in Int
      /\ \A x, y \in Int : x <= y => PageOf(x) <= PageOf(y)
      /\ PageOf(L) = NPages /\ PageOf(L - 1) = NPages - 1 /\ PageOf(0) = 0 /\ PageOf(-1) = -1 /\ NPages \in Nat
  BY <1>1, PageFacts, PageMono, PageEnds, AllocAssumption
<1>7. PICK fa, fa1, fn, fn1, fr : /\ fa = PageOf(a) /\ fa1 = PageOf(a - 1) /\ fn = PageOf(n) /\ fn1 = PageOf(n - 1)
                                  /\ fr = PageOf(a + s - 1)
                                  /\ fa \in Int /\ fa1 \in Int /\ fn \in Int /\ fn1 \in Int /\ fr \in Int
  <2>1. PageOf(a) \in Int /\ PageOf(a - 1) \in Int /\ PageOf(n) \in Int /\ PageOf(n - 1) \in Int /\ PageOf(a + s - 1) \in Int
    BY <1>5, <1>6
  <2> QED BY <2>1
<1>8. /\ fa1 <= fa /\ fa <= fr /\ fr <= fn1 /\ fn1 <= fn /\ 0 <= fa /\ fn1 <= NPages - 1
      /\ fa = fa1 \/ fa = fa1 + 1
      /\ fn = fn1 \/ fn = fn1 + 1
  <2>1. fa1 <= fa /\ fa <= fr /\ fr <= fn1 /\ fn1 <= fn /\ 0 <= fa /\ fn1 <= NPages - 1
    BY <1>2, <1>5, <1>6, <1>7
  <2>2. fa = fa1 \/ fa = fa1 + 1
    BY <1>5, <1>7, PageFacts
  <2>3. fn = fn1 \/ fn = fn1 + 1
    BY <1>5, <1>7, PageFacts
  <2> QED BY <2>1, <2>2, <2>3
<1>9. \A p : p \in P <=> p \in Int /\ fa1 < p /\ p <= fr /\ p < fn
  <2>1. PageUp(a) = fa1 + 1 /\ PageUp(a + s) = fr + 1
    BY <1>5, <1>7, PageFacts
  <2>2. PICK m \in Int : m = Min({fr + 1, fn}) /\ m \in {fr + 1, fn} /\ m <= fr + 1 /\ m <= fn
    <3>1. fr + 1 \in Int /\ fn \in Int
      BY <1>7
    <3>2. Min({fr + 1, fn}) \in {fr + 1, fn} /\ Min({fr + 1, fn}) <= fr + 1 /\ Min({fr + 1, fn}) <= fn
      BY ONLY <3>1, MinOfTwo
    <3> QED BY <3>1, <3>2
  <2>3. P = fa1 + 1 .. m - 1
    BY <1>1, <1>4, <1>7, <2>1, <2>2 DEF NewPages
  <2> QED BY <1>7, <2>2, <2>3
<1>10. ASSUME NEW p \in P PROVE p \in Page /\ PageOf(a) <= p /\ p <= PageOf(a + s - 1)
  BY <1>6, <1>7, <1>8, <1>9, <1>10 DEF Page
<1>11. ASSUME NEW p \in P, NEW b \in S \ F PROVE ~Touches(S, L, b, p)
  <2>0. p \in Int /\ b \in Int /\ b \in S /\ b # a
    BY <1>2, <1>9, <1>11
  <2>1. PICK d \in Int : d = End(S, L, b)
    BY <1>2, <2>0
  <2>2. (b < a /\ d <= a) \/ (b > a /\ b >= n)
    BY <1>1, <1>3, <1>4, <2>0, <2>1, OthersApart
  <2>3. CASE d <= a
    <3>1. PageOf(d - 1) <= fa1 /\ PageOf(d - 1) \in Int
      BY <1>5, <1>6, <1>7, <2>1, <2>3
    <3> QED BY <1>7, <1>9, <1>11, <2>0, <2>1, <3>1 DEF Touches
  <2>4. CASE b >= n
    <3>1. fn <= PageOf(b) /\ PageOf(b) \in Int
      BY <1>5, <1>6, <1>7, <2>0, <2>4
    <3> QED BY <1>7, <1>9, <1>11, <2>0, <3>1 DEF Touches
  <2> QED BY <2>2, <2>3, <2>4
<1>12. ASSUME NEW p \in Int, PageOf(a) <= p, p <= PageOf(a + s - 1), p \notin P
       PROVE  \E b \in S \ F : Touches(S, L, b, p)
  <2>1. p <= fa1 \/ p >= fn
    BY <1>7, <1>9, <1>12
  <2>2. CASE p <= fa1
    <3>1. p = fa /\ fa = fa1
      BY <1>7, <1>8, <1>12, <2>2
    <3>2. a # 0
      BY <1>6, <1>7, <1>8, <3>1
    <3>3. PICK q : q = PrevOf(S, a) /\ q \in S /\ q < a /\ End(S, L, q) = a
      BY <1>1, <1>3, <3>2, PrevFacts
    <3>4. q \in Int /\ q \notin F
      BY <1>2, <1>3, <3>3
    <3>5. PageOf(q) <= PageOf(a - 1)
      BY <1>5, <1>6, <3>3, <3>4
    <3>6. Touches(S, L, q, p)
      BY <1>7, <3>1, <3>3, <3>5 DEF Touches
    <3> QED BY <3>3, <3>4, <3>6
  <2>3. CASE p >= fn
    <3>1. p = fn /\ fn = fn1
      BY <1>7, <1>8, <1>12, <2>3
    <3>2. fn # NPages
      BY <1>6, <1>7, <1>8, <3>1
    <3>3. n # L
      BY <1>6, <1>7, <3>2
    <3>4. n \in S \ F
      BY <1>5, <3>3
    <3>5. PICK d \in Int : d = End(S, L, n) /\ n <= d - 1
      BY <1>2, <1>5, <3>4
    <3>6. PageOf(n) <= PageOf(d - 1)
      BY <1>5, <1>6, <3>5
    <3>7. Touches(S, L, n, p)
      BY <1>7, <3>1, <3>5, <3>6 DEF Touches
    <3> QED BY <3>4, <3>7
  <2> QED BY <2>1, <2>2, <2>3
<1> QED BY <1>1, <1>10, <1>11, <1>12

-----------------------------------------------------------------------------
(* The tree of free buffers.                                               *)

\* The members of the one tree are in the order they have in the other.
KeepsOrder(E, tree) ==
  \A i, j \in DOMAIN E : i < j => \E k, l \in DOMAIN tree : k < l /\ tree[k] = E[i] /\ tree[l] = E[j]

\* The same for x put behind the first i members of tree.
Placed(X, tree, i, x) ==
  \A k, l \in DOMAIN X : k < l =>
    \/ \E m, n \in DOMAIN tree : m < n /\ tree[m] = X[k] /\ tree[n] = X[l]
    \/ X[l] = x /\ \E m \in DOMAIN tree : m <= i /\ tree[m] = X[k]
    \/ X[k] = x /\ \E n \in DOMAIN tree : i < n /\ tree[n] = X[l]

\* Two sequences put together, and a piece of one, index by index.
LEMMA ConcatFacts ==
  ASSUME NEW A, NEW s \in Seq(A), NEW t \in Seq(A), NEW X, X = s \o t, NEW m, m = Len(s), NEW n, n = Len(t)
  PROVE  /\ X \in Seq(A) /\ Len(X) = m + n
         /\ \A j \in 1 .. m : X[j] = s[j]
         /\ \A j \in m + 1 .. m + n : X[j] = t[j - m]
<1>1. /\ X \in Seq(A) /\ Len(X) = m + n
      /\ \A j \in 1 .. m + n : X[j] = IF j <= m THEN s[j] ELSE t[j - m]
  BY ConcatProperties
<1>2. m \in Nat /\ n \in Nat
  OBVIOUS
<1>4. ASSUME NEW j \in 1 .. m PROVE X[j] = s[j]
  <2>1. j \in 1 .. m + n /\ j <= m
    BY <1>2
  <2> QED BY <1>1, <2>1
<1>5. ASSUME NEW j \in m + 1 .. m + n PROVE X[j] = t[j - m]
  <2>1. j \in 1 .. m + n /\ ~(j <= m)
    BY <1>2
  <2> QED BY <1>1, <2>1
<1> QED BY <1>1, <1>4, <1>5

\* A piece of a sequence, index by index.
LEMMA SubSeqFacts ==
  ASSUME NEW A, NEW s \in Seq(A), NEW m \in Nat \ {0}, NEW n \in Nat, m <= n + 1, n <= Len(s)
  PROVE  /\ SubSeq(s, m, n) \in Seq(A) /\ Len(SubSeq(s, m, n)) = n + 1 - m
         /\ \A j \in 1 .. n + 1 - m : SubSeq(s, m, n)[j] = s[m + j - 1]
<1>1. \A i \in m .. n : s[i] \in A
  OBVIOUS
<1>2. /\ SubSeq(s, m, n) \in Seq(A) /\ Len(SubSeq(s, m, n)) = (IF m <= n THEN n - m + 1 ELSE 0)
      /\ \A i \in 1 .. n - m + 1 : SubSeq(s, m, n)[i] = s[m + i - 1]
  BY <1>1, SubSeqProperties
<1>3. Len(SubSeq(s, m, n)) = n + 1 - m
  BY <1>2
<1>4. n - m + 1 = n + 1 - m
  OBVIOUS
<1> QED BY <1>2, <1>3, <1>4

\* rb_erase takes one node out and leaves the order of the others alone.
LEMMA EraseFacts ==
  ASSUME NEW A, NEW tree \in Seq(A), IsInjective(tree), NEW x \in Range(tree), NEW E, E = rb_erase(tree, x)
  PROVE  /\ E \in Seq(A) /\ IsInjective(E) /\ Range(E) = Range(tree) \ {x}
         /\ KeepsOrder(E, tree)
<1>1. PICK k \in DOMAIN tree : k = (CHOOSE i \in DOMAIN tree : tree[i] = x) /\ tree[k] = x
  BY DEF Range
<1>2. PICK N \in Nat : N = Len(tree) /\ DOMAIN tree = 1 .. N /\ k \in 1 .. N
  BY <1>1
<1>3. E = SubSeq(tree, 1, k - 1) \o SubSeq(tree, k + 1, N)
  BY <1>1, <1>2 DEF rb_erase, RemoveAt
<1>4. /\ E \in Seq(A) /\ DOMAIN E = 1 .. N - 1
      /\ \A i \in 1 .. N - 1 : E[i] = IF i < k THEN tree[i] ELSE tree[i + 1]
  <2>0. k - 1 \in Nat /\ k + 1 \in Nat /\ k \in Int
    BY <1>2
  <2>1. PICK U : U = SubSeq(tree, 1, k - 1) /\ U \in Seq(A) /\ Len(U) = k - 1 /\ \A j \in 1 .. k - 1 : U[j] = tree[j]
    <3>1. PICK q \in Nat : q = k - 1 /\ q <= Len(tree) /\ 1 <= q + 1
      BY <1>2, <2>0
    <3>2. 1 \in Nat \ {0}
      OBVIOUS
    <3>3. /\ SubSeq(tree, 1, q) \in Seq(A) /\ Len(SubSeq(tree, 1, q)) = q + 1 - 1
          /\ \A j \in 1 .. q + 1 - 1 : SubSeq(tree, 1, q)[j] = tree[1 + j - 1]
      BY <3>1, <3>2, SubSeqFacts
    <3>4. q + 1 - 1 = q /\ \A j \in 1 .. q : 1 + j - 1 = j
      BY <3>1
    <3>5. Len(SubSeq(tree, 1, q)) = q
      BY <3>3, <3>4
    <3>6. ASSUME NEW j \in 1 .. q PROVE SubSeq(tree, 1, q)[j] = tree[j]
      <4>1. 1 + j - 1 = j /\ j \in 1 .. q + 1 - 1
        BY <3>1, <3>4, <3>6
      <4> QED BY <3>3, <4>1
    <3>7. SubSeq(tree, 1, k - 1) = SubSeq(tree, 1, q)
      BY <3>1
    <3> QED BY <3>1, <3>3, <3>5, <3>6, <3>7
  <2>2. PICK V : V = SubSeq(tree, k + 1, N) /\ V \in Seq(A) /\ Len(V) = N - k /\ \A j \in 1 .. N - k : V[j] = tree[k + j]
    <3>1. /\ SubSeq(tree, k + 1, N) \in Seq(A) /\ Len(SubSeq(tree, k + 1, N)) = N + 1 - (k + 1)
          /\ \A j \in 1 .. N + 1 - (k + 1) : SubSeq(tree, k + 1, N)[j] = tree[(k + 1) + j - 1]
      BY <1>2, SubSeqFacts
    <3>2. N + 1 - (k + 1) = N - k /\ \A j \in 1 .. N - k : (k + 1) + j - 1 = k + j
      BY <1>2, <2>0
    <3> QED BY <3>1, <3>2
  <2>3. /\ E \in Seq(A) /\ Len(E) = (k - 1) + (N - k) /\ (\A j \in 1 .. k - 1 : E[j] = U[j])
        /\ \A j \in (k - 1) + 1 .. (k - 1) + (N - k) : E[j] = V[j - (k - 1)]
    <3>1. E = U \o V
      BY <1>3, <2>1, <2>2
    <3>2. PICK m, n : m = k - 1 /\ n = N - k
      OBVIOUS
    <3>3. m = Len(U) /\ n = Len(V)
      BY <2>1, <2>2, <3>2
    <3>4. /\ E \in Seq(A) /\ Len(E) = m + n /\ (\A j \in 1 .. m : E[j] = U[j])
          /\ \A j \in m + 1 .. m + n : E[j] = V[j - m]
      <4>1. U \in Seq(A) /\ V \in Seq(A)
        BY <2>1, <2>2
      <4> QED BY ONLY <3>1, <3>3, <4>1, ConcatFacts
    <3> QED BY ONLY <3>2, <3>4
  <2>4. ASSUME NEW i \in 1 .. N - 1 PROVE E[i] = IF i < k THEN tree[i] ELSE tree[i + 1]
    <3>1. CASE i < k
      <4>1. i \in 1 .. k - 1
        BY <2>0, <3>1
      <4> QED BY <2>1, <2>3, <3>1, <4>1
    <3>2. CASE i >= k
      <4>1. i \in (k - 1) + 1 .. (k - 1) + (N - k) /\ i - (k - 1) \in 1 .. N - k /\ k + (i - (k - 1)) = i + 1 /\ ~(i < k)
        BY <1>2, <2>0, <3>2
      <4>2. E[i] = V[i - (k - 1)] /\ V[i - (k - 1)] = tree[k + (i - (k - 1))]
        BY <2>2, <2>3, <4>1
      <4> QED BY <4>1, <4>2
    <3> QED BY <2>0, <3>1, <3>2
  <2>5. (k - 1) + (N - k) = N - 1
    BY <1>2, <2>0
  <2> QED BY <2>3, <2>4, <2>5
<1>5. \A i, j \in 1 .. N : tree[i] = tree[j] => i = j
  BY <1>2 DEF IsInjective
<1>6. IsInjective(E)
  <2>1. ASSUME NEW i \in 1 .. N - 1, NEW j \in 1 .. N - 1, E[i] = E[j] PROVE i = j
    BY <1>2, <1>4, <1>5, <2>1
  <2> QED BY <1>4, <2>1 DEF IsInjective
<1>7. Range(E) = Range(tree) \ {x}
  <2>1. ASSUME NEW y \in Range(E) PROVE y \in Range(tree) \ {x}
    <3>1. PICK i \in 1 .. N - 1 : y = E[i]
      BY <1>4, <2>1 DEF Range
    <3>2. PICK j \in 1 .. N : j # k /\ y = tree[j]
      BY <1>2, <1>4, <3>1
    <3> QED BY <1>1, <1>2, <1>5, <3>2 DEF Range
  <2>2. ASSUME NEW y \in Range(tree) \ {x} PROVE y \in Range(E)
    <3>1. PICK j \in 1 .. N : j # k /\ y = tree[j]
      BY <1>1, <1>2, <2>2 DEF Range
    <3>2. CASE j < k
      <4>1. j \in 1 .. N - 1 /\ E[j] = y
        BY <1>2, <1>4, <3>1, <3>2
      <4> QED BY <1>4, <4>1 DEF Range
    <3>3. CASE j > k
      <4>1. j - 1 \in 1 .. N - 1 /\ E[j - 1] = y
        BY <1>2, <1>4, <3>1, <3>3
      <4> QED BY <1>4, <4>1 DEF Range
    <3> QED BY <1>2, <3>1, <3>2, <3>3
  <2> QED BY <2>1, <2>2
<1>8. ASSUME NEW i \in 1 .. N - 1, NEW j \in 1 .. N - 1, i < j
      PROVE  \E l, m \in 1 .. N : l < m /\ tree[l] = E[i] /\ tree[m] = E[j]
  <2>1. CASE j < k
    BY <1>2, <1>4, <1>8, <2>1
  <2>2. CASE i < k /\ j >= k
    <3>1. i \in 1 .. N /\ j + 1 \in 1 .. N /\ i < j + 1 /\ E[i] = tree[i] /\ E[j] = tree[j + 1]
      BY <1>2, <1>4, <1>8, <2>2
    <3> QED BY <3>1
  <2>3. CASE i >= k
    <3>1. i + 1 \in 1 .. N /\ j + 1 \in 1 .. N /\ i + 1 < j + 1 /\ E[i] = tree[i + 1] /\ E[j] = tree[j + 1]
      BY <1>2, <1>4, <1>8, <2>3
    <3> QED BY <3>1
  <2> QED BY <1>2, <2>1, <2>2, <2>3
<1>9. KeepsOrder(E, tree)
  <2>1. DOMAIN tree = 1 .. N /\ DOMAIN E = 1 .. N - 1
    BY <1>2, <1>4
  <2>2. ASSUME NEW i \in DOMAIN E, NEW j \in DOMAIN E, i < j
        PROVE  \E l, m \in DOMAIN tree : l < m /\ tree[l] = E[i] /\ tree[m] = E[j]
    <3>1. i \in 1 .. N - 1 /\ j \in 1 .. N - 1
      BY <2>1
    <3>2. PICK l, m \in 1 .. N : l < m /\ tree[l] = E[i] /\ tree[m] = E[j]
      BY <1>8, <2>2, <3>1
    <3> QED BY <2>1, <3>2
  <2> QED BY ONLY <2>2 DEF KeepsOrder
<1> QED BY <1>4, <1>6, <1>7, <1>9

\* An insertion adds one node between the first i and the others.
LEMMA InsertFacts ==
  ASSUME NEW A, NEW tree \in Seq(A), IsInjective(tree), NEW x \in A, x \notin Range(tree),
         NEW i \in 0 .. Len(tree), NEW X, X = InsertAt(tree, i + 1, x)
  PROVE  /\ X \in Seq(A) /\ IsInjective(X) /\ Range(X) = Range(tree) \cup {x}
         /\ Placed(X, tree, i, x)
<1>2. PICK N \in Nat : N = Len(tree) /\ DOMAIN tree = 1 .. N /\ i \in 0 .. N
  OBVIOUS
<1>3. X = SubSeq(tree, 1, i) \o <<x>> \o SubSeq(tree, i + 1, N)
  <2>1. (i + 1) - 1 = i
    BY <1>2
  <2>2. X = SubSeq(tree, 1, (i + 1) - 1) \o <<x>> \o SubSeq(tree, i + 1, N)
    BY <1>2 DEF InsertAt
  <2> QED BY <2>1, <2>2
<1>4. /\ X \in Seq(A) /\ DOMAIN X = 1 .. N + 1
      /\ \A j \in 1 .. N + 1 : X[j] = IF j <= i THEN tree[j] ELSE IF j = i + 1 THEN x ELSE tree[j - 1]
  <2>0. i + 1 \in Nat \ {0} /\ i \in Nat /\ i \in Int
    BY <1>2
  <2>1. PICK U : U = SubSeq(tree, 1, i) /\ U \in Seq(A) /\ Len(U) = i /\ \A j \in 1 .. i : U[j] = tree[j]
    <3>1. /\ SubSeq(tree, 1, i) \in Seq(A) /\ Len(SubSeq(tree, 1, i)) = i + 1 - 1
          /\ \A j \in 1 .. i + 1 - 1 : SubSeq(tree, 1, i)[j] = tree[1 + j - 1]
      BY <1>2, <2>0, SubSeqFacts
    <3>2. i + 1 - 1 = i /\ \A j \in 1 .. i : 1 + j - 1 = j
      BY <2>0
    <3> QED BY <3>1, <3>2
  <2>2. PICK V : V = SubSeq(tree, i + 1, N) /\ V \in Seq(A) /\ Len(V) = N - i /\ \A j \in 1 .. N - i : V[j] = tree[i + j]
    <3>1. /\ SubSeq(tree, i + 1, N) \in Seq(A) /\ Len(SubSeq(tree, i + 1, N)) = N + 1 - (i + 1)
          /\ \A j \in 1 .. N + 1 - (i + 1) : SubSeq(tree, i + 1, N)[j] = tree[(i + 1) + j - 1]
      BY <1>2, <2>0, SubSeqFacts
    <3>2. N + 1 - (i + 1) = N - i /\ \A j \in 1 .. N - i : (i + 1) + j - 1 = i + j
      BY <1>2, <2>0
    <3> QED BY <3>1, <3>2
  <2>3. PICK O : O = <<x>> /\ O \in Seq(A) /\ Len(O) = 1 /\ O[1] = x
    <3>1. <<x>> \in Seq(A) /\ Len(<<x>>) = 1 /\ <<x>>[1] = x
      BY ONLY x \in A
    <3> QED BY <3>1
  <2>4. PICK Y : Y = U \o O
    OBVIOUS
  <2>5. /\ Y \in Seq(A) /\ Len(Y) = i + 1 /\ (\A j \in 1 .. i : Y[j] = U[j])
        /\ \A j \in i + 1 .. i + 1 : Y[j] = O[j - i]
    BY ONLY <2>1, <2>3, <2>4, ConcatFacts
  <2>6. Y[i + 1] = x
    <3>1. i + 1 \in i + 1 .. i + 1 /\ (i + 1) - i = 1
      BY <2>0
    <3> QED BY <2>3, <2>5, <3>1
  <2>7. /\ X \in Seq(A) /\ Len(X) = (i + 1) + (N - i) /\ (\A j \in 1 .. i + 1 : X[j] = Y[j])
        /\ \A j \in (i + 1) + 1 .. (i + 1) + (N - i) : X[j] = V[j - (i + 1)]
    <3>1. X = Y \o V
      BY <1>3, <2>1, <2>2, <2>3, <2>4
    <3>2. PICK m, n : m = i + 1 /\ n = N - i
      OBVIOUS
    <3>3. m = Len(Y) /\ n = Len(V)
      BY <2>2, <2>5, <3>2
    <3>4. /\ X \in Seq(A) /\ Len(X) = m + n /\ (\A j \in 1 .. m : X[j] = Y[j])
          /\ \A j \in m + 1 .. m + n : X[j] = V[j - m]
      <4>1. Y \in Seq(A) /\ V \in Seq(A)
        BY <2>2, <2>5
      <4> QED BY ONLY <3>1, <3>3, <4>1, ConcatFacts
    <3> QED BY ONLY <3>2, <3>4
  <2>8. ASSUME NEW j \in 1 .. N + 1
        PROVE  X[j] = IF j <= i THEN tree[j] ELSE IF j = i + 1 THEN x ELSE tree[j - 1]
    <3>1. CASE j <= i
      <4>1. j \in 1 .. i + 1 /\ j \in 1 .. i
        BY <2>0, <3>1
      <4> QED BY <2>1, <2>5, <2>7, <3>1, <4>1
    <3>2. CASE j = i + 1
      <4>1. j \in 1 .. i + 1 /\ ~(j <= i)
        BY <2>0, <3>2
      <4> QED BY <2>6, <2>7, <3>2, <4>1
    <3>3. CASE j > i + 1
      <4>1. /\ j \in (i + 1) + 1 .. (i + 1) + (N - i) /\ j - (i + 1) \in 1 .. N - i
            /\ i + (j - (i + 1)) = j - 1 /\ ~(j <= i) /\ j # i + 1
        BY <1>2, <2>0, <3>3
      <4>2. X[j] = V[j - (i + 1)] /\ V[j - (i + 1)] = tree[i + (j - (i + 1))]
        BY <2>2, <2>7, <4>1
      <4> QED BY <4>1, <4>2
    <3> QED BY <2>0, <3>1, <3>2, <3>3
  <2>9. (i + 1) + (N - i) = N + 1
    BY <1>2, <2>0
  <2> QED BY <2>7, <2>8, <2>9
<1>5. (\A j, l \in 1 .. N : tree[j] = tree[l] => j = l) /\ (\A j \in 1 .. N : tree[j] # x)
  BY <1>2 DEF IsInjective, Range
<1>6. IsInjective(X)
  <2>1. ASSUME NEW k \in 1 .. N + 1, NEW j \in 1 .. N + 1, X[k] = X[j] PROVE k = j
    <3>1. CASE k = i + 1
      BY <1>2, <1>4, <1>5, <2>1, <3>1
    <3>2. CASE j = i + 1
      BY <1>2, <1>4, <1>5, <2>1, <3>2
    <3>3. CASE k # i + 1 /\ j # i + 1
      BY <1>2, <1>4, <1>5, <2>1, <3>3
    <3> QED BY <3>1, <3>2, <3>3
  <2> QED BY <1>4, <2>1 DEF IsInjective
<1>7. Range(X) = Range(tree) \cup {x}
  <2>1. ASSUME NEW y \in Range(X) PROVE y \in Range(tree) \cup {x}
    <3>1. PICK j \in 1 .. N + 1 : y = X[j]
      BY <1>4, <2>1 DEF Range
    <3>2. y = x \/ \E l \in 1 .. N : y = tree[l]
      BY <1>2, <1>4, <3>1
    <3> QED BY <1>2, <3>2 DEF Range
  <2>2. ASSUME NEW y \in Range(tree) \cup {x} PROVE y \in Range(X)
    <3>1. CASE y = x
      <4>1. i + 1 \in 1 .. N + 1 /\ X[i + 1] = x
        BY <1>2, <1>4
      <4> QED BY <1>4, <3>1, <4>1 DEF Range
    <3>2. CASE y # x
      <4>1. PICK j \in 1 .. N : y = tree[j]
        BY <1>2, <2>2, <3>2 DEF Range
      <4>2. CASE j <= i
        <5>1. j \in 1 .. N + 1 /\ X[j] = y
          BY <1>2, <1>4, <4>1, <4>2
        <5> QED BY <1>4, <5>1 DEF Range
      <4>3. CASE j > i
        <5>1. j + 1 \in 1 .. N + 1 /\ ~(j + 1 <= i) /\ j + 1 # i + 1 /\ (j + 1) - 1 = j
          BY <1>2, <4>1, <4>3
        <5>2. X[j + 1] = tree[(j + 1) - 1]
          BY <1>4, <5>1
        <5> QED BY <1>4, <4>1, <5>1, <5>2 DEF Range
      <4> QED BY <1>2, <4>1, <4>2, <4>3
    <3> QED BY <3>1, <3>2
  <2> QED BY <2>1, <2>2
<1>8. ASSUME NEW k \in 1 .. N + 1, NEW l \in 1 .. N + 1, k < l
      PROVE  \/ \E m, n \in 1 .. N : m < n /\ tree[m] = X[k] /\ tree[n] = X[l]
             \/ X[l] = x /\ \E m \in 1 .. N : m <= i /\ tree[m] = X[k]
             \/ X[k] = x /\ \E n \in 1 .. N : i < n /\ tree[n] = X[l]
  <2>1. CASE l <= i
    <3>1. k \in 1 .. N /\ l \in 1 .. N /\ X[k] = tree[k] /\ X[l] = tree[l]
      BY <1>2, <1>4, <1>8, <2>1
    <3> QED BY <1>8, <3>1
  <2>2. CASE l = i + 1
    <3>1. k \in 1 .. N /\ k <= i /\ X[k] = tree[k] /\ X[l] = x
      BY <1>2, <1>4, <1>8, <2>2
    <3> QED BY <3>1
  <2>3. CASE l > i + 1 /\ k = i + 1
    <3>1. l - 1 \in 1 .. N /\ i < l - 1 /\ X[l] = tree[l - 1] /\ X[k] = x
      BY <1>2, <1>4, <1>8, <2>3
    <3> QED BY <3>1
  <2>4. CASE l > i + 1 /\ k <= i
    <3>1. l - 1 \in 1 .. N /\ k \in 1 .. N /\ k < l - 1 /\ X[l] = tree[l - 1] /\ X[k] = tree[k]
      BY <1>2, <1>4, <1>8, <2>4
    <3> QED BY <3>1
  <2>5. CASE l > i + 1 /\ k > i + 1
    <3>1. l - 1 \in 1 .. N /\ k - 1 \in 1 .. N /\ k - 1 < l - 1 /\ X[l] = tree[l - 1] /\ X[k] = tree[k - 1]
      BY <1>2, <1>4, <1>8, <2>5
    <3> QED BY <3>1
  <2> QED BY <1>2, <1>8, <2>1, <2>2, <2>3, <2>4, <2>5
<1>9. Placed(X, tree, i, x)
  <2>1. DOMAIN tree = 1 .. N /\ DOMAIN X = 1 .. N + 1
    BY <1>2, <1>4
  <2> QED BY ONLY <1>8, <2>1, Zenon DEF Placed
<1> QED BY <1>4, <1>6, <1>7, <1>9

\* A tree is in its own order, and order goes on from tree to tree.
LEMMA OrderKept ==
  ASSUME NEW t0, NEW t1, NEW t2, KeepsOrder(t1, t0), KeepsOrder(t2, t1)
  PROVE  KeepsOrder(t2, t0)
BY DEF KeepsOrder

\* Nothing taken out, nothing reordered.
LEMMA OrderSelf ==
  ASSUME NEW t
  PROVE  KeepsOrder(t, t)
BY DEF KeepsOrder

Extent(T, L, b) == End(T, L, b) - b

\* A free buffer that goes in where the search for its size ends keeps the tree in order.
LEMMA InsertOrdered ==
  ASSUME NEW T, NEW L \in Nat, T \subseteq 0 .. L - 1, NEW A, NEW tree \in Seq(A), Range(tree) \subseteq T,
         Ordered(tree, T, L), NEW x \in T, NEW i \in 0 .. Len(tree),
         i > 0 => End(T, L, tree[i]) - tree[i] <= End(T, L, x) - x,
         i < Len(tree) => End(T, L, x) - x <= End(T, L, tree[i + 1]) - tree[i + 1],
         NEW X, Placed(X, tree, i, x)
  PROVE  Ordered(X, T, L)
<1>1. \A b \in T : Extent(T, L, b) \in Int
  <2> TAKE b \in T
  <2>1. b \in Int /\ End(T, L, b) \in Int
    <3>1. b \in 0 .. L - 1
      OBVIOUS
    <3>2. End(T, L, b) \in b + 1 .. L
      BY <3>1, EndIs
    <3> QED BY <3>1, <3>2
  <2> QED BY <2>1 DEF Extent
<1>2. \A m \in DOMAIN tree : tree[m] \in T
  BY DEF Range
<1>3. \A m, n \in DOMAIN tree : m < n => Extent(T, L, tree[m]) <= Extent(T, L, tree[n])
  BY DEF Ordered, Extent
<1>4. i > 0 => Extent(T, L, tree[i]) <= Extent(T, L, x)
  BY DEF Extent
<1>5. i < Len(tree) => Extent(T, L, x) <= Extent(T, L, tree[i + 1])
  BY DEF Extent
<1>6. DOMAIN tree = 1 .. Len(tree) /\ Len(tree) \in Nat
  OBVIOUS
<1>7. SUFFICES ASSUME NEW k \in DOMAIN X, NEW l \in DOMAIN X, k < l PROVE Extent(T, L, X[k]) <= Extent(T, L, X[l])
  BY DEF Ordered, Extent
<1>8. CASE \E m, n \in DOMAIN tree : m < n /\ tree[m] = X[k] /\ tree[n] = X[l]
  BY <1>3, <1>8
<1>9. CASE X[l] = x /\ \E m \in DOMAIN tree : m <= i /\ tree[m] = X[k]
  <2>1. PICK m \in DOMAIN tree : m <= i /\ tree[m] = X[k]
    BY <1>9
  <2>2. i > 0 /\ i \in DOMAIN tree
    BY <1>6, <2>1
  <2>4. Extent(T, L, tree[m]) \in Int /\ Extent(T, L, tree[i]) \in Int /\ Extent(T, L, x) \in Int
    BY <1>1, <1>2, <2>1, <2>2
  <2>3. Extent(T, L, tree[m]) <= Extent(T, L, tree[i])
    <3>1. CASE m = i
      BY <2>4, <3>1
    <3>2. CASE m < i
      BY <1>3, <2>2, <3>2
    <3> QED BY <1>6, <2>1, <3>1, <3>2
  <2> QED BY <1>4, <1>9, <2>1, <2>2, <2>3, <2>4
<1>10. CASE X[k] = x /\ \E n \in DOMAIN tree : i < n /\ tree[n] = X[l]
  <2>1. PICK n \in DOMAIN tree : i < n /\ tree[n] = X[l]
    BY <1>10
  <2>2. i < Len(tree) /\ i + 1 \in DOMAIN tree
    BY <1>6, <2>1
  <2>4. Extent(T, L, tree[n]) \in Int /\ Extent(T, L, tree[i + 1]) \in Int /\ Extent(T, L, x) \in Int
    BY <1>1, <1>2, <2>1, <2>2
  <2>3. Extent(T, L, tree[i + 1]) <= Extent(T, L, tree[n])
    <3>1. CASE n = i + 1
      BY <2>4, <3>1
    <3>2. CASE i + 1 < n
      BY <1>3, <2>2, <3>2
    <3> QED BY <1>6, <2>1, <3>1, <3>2
  <2> QED BY <1>5, <1>10, <2>1, <2>2, <2>3, <2>4
<1> QED BY <1>7, <1>8, <1>9, <1>10 DEF Placed

\* A buffer can be put into the tree where its size belongs.
GapFor(tree, T, L, x, i) ==
  /\ i \in 0 .. Len(tree)
  /\ i > 0 => End(T, L, tree[i]) - tree[i] <= End(T, L, x) - x
  /\ i < Len(tree) => End(T, L, x) - x < End(T, L, tree[i + 1]) - tree[i + 1]

LessPrev(tree, S, F, a) == IF WithPrev(S, F, a) THEN rb_erase(tree, PrevOf(S, a)) ELSE tree
LessNextTree(tree, S, F, L, a) == IF End(S, L, a) \in F THEN rb_erase(tree, End(S, L, a)) ELSE tree

\* The tree after a free: the free neighbours have left it and the joined buffer has gone in.
LEMMA JoinedTree ==
  ASSUME NEW S, NEW F, NEW L, Tiling(S, F, L), NEW a \in S, a \notin F, S \subseteq Addr,
         NEW tree, TreeOf(tree, S, F, L),
         NEW T, T = Joined(S, F, L, a), NEW k, k = Kept(S, F, a),
         NEW t1, t1 = LessNextTree(tree, S, F, L, a), NEW t2, t2 = LessPrev(t1, S, F, a),
         NEW i, GapFor(t2, T, L, k, i), NEW X, X = InsertAt(t2, i + 1, k)
  PROVE  TreeOf(X, T, (T \cap F) \cup {k}, L)
<1>1. PICK n : n = End(S, L, a)
  OBVIOUS
<1>2. /\ T \subseteq S /\ k \in T /\ k \in F \cup {a}
      /\ \A b \in T : b # k => b # a /\ End(T, L, b) = End(S, L, b)
  <2>1. JoinedOk(S, F, L, a, T, k)
    BY ONLY Tiling(S, F, L), a \in S, a \notin F, T = Joined(S, F, L, a), k = Kept(S, F, a), JoinedFacts
  <2> QED BY <2>1 DEF JoinedOk
<1>3. tree \in Seq(Addr) /\ Range(tree) = F /\ IsInjective(tree) /\ Ordered(tree, S, L)
  BY DEF TreeOf
<1>4. L \in Nat /\ S \subseteq 0 .. L - 1 /\ a \in Int /\ n \in Int /\ a < n /\ F \subseteq S
  <2>1. L \in Nat /\ S \subseteq 0 .. L - 1 /\ a \in Int /\ n \in Int /\ a < n
    BY <1>1, TilingFacts
  <2>2. F \subseteq S
    BY DEF Tiling
  <2> QED BY <2>1, <2>2
<1>5. t1 \in Seq(Addr) /\ IsInjective(t1) /\ Range(t1) = F \ {n} /\ KeepsOrder(t1, tree)
  <2>1. CASE n \in F
    <3>1. t1 = rb_erase(tree, n)
      BY <1>1, <2>1 DEF LessNextTree
    <3> QED BY <1>3, <2>1, <3>1, EraseFacts
  <2>2. CASE n \notin F
    <3>1. t1 = tree
      BY <1>1, <2>2 DEF LessNextTree
    <3> QED BY <1>3, <2>2, <3>1, OrderSelf
  <2> QED BY <2>1, <2>2
<1>6. t2 \in Seq(Addr) /\ IsInjective(t2) /\ KeepsOrder(t2, tree) /\ Range(t2) = (T \cap F) \ {k}
  <2>1. CASE WithPrev(S, F, a)
    <3>1. PICK q \in F : q < a /\ q = PrevOf(S, a)
      BY <2>1 DEF WithPrev
    <3>2. q # n /\ q # a
      <4>1. q \in Int
        BY <1>4, <3>1
      <4> QED BY <1>4, <3>1, <4>1
    <3>3. t2 = rb_erase(t1, q) /\ q \in Range(t1) /\ k = q
      BY <1>5, <2>1, <3>1, <3>2 DEF LessPrev, Kept
    <3>4. t2 \in Seq(Addr) /\ IsInjective(t2) /\ Range(t2) = Range(t1) \ {q} /\ KeepsOrder(t2, t1)
      BY <1>5, <3>3, EraseFacts
    <3>5. KeepsOrder(t2, tree)
      BY <1>5, <3>4, OrderKept
    <3>6. T \cap F = F \ {n}
      BY <1>1, <1>4, <2>1 DEF Joined, LessNext
    <3> QED BY <1>5, <3>3, <3>4, <3>5, <3>6
  <2>2. CASE ~WithPrev(S, F, a)
    <3>1. t2 = t1 /\ k = a
      BY <2>2 DEF LessPrev, Kept
    <3>2. T \cap F = F \ {n}
      BY <1>1, <1>4, <2>2 DEF Joined, LessNext
    <3> QED BY <1>5, <3>1, <3>2
  <2> QED BY <2>1, <2>2
<1>7. Ordered(t2, T, L)
  <2>1. SUFFICES ASSUME NEW l \in DOMAIN t2, NEW m \in DOMAIN t2, l < m
                 PROVE  End(T, L, t2[l]) - t2[l] <= End(T, L, t2[m]) - t2[m]
    BY DEF Ordered
  <2>2. t2[l] \in T /\ t2[l] # k /\ t2[m] \in T /\ t2[m] # k
    BY <1>6 DEF Range
  <2>3. End(T, L, t2[l]) = End(S, L, t2[l]) /\ End(T, L, t2[m]) = End(S, L, t2[m])
    BY <1>2, <2>2
  <2>4. PICK u, v \in DOMAIN tree : u < v /\ tree[u] = t2[l] /\ tree[v] = t2[m]
    BY <1>6, <2>1 DEF KeepsOrder
  <2>5. End(S, L, tree[u]) - tree[u] <= End(S, L, tree[v]) - tree[v]
    BY <1>3, <2>4 DEF Ordered
  <2> QED BY <2>3, <2>4, <2>5
<1>8. i \in 0 .. Len(t2) /\ k \in Addr /\ k \notin Range(t2)
  BY <1>2, <1>6 DEF GapFor
<1>9. X \in Seq(Addr) /\ IsInjective(X) /\ Range(X) = Range(t2) \cup {k} /\ Placed(X, t2, i, k)
  BY <1>6, <1>8, InsertFacts
<1>10. Ordered(X, T, L)
  <2>1. T \subseteq 0 .. L - 1 /\ Range(t2) \subseteq T
    BY <1>2, <1>4, <1>6
  <2>2. i > 0 => End(T, L, t2[i]) - t2[i] <= End(T, L, k) - k
    BY DEF GapFor
  <2>3. i < Len(t2) => End(T, L, k) - k <= End(T, L, t2[i + 1]) - t2[i + 1]
    <3>1. SUFFICES ASSUME i < Len(t2) PROVE End(T, L, k) - k <= End(T, L, t2[i + 1]) - t2[i + 1]
      OBVIOUS
    <3>2. t2[i + 1] \in T
      BY <1>6, <1>8, <2>1, <3>1 DEF Range
    <3>3. \A b \in T : b \in Int /\ End(T, L, b) \in Int
      BY <1>4, <2>1, EndIs
    <3> QED BY <1>2, <3>1, <3>2, <3>3 DEF GapFor
  <2> QED BY <1>2, <1>4, <1>6, <1>7, <1>8, <1>9, <2>1, <2>2, <2>3, InsertOrdered
<1> QED BY <1>6, <1>9, <1>10 DEF TreeOf

\* The tree when a free buffer is taken whole.
LEMMA TakenTree ==
  ASSUME NEW S, NEW F, NEW L, NEW tree, TreeOf(tree, S, F, L), NEW a \in F, NEW E, E = rb_erase(tree, a)
  PROVE  TreeOf(E, S, F \ {a}, L)
<1>1. tree \in Seq(Addr) /\ Range(tree) = F /\ IsInjective(tree) /\ Ordered(tree, S, L)
  BY DEF TreeOf
<1>2. E \in Seq(Addr) /\ IsInjective(E) /\ Range(E) = F \ {a} /\ KeepsOrder(E, tree)
  BY <1>1, EraseFacts
<1>3. Ordered(E, S, L)
  <2>1. SUFFICES ASSUME NEW l \in DOMAIN E, NEW m \in DOMAIN E, l < m
                 PROVE  End(S, L, E[l]) - E[l] <= End(S, L, E[m]) - E[m]
    BY DEF Ordered
  <2>2. PICK u, v \in DOMAIN tree : u < v /\ tree[u] = E[l] /\ tree[v] = E[m]
    BY <1>2, <2>1 DEF KeepsOrder
  <2>3. End(S, L, tree[u]) - tree[u] <= End(S, L, tree[v]) - tree[v]
    BY <1>1, <2>2 DEF Ordered
  <2> QED BY <2>2, <2>3
<1> QED BY <1>2, <1>3 DEF TreeOf

\* The search ended at a because the one before it in the tree is too small for s bytes.
FoundAt(tree, S, L, a, s) ==
  \E k \in DOMAIN tree : tree[k] = a /\ (k > 1 => Extent(S, L, tree[k - 1]) < s)

\* Where the rest of a cut buffer goes in, although a is still in the tree with its new, smaller
\* size: all that matters is that what is before it is not larger and what is behind not smaller.
LEMMA CutGap ==
  ASSUME NEW S, NEW F, NEW L, Tiling(S, F, L), NEW a \in F, NEW s \in Nat, 0 < s, s <= End(S, L, a) - a,
         NEW T, T = Cut(S, L, a, s), a + s # End(S, L, a),
         NEW tree, TreeOf(tree, S, F, L), FoundAt(tree, S, L, a, s),
         NEW i, GapFor(tree, T, L, a + s, i), NEW j \in DOMAIN tree, tree[j] # a
  PROVE  /\ j <= i => Extent(T, L, tree[j]) <= Extent(T, L, a + s)
         /\ j > i => Extent(T, L, a + s) <= Extent(T, L, tree[j])
<1>0. PICK G : G = CutFree(S, F, L, a, s)
  OBVIOUS
<1>1. CutOk(S, F, L, a, s, T, G)
  BY <1>0, CutFacts
<1>2. /\ S \subseteq T /\ a \in S /\ a + s \in T /\ End(T, L, a) = a + s
      /\ \A b \in S : b # a => End(T, L, b) = End(S, L, b)
      /\ End(T, L, a + s) = End(S, L, a) /\ T \subseteq 0 .. L - 1 /\ L \in Nat
  BY <1>1 DEF CutOk, Cut, Tiling
<1>3. F \subseteq S /\ (\A b \in S : b \in Int /\ End(S, L, b) \in Int) /\ a + s \in Int
  <2>1. F \subseteq S
    BY DEF Tiling
  <2>2. \A b \in S : b \in Int /\ End(S, L, b) \in Int
    BY TilingFacts
  <2> QED BY <1>2, <2>1, <2>2
<1>4. PICK x \in Int : x = Extent(T, L, a + s) /\ x = End(S, L, a) - (a + s)
  BY <1>2, <1>3 DEF Extent
<1>5. Extent(T, L, a) = s /\ Extent(S, L, a) = s + x
  <2>1. a \in Int /\ End(S, L, a) \in Int
    BY <1>2, <1>3
  <2>2. Extent(T, L, a) = s
    BY <1>2, <2>1 DEF Extent
  <2> QED BY <1>4, <2>1, <2>2 DEF Extent
<1>6. \A b \in F : b # a => Extent(T, L, b) = Extent(S, L, b) /\ Extent(S, L, b) \in Int
  BY <1>2, <1>3 DEF Extent
<1>7. /\ DOMAIN tree = 1 .. Len(tree) /\ Len(tree) \in Nat /\ (\A m \in DOMAIN tree : tree[m] \in F)
      /\ \A m, n \in DOMAIN tree : tree[m] = tree[n] => m = n
      /\ \A m, n \in DOMAIN tree : m < n => Extent(S, L, tree[m]) <= Extent(S, L, tree[n])
  BY DEF TreeOf, Range, IsInjective, Ordered, Extent
<1>8. /\ i \in 0 .. Len(tree)
      /\ i > 0 => Extent(T, L, tree[i]) <= x
      /\ i < Len(tree) => x < Extent(T, L, tree[i + 1])
  BY <1>4 DEF GapFor, Extent
<1>9. PICK k \in DOMAIN tree : tree[k] = a /\ (k > 1 => Extent(S, L, tree[k - 1]) < s)
  BY DEF FoundAt
<1>10. j # k /\ j \in Int /\ k \in Int /\ i \in Int /\ tree[j] \in F
  BY <1>7, <1>8, <1>9
<1>11. PICK y \in Int : y = Extent(T, L, tree[j]) /\ y = Extent(S, L, tree[j])
  BY <1>6, <1>10
<1>12. ASSUME j <= i PROVE y <= x
  <2>1. i > 0 /\ i \in DOMAIN tree
    BY <1>7, <1>8, <1>12
  <2>2. CASE i # k
    <3>1. tree[i] # a /\ tree[i] \in F
      BY <1>7, <1>9, <2>1, <2>2
    <3>2. PICK z \in Int : z = Extent(T, L, tree[i]) /\ z = Extent(S, L, tree[i])
      BY <1>6, <3>1
    <3>3. y <= z
      <4>1. CASE j = i
        BY <1>11, <3>2, <4>1
      <4>2. CASE j < i
        BY <1>7, <1>11, <2>1, <3>2, <4>2
      <4> QED BY <1>10, <1>12, <4>1, <4>2
    <3> QED BY <1>8, <2>1, <3>2, <3>3
  <2>3. CASE i = k
    <3>1. k > 1 /\ k - 1 \in DOMAIN tree /\ j <= k - 1 /\ k - 1 # k
      BY <1>7, <1>10, <1>12, <2>3
    <3>2. tree[k - 1] # a /\ tree[k - 1] \in F
      BY <1>7, <1>9, <3>1
    <3>3. PICK z \in Int : z = Extent(S, L, tree[k - 1])
      BY <1>6, <3>2
    <3>4. y <= z
      <4>1. CASE j = k - 1
        BY <1>11, <3>3, <4>1
      <4>2. CASE j < k - 1
        BY <1>7, <1>11, <3>1, <3>3, <4>2
      <4> QED BY <1>10, <3>1, <4>1, <4>2
    <3>5. z < s /\ s <= x
      BY <1>5, <1>8, <1>9, <2>1, <2>3, <3>1, <3>3
    <3> QED BY <3>4, <3>5
  <2> QED BY <2>2, <2>3
<1>13. ASSUME j > i PROVE x <= y
  <2>1. i < Len(tree) /\ i + 1 \in DOMAIN tree /\ i + 1 <= j
    BY <1>7, <1>8, <1>10, <1>13
  <2>2. CASE i + 1 # k
    <3>1. tree[i + 1] # a /\ tree[i + 1] \in F
      BY <1>7, <1>9, <2>1, <2>2
    <3>2. PICK z \in Int : z = Extent(T, L, tree[i + 1]) /\ z = Extent(S, L, tree[i + 1])
      BY <1>6, <3>1
    <3>3. z <= y
      <4>1. CASE j = i + 1
        BY <1>11, <3>2, <4>1
      <4>2. CASE i + 1 < j
        BY <1>7, <1>11, <2>1, <3>2, <4>2
      <4> QED BY <1>10, <2>1, <4>1, <4>2
    <3> QED BY <1>8, <2>1, <3>2, <3>3
  <2>3. CASE i + 1 = k
    <3>1. k < j
      BY <1>10, <2>1, <2>3
    <3>2. Extent(S, L, a) <= y
      BY <1>7, <1>9, <1>11, <3>1
    <3> QED BY <1>5, <3>2
  <2> QED BY <2>2, <2>3
<1> QED BY <1>4, <1>10, <1>11, <1>12, <1>13

\* The tree when a free buffer is cut: its rest has gone in, then the buffer has left.
LEMMA CutTree ==
  ASSUME NEW S, NEW F, NEW L, Tiling(S, F, L), NEW a \in F, NEW s \in Nat, 0 < s, s <= End(S, L, a) - a,
         NEW T, T = Cut(S, L, a, s), a + s # End(S, L, a), a + s \in Addr,
         NEW G, G = CutFree(S, F, L, a, s),
         NEW tree, TreeOf(tree, S, F, L), FoundAt(tree, S, L, a, s),
         NEW i, GapFor(tree, T, L, a + s, i),
         NEW X, X = InsertAt(tree, i + 1, a + s), NEW E, E = rb_erase(X, a)
  PROVE  TreeOf(E, T, G, L)
<1>1. CutOk(S, F, L, a, s, T, G)
  BY CutFacts
<1>2. /\ a + s \notin S /\ G = (F \ {a}) \cup {a + s} /\ F \subseteq S /\ a \in S /\ S \subseteq T /\ a + s # a
      /\ \A b \in S : b # a => End(T, L, b) = End(S, L, b)
  BY <1>1 DEF CutOk, CutFree, Tiling
<1>3. tree \in Seq(Addr) /\ Range(tree) = F /\ IsInjective(tree) /\ Ordered(tree, S, L)
  BY DEF TreeOf
<1>4. i \in 0 .. Len(tree) /\ a + s \notin Range(tree)
  BY <1>2, <1>3 DEF GapFor
<1>5. X \in Seq(Addr) /\ IsInjective(X) /\ Range(X) = F \cup {a + s} /\ Placed(X, tree, i, a + s)
  BY <1>3, <1>4, InsertFacts
<1>6. E \in Seq(Addr) /\ IsInjective(E) /\ Range(E) = G /\ KeepsOrder(E, X)
  <2>1. a \in Range(X)
    BY <1>5
  <2>2. E \in Seq(Addr) /\ IsInjective(E) /\ Range(E) = Range(X) \ {a} /\ KeepsOrder(E, X)
    BY <1>5, <2>1, EraseFacts
  <2> QED BY <1>2, <1>5, <2>2
<1>7. \A j \in DOMAIN tree : tree[j] # a =>
        /\ j <= i => Extent(T, L, tree[j]) <= Extent(T, L, a + s)
        /\ j > i => Extent(T, L, a + s) <= Extent(T, L, tree[j])
  BY CutGap
<1>8. Ordered(E, T, L)
  <2>1. SUFFICES ASSUME NEW l \in DOMAIN E, NEW m \in DOMAIN E, l < m
                 PROVE  Extent(T, L, E[l]) <= Extent(T, L, E[m])
    BY DEF Ordered, Extent
  <2>2. PICK u, v \in DOMAIN X : u < v /\ X[u] = E[l] /\ X[v] = E[m]
    BY <1>6, <2>1 DEF KeepsOrder
  <2>3. X[u] # a /\ X[v] # a
    BY <1>2, <1>6, <2>2 DEF Range
  <2>4. CASE \E b, c \in DOMAIN tree : b < c /\ tree[b] = X[u] /\ tree[c] = X[v]
    <3>1. PICK b, c \in DOMAIN tree : b < c /\ tree[b] = X[u] /\ tree[c] = X[v]
      BY <2>4
    <3>2. tree[b] \in S /\ tree[c] \in S
      BY <1>2, <1>3 DEF Range
    <3>3. End(T, L, tree[b]) = End(S, L, tree[b]) /\ End(T, L, tree[c]) = End(S, L, tree[c])
      BY <1>2, <2>3, <3>1, <3>2
    <3>4. End(S, L, tree[b]) - tree[b] <= End(S, L, tree[c]) - tree[c]
      BY <1>3, <3>1 DEF Ordered
    <3> QED BY <2>2, <3>1, <3>3, <3>4 DEF Extent
  <2>5. CASE X[v] = a + s /\ \E b \in DOMAIN tree : b <= i /\ tree[b] = X[u]
    BY <1>7, <2>2, <2>3, <2>5
  <2>6. CASE X[u] = a + s /\ \E c \in DOMAIN tree : i < c /\ tree[c] = X[v]
    <3>1. PICK c \in DOMAIN tree : i < c /\ tree[c] = X[v]
      BY <2>6
    <3>2. c > i
      BY <1>3, <1>4, <3>1
    <3> QED BY <1>7, <2>2, <2>3, <2>6, <3>1, <3>2
  <2> QED BY <1>5, <2>2, <2>4, <2>5, <2>6 DEF Placed
<1> QED BY <1>6, <1>8 DEF TreeOf

-----------------------------------------------------------------------------
(* The size of a request.                                                  *)

\* Rounding up to a word: the result is the next multiple of it, unless that is beyond size_t.
LEMMA AlignFacts ==
  ASSUME NEW n \in 0 .. SizeT - 1
  PROVE  /\ Align(n) \in Nat /\ Align(n) <= SizeT - Word
         /\ (n <= Align(n) /\ Align(n) < n + Word) \/ (Align(n) = 0 /\ n > SizeT - Word)
<1>1. /\ Word \in Nat \ {0} /\ SizeT \in Nat /\ SizeT % Word = 0
  BY AllocAssumption
<1>2. PICK m \in Int : m = SizeT \div Word /\ SizeT = Word * m
  BY <1>1
<1>3. PICK q \in Int : q = (n + Word - 1) \div Word
  BY <1>1
<1>4. n <= Word * q /\ Word * q < n + Word
  BY <1>1, <1>3
<1>5. n \in Int /\ 0 <= n /\ n < SizeT
  BY <1>1
<1>6. q <= m /\ 0 <= q
  <2>1. CASE q > m
    <3>1. q >= m + 1
      BY <2>1
    <3>2. Word * q >= Word * (m + 1)
      BY <1>1, <3>1
    <3>3. Word * (m + 1) = SizeT + Word
      BY <1>1, <1>2
    <3> QED BY <1>1, <1>4, <1>5, <3>2, <3>3
  <2>2. CASE q < 0
    <3>1. Word * q < 0
      BY <1>1, <2>2
    <3> QED BY <1>1, <1>4, <1>5, <3>1
  <2> QED BY <2>1, <2>2
<1>7. PICK x \in Int : x = Word * q /\ x = q * Word
  BY <1>1
<1>8. Align(n) = x % SizeT
  BY <1>3, <1>7 DEF Align
<1>9. CASE q < m
  <2>1. q <= m - 1 /\ Word * (m - 1) = SizeT - Word
    BY <1>1, <1>2, <1>9
  <2>2. Word * q <= Word * (m - 1)
    BY <1>1, <2>1
  <2>3. x <= SizeT - Word /\ 0 <= x
    BY <1>1, <1>4, <1>5, <1>7, <2>1, <2>2
  <2>4. x % SizeT = x
    BY <1>1, <2>3
  <2> QED BY <1>4, <1>5, <1>7, <1>8, <2>3, <2>4
<1>10. CASE q = m
  <2>1. x = SizeT /\ SizeT > 0
    BY <1>2, <1>5, <1>7, <1>10
  <2>2. x % SizeT = 0
    BY <1>1, <2>1
  <2>3. Word <= SizeT
    <3>1. m >= 1
      <4>1. CASE m <= 0
        <5>1. Word * m <= 0
          BY <1>1, <4>1
        <5> QED BY <1>1, <1>2, <2>1, <5>1
      <4> QED BY <4>1
    <3>2. Word * m >= Word * 1
      BY <1>1, <3>1
    <3> QED BY <1>1, <1>2, <3>2
  <2> QED BY <1>1, <1>4, <1>5, <1>7, <1>8, <2>1, <2>2, <2>3
<1> QED BY <1>6, <1>9, <1>10

\* The larger of two numbers.
LEMMA MaxOfTwo ==
  ASSUME NEW x \in Int, NEW y \in Int
  PROVE  Max({x, y}) \in {x, y} /\ x <= Max({x, y}) /\ y <= Max({x, y})
<1>1. CASE x >= y
  <2>1. x \in {x, y} /\ \A z \in {x, y} : x >= z
    BY <1>1
  <2>2. Max({x, y}) \in {x, y} /\ \A z \in {x, y} : Max({x, y}) >= z
    BY <2>1 DEF Max
  <2> QED BY <2>2
<1>2. CASE x < y
  <2>1. y \in {x, y} /\ \A z \in {x, y} : y >= z
    BY <1>2
  <2>2. Max({x, y}) \in {x, y} /\ \A z \in {x, y} : Max({x, y}) >= z
    BY <2>1 DEF Max
  <2> QED BY <2>2
<1> QED BY <1>1, <1>2

SizesOk(r, n) ==
  /\ n \in Nat /\ 0 < n /\ RequestSize(r) \in Nat /\ RequestSize(r) <= n
  /\ r.data \in Nat /\ r.offsets \in Nat /\ Align(r.data) \in Nat
  /\ r.data <= n /\ Align(r.data) + r.offsets <= n

\* The overflow checks of binder_alloc_new_buf_locked are enough: a request that passes them
\* gets a buffer with room for its data and, behind them, its offsets.
LEMMA SizeFacts ==
  ASSUME NEW r \in Requests, SizeValid(r)
  PROVE  SizesOk(r, PaddedSize(r))
<1>1. r.data \in 0 .. SizeT - 1 /\ r.offsets \in 0 .. SizeT - 1 /\ r.extra \in 0 .. SizeT - 1
  BY AllocAssumption
<1>2. Word \in Nat \ {0} /\ SizeT \in Nat
  BY AllocAssumption
<1>3. PICK d, o : d = r.data /\ o = r.offsets /\ d \in Int /\ o \in Int /\ d >= 0 /\ o >= 0 /\ d < SizeT /\ o < SizeT
  BY <1>1, <1>2
<1>4. PICK ad \in Int : /\ ad = Align(r.data) /\ 0 <= ad /\ ad <= SizeT - Word
                        /\ (d <= ad /\ ad < d + Word) \/ (ad = 0 /\ d > SizeT - Word)
  <2>1. /\ Align(r.data) \in Nat /\ Align(r.data) <= SizeT - Word
        /\ (r.data <= Align(r.data) /\ Align(r.data) < r.data + Word) \/ (Align(r.data) = 0 /\ r.data > SizeT - Word)
    BY <1>1, AlignFacts
  <2> QED BY <1>3, <2>1
<1>5. PICK ao \in Int : /\ ao = Align(r.offsets) /\ 0 <= ao /\ ao <= SizeT - Word
                        /\ (o <= ao /\ ao < o + Word) \/ (ao = 0 /\ o > SizeT - Word)
  <2>1. /\ Align(r.offsets) \in Nat /\ Align(r.offsets) <= SizeT - Word
        /\ \/ (r.offsets <= Align(r.offsets) /\ Align(r.offsets) < r.offsets + Word)
           \/ (Align(r.offsets) = 0 /\ r.offsets > SizeT - Word)
    BY <1>1, AlignFacts
  <2> QED BY <1>3, <2>1
<1>6. Align(r.extra) \in Nat
  BY <1>1, AlignFacts
<1>7. PICK t \in Int : t = DataOffsetsSize(r) /\ t = (ad + ao) % SizeT
  BY <1>2, <1>4, <1>5 DEF DataOffsetsSize
<1>8. PICK z \in Int : z = RequestSize(r) /\ 0 <= z /\ z < SizeT
  <2>1. SizeT > 0
    BY <1>2, <1>3
  <2> QED BY <1>2, <1>6, <1>7, <2>1 DEF RequestSize
<1>9. t >= d /\ t >= o /\ z >= t
  BY <1>3, <1>7, <1>8 DEF SizeValid
<1>10. ad + ao < SizeT
  <2>1. SUFFICES ASSUME ad + ao >= SizeT PROVE FALSE
    BY <1>2, <1>4, <1>5
  <2>2. (ad + ao) % SizeT = ad + ao - SizeT
    BY <1>2, <1>3, <1>4, <1>5, <2>1
  <2> QED BY <1>2, <1>3, <1>4, <1>5, <1>7, <1>9, <2>1, <2>2
<1>11. t = ad + ao
  BY <1>2, <1>4, <1>5, <1>7, <1>10
<1>12. o <= ao
  BY <1>2, <1>3, <1>4, <1>5, <1>9, <1>11
<1>13. PICK n \in Int : n = PaddedSize(r) /\ n >= z /\ n >= Word
  <2>1. PICK n : n = PaddedSize(r)
    OBVIOUS
  <2>2. n = Max({z, Word})
    BY <1>8, <2>1 DEF PaddedSize
  <2>3. Max({z, Word}) \in {z, Word} /\ z <= Max({z, Word}) /\ Word <= Max({z, Word})
    <3>1. z \in Int /\ Word \in Int
      BY <1>2
    <3> QED BY ONLY <3>1, MaxOfTwo
  <2> QED BY <1>2, <2>1, <2>2, <2>3
<1>14. /\ n \in Nat /\ 0 < n /\ z \in Nat /\ z <= n /\ d \in Nat /\ o \in Nat /\ ad \in Nat
       /\ d <= n /\ ad + o <= n
  BY <1>2, <1>3, <1>4, <1>8, <1>9, <1>11, <1>12, <1>13
<1> QED BY <1>3, <1>4, <1>8, <1>13, <1>14 DEF SizesOk

-----------------------------------------------------------------------------
(* The heap in a state of the program.                                     *)

\* What LayoutInv says, with short names for the list, the free ones in it and the end.
LEMMA LayoutFacts ==
  ASSUME LayoutInv, NEW S, S = Starts, NEW F, F = FreeIn(Starts), NEW L, L = buffer_size
  PROVE  /\ Tiling(S, F, L) /\ TreeOf(free_buffers, S, F, L) /\ allocated_buffers = S \ F
         /\ S # {} => L = Length
         /\ S \subseteq Addr /\ F \subseteq S /\ \A b \in S : buffers[b] \in BufferRecord
         /\ \A b \in S : b \in F <=> buffers[b].free
         /\ \A b \in F : buffers[b] = FreeBuffer
         /\ \A p \in Page : pages[p] = Active <=> \E b \in S \ F : Touches(S, L, b, p)
<1>1. /\ Tiling(S, F, L) /\ TreeOf(free_buffers, S, F, L) /\ allocated_buffers = S \ F
      /\ \A b \in F : buffers[b] = FreeBuffer
      /\ buffer_size \in {0, Length} /\ (buffer_size = 0 => Starts = {})
  BY DEF LayoutInv, HeapType
<1>2. S \subseteq Addr /\ \A b \in S : buffers[b] \in BufferRecord
  BY DEF LayoutInv, HeapType
<1>3. F \subseteq S /\ \A b \in S : b \in F <=> buffers[b].free
  BY DEF FreeIn
<1>4. \A p \in Page : pages[p] = Active <=> \E b \in S \ F : Touches(S, L, b, p)
  BY <1>1 DEF LayoutInv
<1>5. S # {} => L = Length
  BY <1>1
<1> QED BY <1>1, <1>2, <1>3, <1>4, <1>5

\* Every buffer ends inside the mapping, with EndOf and End the same thing.
LEMMA EndOfIsEnd ==
  \A S, b : EndOf(S, b) = End(S, buffer_size, b)
BY DEF EndOf, End

FreeEffect(a, S, F, L, T, k, t2, W) ==
  /\ pages' = PutOnLru(W) /\ allocated_buffers' = allocated_buffers \ {a}
  /\ buffers' = [b \in T |-> IF b = k THEN FreeBuffer ELSE buffers[b]]
  /\ free_buffers' \in Inserted(t2, T, k)
  /\ free_async_space' = IF buffers[a].req.async
                           THEN (free_async_space + AsyncGivenBack(buffers[a].req)) % SizeT
                           ELSE free_async_space
  /\ failed' = failed
       \cup Warn(buffers[a].free, "freed twice")
       \cup Warn(RequestSize(buffers[a].req) > End(S, L, a) - a, "buffer too small")
       \cup Warn(buffers[a].transaction # None, "freed with its transaction")
       \cup Warn(\/ LruAddWarns(W)
                 \/ FreedNext(S, F, L, a) \cap FreedPrev(S, F, L, a) # {}
                 \/ FreedWhole(S, L, a) \cap (FreedNext(S, F, L, a) \cup FreedPrev(S, F, L, a)) # {},
                 "lru_add")

\* binder_free_buf_locked, in the terms of the lemmas above.
LEMMA FreeExplicit ==
  ASSUME NEW a, FreeBufLocked(a),
         NEW S, S = Starts, NEW F, F = FreeIn(Starts), NEW L, L = buffer_size,
         NEW t1, t1 = LessNextTree(free_buffers, S, F, L, a), NEW t2, t2 = LessPrev(t1, S, F, a),
         NEW W, W = FreedWhole(S, L, a) \cup FreedNext(S, F, L, a) \cup FreedPrev(S, F, L, a),
         NEW T, T = Joined(S, F, L, a), NEW k, k = Kept(S, F, a)
  PROVE  FreeEffect(a, S, F, L, T, k, t2, W)
<1>1. /\ \A Q, b : EndOf(Q, b) = End(Q, L, b)
      /\ \A Q, b : DeletePages(Q, b) = DelPages(Q, L, b)
      /\ MergesNext(a) <=> End(S, L, a) \in F
      /\ MergesPrev(a) <=> WithPrev(S, F, a)
  BY EndOfIsEnd DEF MergesNext, MergesPrev, WithPrev, DeletePages, DelPages
<1>2. PICK n, q : n = End(S, L, a) /\ q = PrevOf(S, a)
  OBVIOUS
<1> DEFINE U == IF n \in F THEN S \ {n} ELSE S
           kk == IF WithPrev(S, F, a) THEN q ELSE a
           TT == IF WithPrev(S, F, a) THEN U \ {a} ELSE U
           w == PageUp(a) .. PageOf(n) - 1
           x == IF n \in F THEN DelPages(S, L, n) ELSE {}
           y == IF WithPrev(S, F, a) THEN DelPages(U, L, a) ELSE {}
           r1 == IF n \in F THEN rb_erase(free_buffers, n) ELSE free_buffers
           r2 == IF WithPrev(S, F, a) THEN rb_erase(r1, q) ELSE r1
<1>3. /\ pages' = PutOnLru(w \cup x \cup y) /\ allocated_buffers' = allocated_buffers \ {a}
      /\ buffers' = [b \in TT |-> IF b = kk THEN FreeBuffer ELSE buffers[b]]
      /\ free_buffers' \in Inserted(r2, TT, kk)
      /\ free_async_space' = IF buffers[a].req.async
                               THEN (free_async_space + AsyncGivenBack(buffers[a].req)) % SizeT
                               ELSE free_async_space
      /\ failed' = failed
           \cup Warn(buffers[a].free, "freed twice")
           \cup Warn(RequestSize(buffers[a].req) > n - a, "buffer too small")
           \cup Warn(buffers[a].transaction # None, "freed with its transaction")
           \cup Warn(LruAddWarns(w \cup x \cup y) \/ x \cap y # {} \/ w \cap (x \cup y) # {}, "lru_add")
  BY <1>1, <1>2 DEF FreeBufLocked
<1>4. /\ U = LessNext(S, F, L, a) /\ kk = k /\ TT = T
      /\ w = FreedWhole(S, L, a) /\ x = FreedNext(S, F, L, a) /\ y = FreedPrev(S, F, L, a)
      /\ r1 = t1 /\ r2 = t2
  BY <1>2 DEF LessNext, Kept, Joined, FreedWhole, FreedNext, FreedPrev, LessNextTree, LessPrev
<1> HIDE DEF U, kk, TT, w, x, y, r1, r2
<1> QED BY <1>2, <1>3, <1>4 DEF FreeEffect

\* LayoutInv of the next state, from its parts.
LEMMA LayoutNext ==
  ASSUME NEW T, T = Starts', NEW G, G = {b \in T : buffers'[b].free}, NEW L, L = buffer_size',
         L \in {0, Length}, L = 0 => T = {}, T \subseteq Addr, \A b \in T : buffers'[b] \in BufferRecord,
         pages' \in [Page -> {NoPage, Active, OnLru}], free_async_space' \in 0 .. SizeT - 1,
         Tiling(T, G, L), TreeOf(free_buffers', T, G, L), allocated_buffers' = T \ G,
         \A p \in Page : pages'[p] = Active <=> \E b \in T \ G : Touches(T, L, b, p),
         \A b \in T \ G : /\ buffers'[b].req \in Requests /\ SizeValid(buffers'[b].req)
                          /\ End(T, L, b) - b = PaddedSize(buffers'[b].req),
         \A b \in G : buffers'[b] = FreeBuffer
  PROVE  LayoutInv'
<1>1. G = FreeIn(Starts)' /\ G \subseteq T
  BY DEF FreeIn
<1>2. HeapType'
  <2>1. free_buffers' \in Seq(Addr) /\ allocated_buffers' \subseteq Addr
    BY DEF TreeOf
  <2> QED BY <2>1 DEF HeapType
<1>3. (Tiling(Starts, FreeIn(Starts), buffer_size) /\ TreeOf(free_buffers, Starts, FreeIn(Starts), buffer_size))'
  BY <1>1
<1>4. (allocated_buffers = Starts \ FreeIn(Starts))'
  BY <1>1
<1>5. (\A p \in Page : pages[p] = Active <=> \E a \in allocated_buffers : Touches(Starts, buffer_size, a, p))'
  OBVIOUS
<1>6. (\A a \in allocated_buffers : SizeExact(a))'
  BY DEF SizeExact
<1>7. (\A a \in FreeIn(Starts) : buffers[a] = FreeBuffer)'
  BY <1>1
<1> QED BY <1>1, <1>2, <1>3, <1>4, <1>5, <1>6, <1>7 DEF LayoutInv

\* What the free path leaves of the counter is a size_t again.
LEMMA AsyncType ==
  ASSUME NEW x \in Int
  PROVE  x % SizeT \in 0 .. SizeT - 1
<1>1. SizeT \in Nat /\ SizeT > 0
  BY AllocAssumption, PageEnds
<1> QED BY <1>1

\* Freeing a buffer that no transaction is tied to keeps the layout, touches no other allocated
\* buffer and trips no assertion.
LEMMA FreeStep ==
  ASSUME LayoutInv, failed = {}, NEW a \in allocated_buffers, buffers[a].transaction = None,
         FreeBufLocked(a), buffer_size' = buffer_size
  PROVE  /\ LayoutInv' /\ failed' = {} /\ allocated_buffers' = allocated_buffers \ {a}
         /\ \A b \in allocated_buffers \ {a} : buffers'[b] = buffers[b]
<1>1. PICK S, F, L : S = Starts /\ F = FreeIn(Starts) /\ L = buffer_size
  OBVIOUS
<1>2. /\ Tiling(S, F, L) /\ TreeOf(free_buffers, S, F, L) /\ allocated_buffers = S \ F
      /\ S # {} => L = Length
      /\ S \subseteq Addr /\ F \subseteq S /\ \A b \in S : buffers[b] \in BufferRecord
      /\ \A b \in S : b \in F <=> buffers[b].free
      /\ \A b \in F : buffers[b] = FreeBuffer
      /\ \A p \in Page : pages[p] = Active <=> \E b \in S \ F : Touches(S, L, b, p)
  BY <1>1, LayoutFacts
<1>3. a \in S /\ a \notin F /\ L = Length
  BY <1>2
<1>4. PICK t1, t2, W, T, k : /\ t1 = LessNextTree(free_buffers, S, F, L, a) /\ t2 = LessPrev(t1, S, F, a)
                             /\ W = FreedWhole(S, L, a) \cup FreedNext(S, F, L, a) \cup FreedPrev(S, F, L, a)
                             /\ T = Joined(S, F, L, a) /\ k = Kept(S, F, a)
  OBVIOUS
<1>5. /\ pages' = PutOnLru(W) /\ allocated_buffers' = allocated_buffers \ {a}
      /\ buffers' = [b \in T |-> IF b = k THEN FreeBuffer ELSE buffers[b]]
      /\ free_buffers' \in Inserted(t2, T, k)
      /\ free_async_space' = IF buffers[a].req.async
                               THEN (free_async_space + AsyncGivenBack(buffers[a].req)) % SizeT
                               ELSE free_async_space
      /\ failed' = failed
           \cup Warn(buffers[a].free, "freed twice")
           \cup Warn(RequestSize(buffers[a].req) > End(S, L, a) - a, "buffer too small")
           \cup Warn(buffers[a].transaction # None, "freed with its transaction")
           \cup Warn(\/ LruAddWarns(W)
                     \/ FreedNext(S, F, L, a) \cap FreedPrev(S, F, L, a) # {}
                     \/ FreedWhole(S, L, a) \cap (FreedNext(S, F, L, a) \cup FreedPrev(S, F, L, a)) # {},
                     "lru_add")
  <2>1. FreeEffect(a, S, F, L, T, k, t2, W)
    BY ONLY FreeBufLocked(a), <1>1, <1>4, FreeExplicit
  <2> QED BY <2>1 DEF FreeEffect
<1>6. /\ T \subseteq S /\ k \in T /\ k \in F \cup {a} /\ (S \ F) \ {a} \subseteq T
      /\ \A b \in T : b # k => b # a /\ End(T, L, b) = End(S, L, b)
      /\ T \ ((T \cap F) \cup {k}) = (S \ F) \ {a}
      /\ Tiling(T, (T \cap F) \cup {k}, L)
  <2>1. JoinedOk(S, F, L, a, T, k)
    BY <1>2, <1>3, <1>4, JoinedFacts
  <2> QED BY <2>1 DEF JoinedOk
<1>7. /\ \A p \in W : p \in Page /\ Touches(S, L, a, p)
      /\ \A p \in W : \A b \in (S \ F) \ {a} : ~Touches(S, L, b, p)
      /\ \A p \in Int : Touches(S, L, a, p) /\ p \notin W => \E b \in (S \ F) \ {a} : Touches(S, L, b, p)
      /\ FreedNext(S, F, L, a) \cap FreedPrev(S, F, L, a) = {}
      /\ FreedWhole(S, L, a) \cap (FreedNext(S, F, L, a) \cup FreedPrev(S, F, L, a)) = {}
  BY <1>2, <1>3, <1>4, FreedPages
<1>8. PICK G : G = (T \cap F) \cup {k}
  OBVIOUS
<1>9. /\ T = Starts' /\ (\A b \in T : b = k => buffers'[b] = FreeBuffer)
      /\ (\A b \in T : b # k => buffers'[b] = buffers[b]) /\ FreeBuffer.free
  BY <1>5 DEF FreeBuffer, Starts
<1>10. G = {b \in T : buffers'[b].free}
  BY <1>2, <1>6, <1>8, <1>9
<1>11. T \ G = (S \ F) \ {a} /\ allocated_buffers' = T \ G /\ k \in G /\ a \notin T \ G
  BY <1>2, <1>5, <1>6, <1>8
<1>12. \A b \in T \ G : buffers'[b] = buffers[b] /\ End(T, L, b) = End(S, L, b) /\ b \in S \ F
  BY <1>6, <1>9, <1>11
<1>13. TreeOf(free_buffers', T, G, L)
  <2>1. PICK i : /\ i \in Gaps(t2, {b \in T : SizeIn(T, b) <= SizeIn(T, k)}, T \ {b \in T : SizeIn(T, b) <= SizeIn(T, k)})
                 /\ free_buffers' = InsertAt(t2, i + 1, k)
    BY <1>5 DEF Inserted
  <2>2. \A b : SizeIn(T, b) = End(T, L, b) - b
    BY <1>1, EndOfIsEnd DEF SizeIn
  <2>3. \A b \in T : End(T, L, b) - b \in Int
    <3>1. \A b \in T : b \in Int /\ End(T, L, b) \in Int
      BY <1>6, TilingFacts
    <3> QED BY <3>1
  <2>4. GapFor(t2, T, L, k, i)
    <3>1. /\ i \in 0 .. Len(t2) /\ (i > 0 => t2[i] \in {b \in T : SizeIn(T, b) <= SizeIn(T, k)})
          /\ i < Len(t2) => t2[i + 1] \in T \ {b \in T : SizeIn(T, b) <= SizeIn(T, k)}
      BY <2>1 DEF Gaps
    <3>2. i > 0 => End(T, L, t2[i]) - t2[i] <= End(T, L, k) - k
      BY <2>2, <3>1
    <3>3. i < Len(t2) => End(T, L, k) - k < End(T, L, t2[i + 1]) - t2[i + 1]
      <4>1. SUFFICES ASSUME i < Len(t2) PROVE End(T, L, k) - k < End(T, L, t2[i + 1]) - t2[i + 1]
        OBVIOUS
      <4>2. t2[i + 1] \in T /\ ~(End(T, L, t2[i + 1]) - t2[i + 1] <= End(T, L, k) - k)
        BY <2>2, <3>1, <4>1
      <4> QED BY <1>6, <2>3, <4>2
    <3> QED BY <3>1, <3>2, <3>3 DEF GapFor
  <2> QED BY <1>2, <1>3, <1>4, <1>8, <2>1, <2>4, JoinedTree
<1>14. \A p \in W : p \in Page /\ pages[p] = Active
  BY <1>2, <1>3, <1>7
<1>15. /\ pages' \in [Page -> {NoPage, Active, OnLru}]
       /\ \A p \in Page : pages'[p] = Active <=> pages[p] = Active /\ p \notin W
  <2>1. pages \in [Page -> {NoPage, Active, OnLru}]
    BY DEF LayoutInv, HeapType
  <2>2. \A p \in Page : pages'[p] = IF p \in W THEN [pages[p] EXCEPT !.lru = TRUE] ELSE pages[p]
    BY <1>5 DEF PutOnLru
  <2>3. [Active EXCEPT !.lru = TRUE] = OnLru /\ OnLru # Active
    <3>1. OnLru.lru = TRUE /\ Active.lru = FALSE
      BY DEF Active, OnLru
    <3>2. \A r, s \in [page_ptr : BOOLEAN, lru : BOOLEAN] : r.page_ptr = s.page_ptr /\ r.lru = s.lru => r = s
      OBVIOUS
    <3>3. /\ [Active EXCEPT !.lru = TRUE] \in [page_ptr : BOOLEAN, lru : BOOLEAN]
          /\ OnLru \in [page_ptr : BOOLEAN, lru : BOOLEAN]
          /\ [Active EXCEPT !.lru = TRUE].page_ptr = OnLru.page_ptr /\ [Active EXCEPT !.lru = TRUE].lru = OnLru.lru
      BY DEF Active, OnLru
    <3>4. [Active EXCEPT !.lru = TRUE] = OnLru
      BY <3>2, <3>3
    <3> QED BY <3>1, <3>4
  <2>4. pages' = [p \in Page |-> pages'[p]]
    BY <1>5 DEF PutOnLru
  <2>5. \A p \in Page : pages'[p] = IF p \in W THEN OnLru ELSE pages[p]
    BY <1>14, <2>2, <2>3
  <2>6. \A p \in Page : pages'[p] \in {NoPage, Active, OnLru}
    BY <2>1, <2>5
  <2> QED BY <2>3, <2>4, <2>5, <2>6
<1>16. ASSUME NEW p \in Page PROVE pages'[p] = Active <=> \E b \in T \ G : Touches(T, L, b, p)
  <2>1. p \in Int
    BY <1>16 DEF Page
  <2>2. (\E b \in T \ G : Touches(T, L, b, p)) <=> \E b \in T \ G : Touches(S, L, b, p)
    BY <1>12 DEF Touches
  <2>3. (pages[p] = Active /\ p \notin W) <=> \E b \in T \ G : Touches(S, L, b, p)
    <3>1. ASSUME pages[p] = Active, p \notin W PROVE \E b \in T \ G : Touches(S, L, b, p)
      <4>1. PICK b \in S \ F : Touches(S, L, b, p)
        BY <1>2, <3>1
      <4> QED BY <1>7, <1>11, <2>1, <3>1, <4>1
    <3>2. ASSUME NEW b \in T \ G, Touches(S, L, b, p) PROVE pages[p] = Active /\ p \notin W
      BY <1>2, <1>7, <1>11, <1>12, <3>2
    <3> QED BY <3>1, <3>2
  <2> QED BY <1>15, <2>2, <2>3
<1>17. \A b \in S \ F : /\ buffers[b].req \in Requests /\ SizeValid(buffers[b].req)
                        /\ End(S, L, b) - b = PaddedSize(buffers[b].req)
  BY <1>1, <1>2 DEF LayoutInv, SizeExact
<1>18. free_async_space' \in 0 .. SizeT - 1
  <2>1. free_async_space \in 0 .. SizeT - 1
    BY DEF LayoutInv, HeapType
  <2>2. SizesOk(buffers[a].req, PaddedSize(buffers[a].req))
    BY <1>3, <1>17, SizeFacts
  <2>3. free_async_space + AsyncGivenBack(buffers[a].req) \in Int
    BY <2>1, <2>2, AllocAssumption DEF SizesOk, AsyncGivenBack
  <2>4. (free_async_space + AsyncGivenBack(buffers[a].req)) % SizeT \in 0 .. SizeT - 1
    BY <2>3, AsyncType
  <2> QED BY <1>5, <2>1, <2>4
<1>19. failed' = {}
  <2>1. ~(RequestSize(buffers[a].req) > End(S, L, a) - a)
    <3>1. SizesOk(buffers[a].req, PaddedSize(buffers[a].req))
      BY <1>3, <1>17, SizeFacts
    <3> QED BY <1>3, <1>17, <3>1 DEF SizesOk
  <2>2. ~LruAddWarns(W)
    BY <1>14 DEF LruAddWarns, Active
  <2>3. ~buffers[a].free
    BY <1>2, <1>3
  <2> QED BY <1>5, <1>7, <2>1, <2>2, <2>3 DEF Warn
<1>20. LayoutInv'
  <2>1. L = buffer_size' /\ L \in {0, Length} /\ (L = 0 => T = {}) /\ T \subseteq Addr
    BY <1>1, <1>2, <1>3, <1>6, PageEnds
  <2>2. \A b \in T : buffers'[b] \in BufferRecord
    <3>1. FreeBuffer \in BufferRecord
      BY DEF FreeBuffer, BufferRecord
    <3> QED BY <1>2, <1>6, <1>9, <3>1
  <2>3. \A b \in T \ G : /\ buffers'[b].req \in Requests /\ SizeValid(buffers'[b].req)
                         /\ End(T, L, b) - b = PaddedSize(buffers'[b].req)
    BY <1>12, <1>17
  <2>4. \A b \in G : buffers'[b] = FreeBuffer
    BY <1>2, <1>6, <1>8, <1>9
  <2>5. Tiling(T, G, L)
    BY <1>6, <1>8
  <2> QED BY <1>9, <1>10, <1>11, <1>13, <1>15, <1>16, <1>18, <2>1, <2>2, <2>3, <2>4, <2>5, LayoutNext
<1>21. \A b \in allocated_buffers \ {a} : buffers'[b] = buffers[b]
  BY <1>2, <1>11, <1>12
<1> QED BY <1>5, <1>19, <1>20, <1>21

\* Pages that come and go without a buffer being in them are nobody's business.
LEMMA PagesStep ==
  ASSUME LayoutInv, UNCHANGED <<buffer_size, buffers, free_buffers, allocated_buffers, free_async_space>>,
         pages' \in [Page -> {NoPage, Active, OnLru}],
         \A p \in Page : pages'[p] = Active <=> pages[p] = Active
  PROVE  LayoutInv'
<1>1. HeapType'
  BY DEF LayoutInv, HeapType, Starts
<1>2. (\A p \in Page : pages[p] = Active <=> \E a \in allocated_buffers : Touches(Starts, buffer_size, a, p))'
  BY DEF LayoutInv, Starts
<1>3. Starts' = Starts /\ FreeIn(Starts)' = FreeIn(Starts)
  BY DEF Starts, FreeIn
<1>4. (\A a \in allocated_buffers : SizeExact(a))' /\ (\A a \in FreeIn(Starts) : buffers[a] = FreeBuffer)'
  BY <1>3 DEF LayoutInv, SizeExact
<1>5. (buffer_size = 0 => Starts = {})' /\ Tiling(Starts, FreeIn(Starts), buffer_size)'
  BY <1>3 DEF LayoutInv
<1>6. TreeOf(free_buffers, Starts, FreeIn(Starts), buffer_size)' /\ (allocated_buffers = Starts \ FreeIn(Starts))'
  BY <1>3 DEF LayoutInv
<1> QED BY <1>1, <1>2, <1>4, <1>5, <1>6 DEF LayoutInv

\* The buffer an allocation has found, and the pages it has to provide: none of them is held.
LEMMA FoundFacts ==
  ASSUME LayoutInv, NEW S, S = Starts, NEW F, F = FreeIn(Starts), NEW L, L = buffer_size,
         NEW a, NEW r \in Requests, SizeValid(r), Fits(a, PaddedSize(r)), NEW s, s = PaddedSize(r)
  PROVE  /\ a \in F /\ L = Length /\ s \in Nat /\ 0 < s /\ s <= End(S, L, a) - a
         /\ PagesFor(a, s) = NewPages(S, L, a, s)
         /\ \A p \in PagesFor(a, s) : p \in Page /\ pages[p] \in {NoPage, OnLru}
         /\ ~LruDelWarns(PagesFor(a, s)) /\ \A f : ~LruDelWarns({p \in PagesFor(a, s) : p < f})
<1>1. /\ Tiling(S, F, L) /\ (S # {} => L = Length) /\ F \subseteq S
      /\ \A p \in Page : pages[p] = Active <=> \E b \in S \ F : Touches(S, L, b, p)
  BY LayoutFacts
<1>2. a \in F /\ s <= End(S, L, a) - a
  BY DEF Fits, FitsIn
<1>3. s \in Nat /\ 0 < s
  BY SizeFacts DEF SizesOk
<1>4. L = Length
  BY <1>1, <1>2
<1>5. PagesFor(a, s) = NewPages(S, L, a, s)
  BY EndOfIsEnd DEF PagesFor, NewPages
<1>6. PICK P : P = PagesFor(a, s)
  OBVIOUS
<1>7. /\ \A p \in P : p \in Page
      /\ \A p \in P : \A b \in S \ F : ~Touches(S, L, b, p)
  BY <1>1, <1>2, <1>3, <1>4, <1>5, <1>6, CutPages
<1>8. pages \in [Page -> {NoPage, Active, OnLru}]
  BY DEF LayoutInv, HeapType
<1>9. \A p \in P : p \in Page /\ pages[p] \in {NoPage, OnLru}
  BY <1>1, <1>7, <1>8
<1>10. ~NoPage.page_ptr /\ OnLru.lru
  BY DEF NoPage, OnLru
<1>11. \A p \in P : ~(pages[p].page_ptr /\ ~pages[p].lru)
  BY <1>9, <1>10
<1>12. ~LruDelWarns(P) /\ \A f : ~LruDelWarns({p \in P : p < f})
  BY <1>11 DEF LruDelWarns
<1> QED BY <1>2, <1>3, <1>4, <1>5, <1>6, <1>9, <1>12

\* An allocation that fails after it has provided the pages before f leaves them on the lru.
LEMMA UndoneStep ==
  ASSUME LayoutInv, NEW P, \A p \in P : p \in Page /\ pages[p] \in {NoPage, OnLru}, NEW f, pages' = Undone(P, f),
         UNCHANGED <<buffer_size, buffers, free_buffers, allocated_buffers, free_async_space>>
  PROVE  LayoutInv'
<1>1. pages \in [Page -> {NoPage, Active, OnLru}]
  BY DEF LayoutInv, HeapType
<1>2. \A p \in Page : pages'[p] = IF p \in P /\ p < f THEN OnLru ELSE pages[p]
  BY DEF Undone
<1>3. NoPage # Active /\ OnLru # Active
  <2>1. NoPage.page_ptr = FALSE /\ Active.page_ptr = TRUE /\ OnLru.lru = TRUE /\ Active.lru = FALSE
    BY DEF NoPage, Active, OnLru
  <2> QED BY <2>1
<1>4. \A p \in Page : pages'[p] = Active <=> pages[p] = Active
  BY <1>2, <1>3
<1>5. pages' \in [Page -> {NoPage, Active, OnLru}]
  <2>1. pages' = [p \in Page |-> pages'[p]]
    BY DEF Undone
  <2>2. \A p \in Page : pages'[p] \in {NoPage, Active, OnLru}
    BY <1>1, <1>2
  <2> QED BY <2>1, <2>2
<1> QED BY <1>4, <1>5, PagesStep

TakeEffect(a, r) ==
  /\ pages' = Provided(PagesFor(a, PaddedSize(r)))
  /\ free_buffers' \in SplitTrees(a, r) /\ buffers' = SplitBuffers(a, r)
  /\ allocated_buffers' = allocated_buffers \cup {a}
  /\ free_async_space' = IF r.async THEN (free_async_space - (PaddedSize(r) + Header)) % SizeT
                                    ELSE free_async_space
  /\ failed' = failed \cup Warn(LruDelWarns(PagesFor(a, PaddedSize(r))), "lru_del")
                      \cup Warn(a \in allocated_buffers, "allocated twice")

\* Taking s bytes of the free buffer at a.
LEMMA TakeStep ==
  ASSUME LayoutInv, failed = {}, NEW a, NEW r \in Requests, SizeValid(r), Fits(a, PaddedSize(r)),
         TakeEffect(a, r),
         buffer_size' = buffer_size
  PROVE  /\ LayoutInv' /\ failed' = {} /\ a \notin allocated_buffers
         /\ buffers'[a] = NewBuffer(r) /\ \A b \in allocated_buffers : buffers'[b] = buffers[b]
<1>0. /\ pages' = Provided(PagesFor(a, PaddedSize(r)))
      /\ free_buffers' \in SplitTrees(a, r) /\ buffers' = SplitBuffers(a, r)
      /\ allocated_buffers' = allocated_buffers \cup {a}
  BY DEF TakeEffect
<1>1. PICK S, F, L, s : S = Starts /\ F = FreeIn(Starts) /\ L = buffer_size /\ s = PaddedSize(r)
  OBVIOUS
<1>2. /\ Tiling(S, F, L) /\ TreeOf(free_buffers, S, F, L) /\ allocated_buffers = S \ F
      /\ S # {} => L = Length
      /\ S \subseteq Addr /\ F \subseteq S /\ \A b \in S : buffers[b] \in BufferRecord
      /\ \A b \in S : b \in F <=> buffers[b].free
      /\ \A b \in F : buffers[b] = FreeBuffer
      /\ \A p \in Page : pages[p] = Active <=> \E b \in S \ F : Touches(S, L, b, p)
  BY <1>1, LayoutFacts
<1>3. PICK P : P = PagesFor(a, s)
  OBVIOUS
<1>4. /\ a \in F /\ L = Length /\ s \in Nat /\ 0 < s /\ s <= End(S, L, a) - a
      /\ P = NewPages(S, L, a, s)
      /\ (\A p \in P : p \in Page /\ pages[p] \in {NoPage, OnLru}) /\ ~LruDelWarns(P)
  BY <1>1, <1>3, FoundFacts
<1>5. PICK T, G, n : T = Cut(S, L, a, s) /\ G = CutFree(S, F, L, a, s) /\ n = End(S, L, a)
  OBVIOUS
<1>6. /\ S \subseteq T /\ a \in S /\ a + s \in Int /\ a + s <= L
      /\ End(T, L, a) = a + s
      /\ \A b \in S : b # a => End(T, L, b) = End(S, L, b)
      /\ a + s # n => a + s \notin S /\ End(T, L, a + s) = n
      /\ Tiling(T, G, L)
      /\ T \ G = (S \ F) \cup {a}
  <2>1. CutOk(S, F, L, a, s, T, G)
    BY <1>2, <1>4, <1>5, CutFacts
  <2> QED BY <1>5, <2>1 DEF CutOk
<1>7. EndOf(Starts, a) = n
  BY <1>1, <1>5, EndOfIsEnd
<1>8. FreeBuffer.free /\ ~NewBuffer(r).free /\ NewBuffer(r).req = r
  BY DEF FreeBuffer, NewBuffer
<1>9. /\ T = Starts' /\ a \in T /\ buffers'[a] = NewBuffer(r)
      /\ \A b \in S : b # a => buffers'[b] = buffers[b]
      /\ \A b \in T : b \notin S => b = a + s /\ buffers'[b] = FreeBuffer /\ a + s # n
  <2>1. CASE a + s = n
    <3>1. T = S /\ buffers' = [buffers EXCEPT ![a] = NewBuffer(r)]
      BY <1>0, <1>1, <1>5, <1>7, <2>1 DEF Cut, SplitBuffers
    <3> QED BY <1>1, <1>6, <3>1 DEF Starts
  <2>2. CASE a + s # n
    <3>1. T = S \cup {a + s}
      BY <1>5, <2>2 DEF Cut
    <3>2. buffers' = [b \in T |-> IF b = a + s THEN FreeBuffer ELSE IF b = a THEN NewBuffer(r) ELSE buffers[b]]
      BY <1>0, <1>1, <1>7, <2>2, <3>1 DEF SplitBuffers
    <3>3. a # a + s /\ a + s \notin S
      BY <1>6, <2>2
    <3> QED BY <1>6, <2>2, <3>1, <3>2, <3>3 DEF Starts
  <2> QED BY <2>1, <2>2
<1>10. G = {b \in T : buffers'[b].free}
  <2>1. \A b \in T : b \in G <=> b \notin (S \ F) \cup {a}
    <3>1. G \subseteq T
      BY <1>6 DEF Tiling
    <3> QED BY <1>6, <3>1
  <2>2. \A b \in T : buffers'[b].free <=> b \notin (S \ F) \cup {a}
    BY <1>2, <1>6, <1>8, <1>9
  <2>3. G \subseteq T
    BY <1>6 DEF Tiling
  <2> QED BY <2>1, <2>2, <2>3
<1>11. \A b \in S \ F : b \in T \ G /\ b # a /\ buffers'[b] = buffers[b] /\ End(T, L, b) = End(S, L, b)
  BY <1>4, <1>6, <1>9
<1>12. TreeOf(free_buffers', T, G, L)
  <2>1. CASE a + s = n
    <3>1. T = S /\ G = F \ {a} /\ free_buffers' = rb_erase(free_buffers, a)
      BY <1>0, <1>1, <1>5, <1>7, <2>1 DEF Cut, CutFree, SplitTrees
    <3> QED BY <1>2, <1>4, <3>1, TakenTree
  <2>2. CASE a + s # n
    <3>1. T = S \cup {a + s}
      BY <1>5, <2>2 DEF Cut
    <3>2. PICK X \in Inserted(free_buffers, T, a + s) : free_buffers' = rb_erase(X, a)
      BY <1>0, <1>1, <1>7, <2>2, <3>1 DEF SplitTrees
    <3>3. PICK i : /\ i \in Gaps(free_buffers, {b \in T : SizeIn(T, b) <= SizeIn(T, a + s)}, T \ {b \in T : SizeIn(T, b) <= SizeIn(T, a + s)})
                   /\ X = InsertAt(free_buffers, i + 1, a + s)
      BY <3>2 DEF Inserted
    <3>4. \A b : SizeIn(T, b) = End(T, L, b) - b
      BY <1>1, EndOfIsEnd DEF SizeIn
    <3>5. \A b \in T : End(T, L, b) - b \in Int
      <4>1. \A b \in T : b \in Int /\ End(T, L, b) \in Int
        BY <1>6, TilingFacts
      <4> QED BY <4>1
    <3>6. GapFor(free_buffers, T, L, a + s, i)
      <4>1. /\ i \in 0 .. Len(free_buffers) /\ (i > 0 => free_buffers[i] \in {b \in T : SizeIn(T, b) <= SizeIn(T, a + s)})
            /\ i < Len(free_buffers) => free_buffers[i + 1] \in T \ {b \in T : SizeIn(T, b) <= SizeIn(T, a + s)}
        BY <3>3 DEF Gaps
      <4>2. i > 0 => End(T, L, free_buffers[i]) - free_buffers[i] <= End(T, L, a + s) - (a + s)
        BY <3>4, <4>1
      <4>3. i < Len(free_buffers) =>
              End(T, L, a + s) - (a + s) < End(T, L, free_buffers[i + 1]) - free_buffers[i + 1]
        <5>1. SUFFICES ASSUME i < Len(free_buffers)
                       PROVE  End(T, L, a + s) - (a + s) < End(T, L, free_buffers[i + 1]) - free_buffers[i + 1]
          OBVIOUS
        <5>2. /\ free_buffers[i + 1] \in T
              /\ ~(End(T, L, free_buffers[i + 1]) - free_buffers[i + 1] <= End(T, L, a + s) - (a + s))
          BY <3>4, <4>1, <5>1
        <5>3. End(T, L, a + s) - (a + s) \in Int
          BY <3>1, <3>5
        <5> QED BY <3>5, <5>2, <5>3
      <4> QED BY <4>1, <4>2, <4>3 DEF GapFor
    <3>7. FoundAt(free_buffers, S, L, a, s)
      <4>1. \E k \in DOMAIN free_buffers :
              /\ free_buffers[k] = a
              /\ k > 1 => End(S, L, free_buffers[k - 1]) - free_buffers[k - 1] < s
        <5>1. s # End(S, L, a) - a
          <6>1. a \in Int /\ End(S, L, a) \in Int
            BY <1>2, <1>6, TilingFacts
          <6> QED BY <1>4, <1>5, <2>2, <6>1
        <5> QED BY <1>1, <5>1 DEF Fits, FitsIn
      <4> QED BY <4>1 DEF FoundAt, Extent
    <3>8. a + s \in Addr
      <4>1. a + s \in T /\ T \subseteq 0 .. L - 1
        BY <1>6, <3>1 DEF Tiling
      <4> QED BY <1>4, <4>1 DEF Addr
    <3> QED BY <1>2, <1>4, <1>5, <2>2, <3>2, <3>3, <3>6, <3>7, <3>8, CutTree
  <2> QED BY <2>1, <2>2
<1>13. /\ pages' \in [Page -> {NoPage, Active, OnLru}]
       /\ \A p \in Page : pages'[p] = Active <=> pages[p] = Active \/ p \in P
  <2>1. pages \in [Page -> {NoPage, Active, OnLru}]
    BY DEF LayoutInv, HeapType
  <2>2. \A p \in Page : pages'[p] = IF p \in P THEN Active ELSE pages[p]
    BY <1>0, <1>1, <1>3 DEF Provided
  <2>3. pages' = [p \in Page |-> pages'[p]]
    BY <1>0 DEF Provided
  <2>4. \A p \in Page : pages'[p] \in {NoPage, Active, OnLru}
    BY <2>1, <2>2
  <2> QED BY <2>2, <2>3, <2>4
<1>14. ASSUME NEW p \in Page PROVE pages'[p] = Active <=> \E b \in T \ G : Touches(T, L, b, p)
  <2>1. p \in Int
    BY <1>14 DEF Page
  <2>2. Touches(T, L, a, p) <=> PageOf(a) <= p /\ p <= PageOf(a + s - 1)
    <3>1. PICK e : e = a + s /\ e = End(T, L, a)
      BY <1>6
    <3>2. e - 1 = a + s - 1
      <4>1. a \in Int /\ s \in Int
        BY <1>2, <1>4, <1>6, TilingFacts
      <4> QED BY ONLY <3>1, <4>1
    <3> QED BY ONLY <3>1, <3>2 DEF Touches
  <2>3. \A b \in S \ F : Touches(T, L, b, p) <=> Touches(S, L, b, p)
    BY <1>11 DEF Touches
  <2>4. (\E b \in T \ G : Touches(T, L, b, p)) <=> Touches(T, L, a, p) \/ \E b \in S \ F : Touches(S, L, b, p)
    BY <1>6, <2>3
  <2>5. /\ p \in P => PageOf(a) <= p /\ p <= PageOf(a + s - 1)
        /\ PageOf(a) <= p /\ p <= PageOf(a + s - 1) /\ p \notin P => \E b \in S \ F : Touches(S, L, b, p)
    BY <1>2, <1>4, <2>1, CutPages
  <2> QED BY <1>2, <1>13, <2>2, <2>4, <2>5
<1>15. free_async_space' \in 0 .. SizeT - 1
  <2>1. free_async_space \in 0 .. SizeT - 1
    BY DEF LayoutInv, HeapType
  <2>2. free_async_space - (PaddedSize(r) + Header) \in Int
    BY <1>1, <1>4, <2>1, AllocAssumption
  <2>3. (free_async_space - (PaddedSize(r) + Header)) % SizeT \in 0 .. SizeT - 1
    BY <2>2, AsyncType
  <2> QED BY <2>1, <2>3 DEF TakeEffect
<1>16. failed' = {} /\ a \notin allocated_buffers
  BY <1>1, <1>2, <1>3, <1>4 DEF Warn, TakeEffect
<1>17. \A b \in S \ F : /\ buffers[b].req \in Requests /\ SizeValid(buffers[b].req)
                        /\ End(S, L, b) - b = PaddedSize(buffers[b].req)
  BY <1>1, <1>2 DEF LayoutInv, SizeExact
<1>18. \A b \in T \ G : /\ buffers'[b].req \in Requests /\ SizeValid(buffers'[b].req)
                        /\ End(T, L, b) - b = PaddedSize(buffers'[b].req)
  <2>1. (a + s) - a = s
    <3>1. a \in Int
      BY <1>2, <1>6, TilingFacts
    <3> QED BY <1>4, <3>1
  <2> QED BY <1>1, <1>6, <1>8, <1>9, <1>11, <1>17, <2>1
<1>19. LayoutInv'
  <2>1. L = buffer_size' /\ L \in {0, Length} /\ (L = 0 => T = {}) /\ T \subseteq Addr
    <3>1. T \subseteq 0 .. L - 1
      BY <1>6 DEF Tiling
    <3> QED BY <1>1, <1>4, <3>1, PageEnds DEF Addr
  <2>2. \A b \in T : buffers'[b] \in BufferRecord
    <3>1. FreeBuffer \in BufferRecord /\ NewBuffer(r) \in BufferRecord
      BY DEF FreeBuffer, NewBuffer, BufferRecord
    <3> QED BY <1>2, <1>9, <3>1
  <2>3. \A b \in G : buffers'[b] = FreeBuffer
    <3>1. \A b \in G : b \in T /\ b # a /\ b \notin S \ F
      BY <1>6, <1>10, <1>9, <1>8, <1>11
    <3> QED BY <1>2, <1>9, <3>1
  <2>4. allocated_buffers' = T \ G
    BY <1>0, <1>2, <1>6
  <2> QED BY <1>6, <1>9, <1>10, <1>12, <1>13, <1>14, <1>15, <1>18, <2>1, <2>2, <2>3, <2>4, LayoutNext
<1> QED BY <1>2, <1>9, <1>11, <1>16, <1>19

\* Setting flags of an allocated buffer changes neither tree nor page.
LEMMA FlagsStep ==
  ASSUME LayoutInv, NEW a \in allocated_buffers, NEW rec \in BufferRecord, ~rec.free, rec.req = buffers[a].req,
         buffers' = [buffers EXCEPT ![a] = rec],
         UNCHANGED <<buffer_size, free_buffers, allocated_buffers, pages, free_async_space>>
  PROVE  /\ LayoutInv' /\ Starts' = Starts /\ FreeIn(Starts)' = FreeIn(Starts)
         /\ buffers'[a] = rec /\ \A b \in Starts : b # a => buffers'[b] = buffers[b]
<1>1. PICK S, F, L : S = Starts /\ F = FreeIn(Starts) /\ L = buffer_size
  OBVIOUS
<1>2. /\ Tiling(S, F, L) /\ TreeOf(free_buffers, S, F, L) /\ allocated_buffers = S \ F
      /\ S # {} => L = Length
      /\ S \subseteq Addr /\ F \subseteq S /\ \A b \in S : buffers[b] \in BufferRecord
      /\ \A b \in S : b \in F <=> buffers[b].free
      /\ \A b \in F : buffers[b] = FreeBuffer
      /\ \A p \in Page : pages[p] = Active <=> \E b \in S \ F : Touches(S, L, b, p)
  BY <1>1, LayoutFacts
<1>3. S = Starts' /\ buffers'[a] = rec /\ (\A b \in S : b # a => buffers'[b] = buffers[b]) /\ a \in S \ F
  BY <1>1, <1>2 DEF Starts
<1>4. F = {b \in S : buffers'[b].free}
  BY <1>2, <1>3
<1>5. \A b \in S \ F : /\ buffers'[b].req \in Requests /\ SizeValid(buffers'[b].req)
                       /\ End(S, L, b) - b = PaddedSize(buffers'[b].req)
  <2>1. \A b \in S \ F : /\ buffers[b].req \in Requests /\ SizeValid(buffers[b].req)
                         /\ End(S, L, b) - b = PaddedSize(buffers[b].req)
    BY <1>1, <1>2 DEF LayoutInv, SizeExact
  <2>2. \A b \in S : buffers'[b].req = buffers[b].req
    BY <1>3
  <2> QED BY <2>1, <2>2
<1>6. LayoutInv'
  <2>1. L = buffer_size' /\ L \in {0, Length} /\ (L = 0 => S = {})
    BY <1>1, <1>2 DEF LayoutInv, HeapType
  <2>2. \A b \in S : buffers'[b] \in BufferRecord
    BY <1>2, <1>3
  <2>3. \A b \in F : buffers'[b] = FreeBuffer
    BY <1>2, <1>3
  <2>4. pages' \in [Page -> {NoPage, Active, OnLru}] /\ free_async_space' \in 0 .. SizeT - 1
    BY DEF LayoutInv, HeapType
  <2>5. TreeOf(free_buffers', S, F, L) /\ allocated_buffers' = S \ F
    BY <1>2
  <2>6. \A p \in Page : pages'[p] = Active <=> \E b \in S \ F : Touches(S, L, b, p)
    BY <1>2
  <2> QED BY <1>2, <1>3, <1>4, <1>5, <2>1, <2>2, <2>3, <2>4, <2>5, <2>6, LayoutNext
<1>7. FreeIn(Starts)' = FreeIn(Starts)
  BY <1>1, <1>3, <1>4 DEF FreeIn
<1> QED BY <1>1, <1>3, <1>6, <1>7

-----------------------------------------------------------------------------
(* Who holds a buffer.                                                     *)

\* A step that is about the buffer A only: of the transactions TS and the freers US that have to
\* do with it, and of nobody else.
AboutA(A, TS, US) ==
  /\ \A x \in Txns \ TS : /\ tpc'[x] = tpc[x] /\ treq'[x] = treq[x] /\ tbuf'[x] = tbuf[x]
                          /\ tbuf[x] # A \/ A = None
  /\ \A x \in Txns \cap TS : tbuf[x] \in {A, None} /\ tbuf'[x] \in {A, None}
  /\ \A v \in Freers \ US : /\ upc'[v] = upc[v] /\ ubuf'[v] = ubuf[v]
                            /\ ubuf[v] # A \/ A = None
  /\ \A v \in Freers \cap US : ubuf[v] \in {A, None} /\ ubuf'[v] \in {A, None}
  /\ \A b \in allocated_buffers : b # A => b \in allocated_buffers' /\ buffers'[b] = buffers[b]
  /\ \A b \in allocated_buffers' : b # A => b \in allocated_buffers
  /\ life' = "open" => life = "open"
  /\ stuck \subseteq stuck'

\* A search that goes on finds what it found.
SearchKept(TS) ==
  \A x \in Txns \ TS : tpc[x] = "find" =>
    /\ mutex' = mutex /\ Starts' = Starts /\ FreeIn(Starts)' = FreeIn(Starts)
    /\ buffer_size' = buffer_size /\ free_buffers' = free_buffers

\* What the invariant says of the types, for the provers.
LEMMA OwnerFacts ==
  ASSUME LayoutInv, OwnersInv
  PROVE  /\ allocated_buffers \subseteq Addr /\ None \notin allocated_buffers /\ None \notin Txns
         /\ \A b \in FreeIn(Starts) : b \notin allocated_buffers /\ b # None
         /\ \A x \in Txns : /\ TxnOk(x) /\ tbuf[x] \in Addr \cup {None}
                            /\ tpc[x] \in {"idle", "find", "alloc", "failed", "queued", "delivered"}
         /\ \A x \in Txns : tpc[x] = "find" => mutex = x /\ tbuf[x] \in FreeIn(Starts)
         /\ \A u \in Freers : FreerOk(u) /\ ubuf[u] \in Addr \cup {None} /\ upc[u] \in {"idle", "prepared", "detached"}
         /\ \A b \in allocated_buffers : BufferOk(b) /\ buffers[b] \in BufferRecord /\ ~buffers[b].free /\ b \in Starts
<1>1. allocated_buffers \subseteq Addr /\ None \notin allocated_buffers /\ None \notin Txns /\ Starts \subseteq Addr
  BY AllocAssumption DEF LayoutInv, HeapType
<1>2. allocated_buffers = Starts \ FreeIn(Starts)
  BY DEF LayoutInv
<1>3. \A b \in FreeIn(Starts) : b \notin allocated_buffers /\ b # None
  BY <1>1, <1>2, AllocAssumption DEF FreeIn
<1>4. \A b \in allocated_buffers : BufferOk(b) /\ buffers[b] \in BufferRecord /\ ~buffers[b].free /\ b \in Starts
  BY <1>2 DEF OwnersInv, LayoutInv, HeapType, FreeIn
<1>5. \A x \in Txns : /\ TxnOk(x) /\ tbuf[x] \in Addr \cup {None}
                      /\ tpc[x] \in {"idle", "find", "alloc", "failed", "queued", "delivered"}
  BY DEF OwnersInv, OwnerType
<1>6. \A u \in Freers : FreerOk(u) /\ ubuf[u] \in Addr \cup {None} /\ upc[u] \in {"idle", "prepared", "detached"}
  BY DEF OwnersInv, OwnerType
<1>7. \A x \in Txns : tpc[x] = "find" => mutex = x /\ tbuf[x] \in FreeIn(Starts)
  BY <1>5 DEF TxnOk, Fits, FitsIn
<1> QED BY <1>1, <1>3, <1>4, <1>5, <1>6, <1>7

\* A transaction that has nothing to do with A.
LEMMA TxnFrame ==
  ASSUME LayoutInv, OwnersInv, NEW A, NEW TS, NEW US, AboutA(A, TS, US), SearchKept(TS), NEW x \in Txns \ TS
  PROVE  TxnOk(x)'
<1>0. PICK a : a = tbuf[x]
  OBVIOUS
<1>1. /\ tpc'[x] = tpc[x] /\ treq'[x] = treq[x] /\ tbuf'[x] = a /\ (a # A \/ A = None)
      /\ None \notin allocated_buffers
  BY <1>0, OwnerFacts DEF AboutA
<1>2. a \in allocated_buffers => a # A /\ a # None /\ a \in allocated_buffers' /\ buffers'[a] = buffers[a]
  BY <1>0, OwnerFacts DEF AboutA
<1>3. a # None => \A u \in Freers : ubuf'[u] = a <=> ubuf[u] = a
  BY <1>0 DEF AboutA
<1>4. a # None => \A s \in Txns \ {x} : tbuf[s] # a => tbuf'[s] # a
  BY <1>0 DEF AboutA
<1>5. TxnOk(x)
  BY DEF OwnersInv
<1>6. /\ tpc[x] = "idle" => a = None
      /\ tpc[x] = "find" => /\ mutex = x /\ treq[x] \in Requests /\ SizeValid(treq[x])
                            /\ FitsIn(free_buffers, Starts, FreeIn(Starts), buffer_size, a, PaddedSize(treq[x]))
      /\ tpc[x] \in {"alloc", "failed", "queued"} =>
           a \in allocated_buffers /\ ~buffers[a].allow_user_free /\ \A u \in Freers : ubuf[u] # a
      /\ tpc[x] \in {"alloc", "failed"} => buffers[a].transaction = None
      /\ tpc[x] = "alloc" => buffers[a].req = treq[x]
      /\ tpc[x] = "queued" => buffers[a].transaction = x
      /\ tpc[x] = "delivered" /\ a # None =>
           /\ a \in allocated_buffers /\ buffers[a].transaction = x
           /\ buffers[a].allow_user_free \/ \E u \in Freers : ubuf[u] = a
      /\ a # None => \A s \in Txns \ {x} : tbuf[s] # a
  BY <1>0, <1>5 DEF TxnOk, Fits
<1>7. tpc[x] = "find" => /\ mutex' = x /\ treq[x] \in Requests /\ SizeValid(treq[x])
                         /\ FitsIn(free_buffers', Starts', FreeIn(Starts)', buffer_size', a, PaddedSize(treq[x]))
  BY <1>6 DEF SearchKept
<1>8. tpc[x] \in {"alloc", "failed", "queued"} =>
        a \in allocated_buffers' /\ ~buffers'[a].allow_user_free /\ \A u \in Freers : ubuf'[u] # a
  BY <1>2, <1>3, <1>6
<1>9. /\ tpc[x] \in {"alloc", "failed"} => buffers'[a].transaction = None
      /\ tpc[x] = "alloc" => buffers'[a].req = treq[x]
      /\ tpc[x] = "queued" => buffers'[a].transaction = x
  BY <1>2, <1>6
<1>10. tpc[x] = "delivered" /\ a # None =>
         /\ a \in allocated_buffers' /\ buffers'[a].transaction = x
         /\ buffers'[a].allow_user_free \/ \E u \in Freers : ubuf'[u] = a
  BY <1>2, <1>3, <1>6
<1>11. a # None => \A s \in Txns \ {x} : tbuf'[s] # a
  BY <1>4, <1>6
<1>12. tpc'[x] = tpc[x] /\ treq'[x] = treq[x] /\ tbuf'[x] = a /\ (tpc[x] = "idle" => a = None)
  BY <1>1, <1>6
<1> QED BY ONLY <1>7, <1>8, <1>9, <1>10, <1>11, <1>12 DEF TxnOk, Fits

\* A freer that has nothing to do with A.
LEMMA FreerFrame ==
  ASSUME LayoutInv, OwnersInv, NEW A, NEW TS, NEW US, AboutA(A, TS, US), NEW u \in Freers \ US
  PROVE  FreerOk(u)'
<1>0. PICK a : a = ubuf[u]
  OBVIOUS
<1>1. upc'[u] = upc[u] /\ ubuf'[u] = a /\ (a # A \/ A = None)
  BY <1>0 DEF AboutA
<1>2. a \in allocated_buffers => a # A /\ a # None /\ a \in allocated_buffers' /\ buffers'[a] = buffers[a]
  BY <1>0, OwnerFacts DEF AboutA
<1>3. a # None => \A v \in Freers \ {u} : ubuf[v] # a => ubuf'[v] # a
  BY <1>0 DEF AboutA
<1>4. FreerOk(u)
  BY DEF OwnersInv
<1> QED BY <1>0, <1>1, <1>2, <1>3, <1>4 DEF FreerOk

\* A buffer other than A.
LEMMA BufferFrame ==
  ASSUME LayoutInv, OwnersInv, NEW A, NEW TS, NEW US, AboutA(A, TS, US), NEW b \in allocated_buffers', b # A
  PROVE  BufferOk(b)'
<1>1. b \in allocated_buffers /\ buffers'[b] = buffers[b] /\ b # None
  BY OwnerFacts DEF AboutA
<1>2. \A s \in Txns : tbuf[s] = b => s \notin TS /\ tbuf'[s] = b /\ tpc'[s] = tpc[s]
  BY <1>1 DEF AboutA
<1>3. \A u \in Freers : ubuf[u] = b => ubuf'[u] = b
  BY <1>1 DEF AboutA
<1>4. BufferOk(b) /\ buffers[b].transaction \in Txns \cup {None}
  BY <1>1, OwnerFacts DEF BufferRecord
<1>5. (life' = "open" => life = "open") /\ (b \notin stuck' => b \notin stuck)
  BY DEF AboutA
<1>6. buffers'[b].transaction # None =>
        /\ tbuf'[buffers'[b].transaction] = b
        /\ tpc'[buffers'[b].transaction] \in {"queued", "delivered"}
  BY <1>1, <1>2, <1>4 DEF BufferOk
<1>7. life' = "open" /\ b \notin stuck' => \/ buffers'[b].allow_user_free
                                           \/ \E t \in Txns : tbuf'[t] = b
                                           \/ \E u \in Freers : ubuf'[u] = b
  BY <1>1, <1>2, <1>3, <1>4, <1>5 DEF BufferOk
<1> QED BY <1>6, <1>7 DEF BufferOk

\* The invariant after such a step: what is left to show is about A, TS and US.
LEMMA OwnersFrame ==
  ASSUME LayoutInv, OwnersInv, NEW A, NEW TS, NEW US, AboutA(A, TS, US), SearchKept(TS), OwnerType', LifeOk',
         \A x \in Txns \cap TS : TxnOk(x)', \A u \in Freers \cap US : FreerOk(u)',
         A \in allocated_buffers' => BufferOk(A)'
  PROVE  OwnersInv'
<1>1. \A x \in Txns : TxnOk(x)'
  BY TxnFrame
<1>2. \A u \in Freers : FreerOk(u)'
  BY FreerFrame
<1>3. \A b \in allocated_buffers' : BufferOk(b)'
  <2>1. ASSUME NEW b \in allocated_buffers' PROVE BufferOk(b)'
    <3>1. CASE b # A
      BY <3>1, BufferFrame
    <3>2. CASE b = A
      BY <3>2
    <3> QED BY <3>1, <3>2
  <2> QED BY <2>1
<1> QED BY <1>1, <1>2, <1>3 DEF OwnersInv

\* A step that no holder of a buffer takes part in.
LEMMA OwnersSame ==
  ASSUME LayoutInv, OwnersInv, UNCHANGED <<mutex, txnVars, freerVars, life, stuck, allocated_buffers>>,
         \A b \in allocated_buffers : buffers'[b] = buffers[b],
         vma' \in BOOLEAN, mm' \in BOOLEAN, vma' => vma \/ life = "open", SearchKept({})
  PROVE  OwnersInv'
<1>0. /\ mutex' = mutex /\ tpc' = tpc /\ treq' = treq /\ tbuf' = tbuf /\ upc' = upc /\ ubuf' = ubuf
      /\ life' = life /\ stuck' = stuck /\ allocated_buffers' = allocated_buffers
  BY DEF txnVars, freerVars
<1>1. AboutA(None, {}, {})
  BY <1>0 DEF AboutA
<1>2. OwnerType'
  BY <1>0 DEF OwnerType, OwnersInv
<1>3. LifeOk'
  BY <1>0 DEF LifeOk, OwnersInv
<1>4. None \notin allocated_buffers'
  BY <1>0, OwnerFacts
<1> QED BY <1>1, <1>2, <1>3, <1>4, OwnersFrame

\* Nobody searches before there are buffers.
LEMMA NoSearch ==
  ASSUME LayoutInv, OwnersInv, Starts = {}
  PROVE  SearchKept({}) /\ allocated_buffers = {}
<1>1. FreeIn(Starts) = {} /\ allocated_buffers = {}
  BY DEF FreeIn, LayoutInv
<1>2. \A x \in Txns : tpc[x] # "find"
  BY <1>1, OwnerFacts
<1> QED BY <1>1, <1>2 DEF SearchKept

\* A list without buffers, and one with a single free buffer, are sound.
LEMMA NoBuffers ==
  ASSUME LayoutInv, Starts' = {}, buffer_size' \in {0, Length}, free_buffers' = <<>>, allocated_buffers' = {},
         pages' \in [Page -> {NoPage, OnLru}], free_async_space' = free_async_space
  PROVE  LayoutInv'
<1>1. PICK L : L = buffer_size'
  OBVIOUS
<1>2. Tiling({}, {}, L)
  BY <1>1, PageEnds DEF Tiling
<1>3. TreeOf(free_buffers', {}, {}, L)
  <2>1. free_buffers' \in Seq(Addr) /\ DOMAIN free_buffers' = {}
    OBVIOUS
  <2> QED BY <2>1 DEF TreeOf, Range, IsInjective, Ordered
<1>4. NoPage # Active /\ OnLru # Active
  <2>1. NoPage.page_ptr = FALSE /\ Active.page_ptr = TRUE /\ OnLru.lru = TRUE /\ Active.lru = FALSE
    BY DEF NoPage, Active, OnLru
  <2> QED BY <2>1
<1>5. \A p \in Page : pages'[p] # Active
  BY <1>4
<1>6. pages' \in [Page -> {NoPage, Active, OnLru}]
  OBVIOUS
<1>7. free_async_space' \in 0 .. SizeT - 1
  BY DEF LayoutInv, HeapType
<1>8. PICK T, G : T = {} /\ G = {}
  OBVIOUS
<1>9. G = {b \in T : buffers'[b].free}
  BY <1>8
<1>10. /\ T = Starts' /\ L \in {0, Length} /\ (L = 0 => T = {}) /\ T \subseteq Addr /\ T \ G = {} /\ allocated_buffers' = T \ G
       /\ \A b \in T : buffers'[b] \in BufferRecord
  BY <1>1, <1>8
<1>11. /\ \A p \in Page : pages'[p] = Active <=> \E b \in T \ G : Touches(T, L, b, p)
       /\ \A b \in T \ G : /\ buffers'[b].req \in Requests /\ SizeValid(buffers'[b].req)
                           /\ End(T, L, b) - b = PaddedSize(buffers'[b].req)
       /\ \A b \in G : buffers'[b] = FreeBuffer
  BY <1>5, <1>8
<1>12. Tiling(T, G, L) /\ TreeOf(free_buffers', T, G, L)
  BY <1>2, <1>3, <1>8
<1> QED BY <1>1, <1>6, <1>7, <1>9, <1>10, <1>11, <1>12, LayoutNext

\* What LayoutInv says before the first mmap and while it runs.
LEMMA EmptyFacts ==
  ASSUME LayoutInv, Starts = {}
  PROVE  /\ free_buffers = <<>> /\ allocated_buffers = {} /\ buffer_size \in {0, Length}
         /\ pages \in [Page -> {NoPage, OnLru}]
<1>1. FreeIn(Starts) = {} /\ allocated_buffers = {} /\ buffer_size \in {0, Length}
  BY DEF FreeIn, LayoutInv, HeapType
<1>2. free_buffers \in Seq(Addr) /\ Range(free_buffers) = {}
  BY <1>1 DEF LayoutInv, TreeOf
<1>3. free_buffers = <<>>
  <2>1. Len(free_buffers) = 0
    <3>1. SUFFICES ASSUME Len(free_buffers) # 0 PROVE FALSE
      OBVIOUS
    <3>2. 1 \in DOMAIN free_buffers
      BY <1>2, <3>1
    <3> QED BY <1>2, <3>2 DEF Range
  <2> QED BY <1>2, <2>1
<1>4. pages \in [Page -> {NoPage, Active, OnLru}] /\ \A p \in Page : pages[p] # Active
  BY <1>1 DEF LayoutInv, HeapType
<1>5. pages \in [Page -> {NoPage, OnLru}]
  BY <1>4
<1> QED BY <1>1, <1>3, <1>5

\* binder_alloc_mmap_handler claims the allocator or gives it up again: there is no buffer yet.
LEMMA MmapStep ==
  ASSUME AllocInv, MmapClaim \/ MmapFails
  PROVE  AllocInv'
<1>1. LayoutInv /\ OwnersInv /\ failed = {}
  BY DEF AllocInv
<1>2. Starts = {} /\ buffer_size' \in {0, Length}
  BY <1>1 DEF MmapClaim, MmapFails, Claimed, LayoutInv
<1>3. /\ buffers' = buffers /\ free_buffers' = free_buffers /\ allocated_buffers' = allocated_buffers
      /\ pages' = pages /\ free_async_space' = free_async_space /\ failed' = failed /\ vma' = vma /\ mm' = mm
      /\ UNCHANGED <<mutex, txnVars, freerVars, life, stuck, allocated_buffers>>
  BY DEF MmapClaim, MmapFails, heapVars
<1>4. LayoutInv'
  <2>1. Starts' = {}
    BY <1>2, <1>3 DEF Starts
  <2>2. free_buffers = <<>> /\ allocated_buffers = {} /\ pages \in [Page -> {NoPage, OnLru}]
    BY <1>1, <1>2, EmptyFacts
  <2> QED BY <1>1, <1>2, <1>3, <2>1, <2>2, NoBuffers
<1>5. OwnersInv'
  <2>1. SearchKept({}) /\ allocated_buffers = {}
    BY <1>1, <1>2, NoSearch
  <2>2. vma' \in BOOLEAN /\ mm' \in BOOLEAN /\ (vma' => vma \/ life = "open")
    BY <1>1, <1>3 DEF OwnersInv, OwnerType
  <2> QED BY <1>1, <1>3, <2>1, <2>2, OwnersSame
<1> QED BY <1>1, <1>3, <1>4, <1>5 DEF AllocInv

\* The mapping begins as one free buffer.
LEMMA MmapReadyStep ==
  ASSUME AllocInv, MmapReady
  PROVE  AllocInv'
<1>1. LayoutInv /\ OwnersInv /\ failed = {}
  BY DEF AllocInv
<1>2. Starts = {} /\ life = "open" /\ buffer_size = Length
  BY <1>1 DEF MmapReady, Claimed, LayoutInv, HeapType
<1>3. /\ buffers' = [a \in {0} |-> FreeBuffer] /\ free_buffers' = <<0>>
      /\ free_async_space' = buffer_size \div 2 /\ vma' = TRUE /\ mm' = mm /\ buffer_size' = buffer_size
      /\ allocated_buffers' = allocated_buffers /\ pages' = pages /\ failed' = failed
      /\ UNCHANGED <<mutex, txnVars, freerVars, life, stuck, allocated_buffers>>
  BY DEF MmapReady
<1>4. PICK T, L : T = {0} /\ L = Length /\ L \in Nat \ {0}
  BY PageEnds
<1>5. LayoutInv'
  <2>1. allocated_buffers = {} /\ pages \in [Page -> {NoPage, OnLru}]
    BY <1>1, <1>2, EmptyFacts
  <2>2. T = Starts' /\ buffers'[0] = FreeBuffer /\ FreeBuffer.free /\ FreeBuffer \in BufferRecord
    BY <1>3, <1>4 DEF Starts, FreeBuffer, BufferRecord
  <2>3. T = {b \in T : buffers'[b].free}
    BY <1>4, <2>2
  <2>4. End(T, L, 0) = L
    <3>1. NextIs(T, L, 0, L)
      BY <1>4 DEF NextIs
    <3>2. T \subseteq 0 .. L - 1 /\ 0 \in 0 .. L - 1
      BY <1>4
    <3> QED BY <1>4, <3>1, <3>2, EndFrom
  <2>5. Tiling(T, T, L)
    BY <1>4, <2>4 DEF Tiling
  <2>6. TreeOf(free_buffers', T, T, L)
    <3>1. 0 \in Addr
      BY <1>4 DEF Addr
    <3>2. free_buffers' \in Seq(Addr) /\ DOMAIN free_buffers' = {1} /\ free_buffers'[1] = 0
      BY <1>3, <3>1
    <3>3. Range(free_buffers') = T
      BY <1>4, <3>2 DEF Range
    <3>4. IsInjective(free_buffers')
      BY <3>2 DEF IsInjective
    <3>5. Ordered(free_buffers', T, L)
      BY <3>2 DEF Ordered
    <3> QED BY <3>2, <3>3, <3>4, <3>5 DEF TreeOf
  <2>7. \A p \in Page : pages'[p] # Active
    <3>1. NoPage # Active /\ OnLru # Active
      <4>1. NoPage.page_ptr = FALSE /\ Active.page_ptr = TRUE /\ OnLru.lru = TRUE /\ Active.lru = FALSE
        BY DEF NoPage, Active, OnLru
      <4> QED BY <4>1
    <3> QED BY <1>3, <2>1, <3>1
  <2>8. /\ L = buffer_size' /\ L \in {0, Length} /\ (L = 0 => T = {}) /\ T \subseteq Addr /\ T \ T = {}
        /\ allocated_buffers' = T \ T /\ \A b \in T : buffers'[b] \in BufferRecord
    BY <1>2, <1>3, <1>4, <2>1, <2>2 DEF Addr
  <2>9. pages' \in [Page -> {NoPage, Active, OnLru}]
    BY <1>3, <2>1
  <2>10. free_async_space' \in 0 .. SizeT - 1
    <3>1. Length < SizeT /\ Length \in Nat /\ SizeT \in Nat
      BY AllocAssumption, PageEnds
    <3>2. Length \div 2 \in 0 .. SizeT - 1
      BY ONLY <3>1
    <3> QED BY <1>2, <1>3, <3>2
  <2>11. /\ \A p \in Page : pages'[p] = Active <=> \E b \in T \ T : Touches(T, L, b, p)
         /\ \A b \in T \ T : /\ buffers'[b].req \in Requests /\ SizeValid(buffers'[b].req)
                             /\ End(T, L, b) - b = PaddedSize(buffers'[b].req)
         /\ \A b \in T : buffers'[b] = FreeBuffer
    BY <1>4, <2>2, <2>7
  <2> QED BY <2>2, <2>3, <2>5, <2>6, <2>8, <2>9, <2>10, <2>11, LayoutNext
<1>6. OwnersInv'
  <2>1. SearchKept({}) /\ allocated_buffers = {}
    BY <1>1, <1>2, NoSearch
  <2>2. vma' \in BOOLEAN /\ mm' \in BOOLEAN /\ (vma' => vma \/ life = "open")
    BY <1>1, <1>2, <1>3 DEF OwnersInv, OwnerType
  <2> QED BY <1>1, <1>3, <2>1, <2>2, OwnersSame
<1> QED BY <1>1, <1>3, <1>5, <1>6 DEF AllocInv

\* Nothing of the heap changes.
LEMMA HeapSame ==
  ASSUME LayoutInv, UNCHANGED <<buffer_size, heapVars>>
  PROVE  LayoutInv' /\ SearchKept(Txns) /\ (mutex' = mutex => SearchKept({}))
<1>1. /\ buffers' = buffers /\ free_buffers' = free_buffers /\ allocated_buffers' = allocated_buffers
      /\ pages' = pages /\ free_async_space' = free_async_space /\ buffer_size' = buffer_size
  BY DEF heapVars
<1>2. LayoutInv'
  <2>1. pages' \in [Page -> {NoPage, Active, OnLru}]
    BY <1>1 DEF LayoutInv, HeapType
  <2> QED BY <1>1, <2>1, PagesStep
<1>3. Starts' = Starts /\ FreeIn(Starts)' = FreeIn(Starts)
  BY <1>1 DEF Starts, FreeIn
<1> QED BY <1>1, <1>2, <1>3 DEF SearchKept

\* binder_vma_close, and the end of the mm.
LEMMA VmaStep ==
  ASSUME AllocInv, VmaClose \/ MmExit
  PROVE  AllocInv'
<1>1. LayoutInv /\ OwnersInv /\ failed = {}
  BY DEF AllocInv
<1>2. /\ UNCHANGED <<buffer_size, heapVars>> /\ failed' = failed /\ vma' \in BOOLEAN /\ mm' \in BOOLEAN
      /\ (vma' => vma) /\ mutex' = mutex
      /\ UNCHANGED <<mutex, txnVars, freerVars, life, stuck, allocated_buffers>>
      /\ buffers' = buffers
  <2>1. vma \in BOOLEAN /\ mm \in BOOLEAN
    BY <1>1 DEF OwnersInv, OwnerType
  <2>2. CASE VmaClose
    BY <2>1, <2>2 DEF VmaClose, heapVars
  <2>3. CASE MmExit
    BY <2>1, <2>3 DEF MmExit, heapVars
  <2> QED BY <2>2, <2>3
<1>3. LayoutInv' /\ SearchKept({})
  BY <1>1, <1>2, HeapSame
<1>4. OwnersInv'
  BY <1>1, <1>2, <1>3, OwnersSame
<1> QED BY <1>1, <1>2, <1>3, <1>4 DEF AllocInv

\* The lru callback frees a page no buffer is in.
LEMMA FreePageStep ==
  ASSUME AllocInv, NEW p \in Page, FreePage(p)
  PROVE  AllocInv'
<1>1. LayoutInv /\ OwnersInv /\ failed = {}
  BY DEF AllocInv
<1>2. /\ pages[p].lru /\ pages' = [pages EXCEPT ![p] = NoPage] /\ failed' = failed
      /\ UNCHANGED <<buffer_size, buffers, free_buffers, allocated_buffers, free_async_space>>
      /\ vma' = vma /\ mm' = mm
      /\ UNCHANGED <<mutex, txnVars, freerVars, life, stuck, allocated_buffers>>
  BY DEF FreePage, mapVars
<1>3. LayoutInv'
  <2>1. pages \in [Page -> {NoPage, Active, OnLru}]
    BY <1>1 DEF LayoutInv, HeapType
  <2>2. NoPage # Active /\ ~Active.lru
    <3>1. NoPage.page_ptr = FALSE /\ Active.page_ptr = TRUE /\ ~Active.lru
      BY DEF NoPage, Active
    <3> QED BY <3>1
  <2>3. \A q \in Page : pages'[q] = Active <=> pages[q] = Active
    BY <1>2, <2>1, <2>2
  <2>4. pages' \in [Page -> {NoPage, Active, OnLru}]
    BY <1>2, <2>1
  <2> QED BY <1>1, <1>2, <2>3, <2>4, PagesStep
<1>4. OwnersInv'
  <2>1. SearchKept({})
    BY <1>2 DEF SearchKept, Starts, FreeIn
  <2>2. vma' \in BOOLEAN /\ mm' \in BOOLEAN /\ (vma' => vma \/ life = "open")
    BY <1>1, <1>2 DEF OwnersInv, OwnerType
  <2> QED BY <1>1, <1>2, <2>1, <2>2, OwnersSame
<1> QED BY <1>1, <1>2, <1>3, <1>4 DEF AllocInv

-----------------------------------------------------------------------------
(* The steps of an allocation.                                             *)

\* Only one searches at a time, under alloc->mutex.
LEMMA OneSearch ==
  ASSUME LayoutInv, OwnersInv, NEW t, mutex = None \/ (t \in Txns /\ tpc[t] = "find")
  PROVE  SearchKept({t})
<1>1. None \notin Txns /\ \A x \in Txns : tpc[x] = "find" => mutex = x
  BY OwnerFacts
<1>2. \A x \in Txns \ {t} : tpc[x] # "find"
  BY <1>1
<1> QED BY <1>2 DEF SearchKept

\* The search under the mutex finds a free buffer that is large enough.
LEMMA NewBufFindStep ==
  ASSUME AllocInv, NEW t \in Txns, NEW r \in Requests, NEW a \in Addr, NewBufFind(t, r, a)
  PROVE  AllocInv'
<1>1. LayoutInv /\ OwnersInv /\ failed = {}
  BY DEF AllocInv
<1>2. /\ tpc[t] = "idle" /\ life = "open" /\ mutex = None /\ SizeValid(r)
      /\ a \in BestFits(PaddedSize(r)) /\ mutex' = t
      /\ tpc' = [tpc EXCEPT ![t] = "find"] /\ treq' = [treq EXCEPT ![t] = r] /\ tbuf' = [tbuf EXCEPT ![t] = a]
  BY DEF NewBufFind
<1>3. /\ buffer_size' = buffer_size /\ vma' = vma /\ mm' = mm /\ stuck' = stuck /\ UNCHANGED heapVars
      /\ upc' = upc /\ ubuf' = ubuf /\ life' = life /\ failed' = failed
  BY DEF NewBufFind, mapVars, freerVars
<1>4. /\ buffers' = buffers /\ free_buffers' = free_buffers /\ allocated_buffers' = allocated_buffers
  BY <1>3 DEF heapVars
<1>5. LayoutInv'
  BY <1>1, <1>3, HeapSame
<1>6. /\ tpc \in [Txns -> {"idle", "find", "alloc", "failed", "queued", "delivered"}]
      /\ treq \in [Txns -> Requests \cup {NoRequest}] /\ tbuf \in [Txns -> Addr \cup {None}]
  BY <1>1 DEF OwnersInv, OwnerType
<1>7. /\ tpc'[t] = "find" /\ treq'[t] = r /\ tbuf'[t] = a
      /\ \A x \in Txns \ {t} : tpc'[x] = tpc[x] /\ treq'[x] = treq[x] /\ tbuf'[x] = tbuf[x]
  BY <1>2, <1>6
<1>8. Fits(a, PaddedSize(r)) /\ a \in FreeIn(Starts)
  <2>0. PICK S, F, L, n : S = Starts /\ F = FreeIn(Starts) /\ L = buffer_size /\ n = PaddedSize(r)
    OBVIOUS
  <2>1. Tiling(S, F, L) /\ TreeOf(free_buffers, S, F, L) /\ F \subseteq S
    BY <1>1, <2>0, LayoutFacts
  <2>2. free_buffers \in Seq(Addr) /\ Range(free_buffers) = F /\ \A b \in S : b \in Int /\ End(S, L, b) \in Int
    BY <2>1, TilingFacts DEF TreeOf
  <2>3. \A b : SizeIn(Starts, b) = End(S, L, b) - b
    BY <2>0, EndOfIsEnd DEF SizeIn
  <2>4. n \in Nat
    <3>1. SizesOk(r, PaddedSize(r))
      BY <1>2, SizeFacts
    <3> QED BY <2>0, <3>1 DEF SizesOk
  <2>5. CASE a \in {b \in Range(free_buffers) : SizeIn(Starts, b) = n}
    <3>1. a \in F /\ End(S, L, a) - a = n
      BY <2>2, <2>3, <2>5
    <3> QED BY <2>0, <2>4, <3>1 DEF Fits, FitsIn
  <2>6. CASE \E i \in Gaps(free_buffers, {b \in Starts : SizeIn(Starts, b) < n}, {b \in Starts : n < SizeIn(Starts, b)})
                       \ {Len(free_buffers)} : a = free_buffers[i + 1]
    <3>1. PICK i \in Gaps(free_buffers, {b \in Starts : SizeIn(Starts, b) < n}, {b \in Starts : n < SizeIn(Starts, b)}) :
            i # Len(free_buffers) /\ a = free_buffers[i + 1]
      BY <2>6
    <3>2. /\ i \in 0 .. Len(free_buffers) /\ (i > 0 => free_buffers[i] \in {b \in Starts : SizeIn(Starts, b) < n})
          /\ i < Len(free_buffers) => free_buffers[i + 1] \in {b \in Starts : n < SizeIn(Starts, b)}
      BY <3>1 DEF Gaps
    <3>3. i < Len(free_buffers) /\ i + 1 \in DOMAIN free_buffers /\ (i + 1 > 1 => i > 0) /\ (i + 1) - 1 = i
      BY <2>2, <3>1, <3>2
    <3>4. a \in F /\ n < End(S, L, a) - a
      BY <2>2, <2>3, <3>1, <3>2, <3>3 DEF Range
    <3>5. i + 1 > 1 => End(S, L, free_buffers[(i + 1) - 1]) - free_buffers[(i + 1) - 1] < n
      BY <2>3, <3>2, <3>3
    <3>6. n <= End(S, L, a) - a
      <4>1. End(S, L, a) - a \in Int
        BY <2>1, <2>2, <3>4
      <4> QED BY <2>4, <3>4, <4>1
    <3>7. FitsIn(free_buffers, S, F, L, a, n)
      BY <3>1, <3>3, <3>4, <3>5, <3>6 DEF FitsIn
    <3> QED BY <2>0, <3>4, <3>7 DEF Fits
  <2> QED BY <1>2, <2>0, <2>5, <2>6 DEF BestFits
<1>9. a \notin allocated_buffers /\ a # None /\ None \notin Txns
  BY <1>1, <1>8, OwnerFacts
<1>10. \A x \in Txns : tbuf[x] # a
  <2>1. SUFFICES ASSUME NEW x \in Txns, tbuf[x] = a PROVE FALSE
    OBVIOUS
  <2>2. TxnOk(x) /\ tpc[x] # "find" /\ tpc[x] \in {"idle", "find", "alloc", "failed", "queued", "delivered"}
    BY <1>1, <1>2, OwnerFacts
  <2> QED BY <1>9, <2>1, <2>2 DEF TxnOk
<1>11. \A u \in Freers : ubuf[u] # a
  <2>1. \A u \in Freers : FreerOk(u)
    BY <1>1 DEF OwnersInv
  <2> QED BY <1>9, <2>1 DEF FreerOk
<1>12. TxnOk(t) /\ tbuf[t] = None
  BY <1>1, <1>2 DEF OwnersInv, TxnOk
<1>13. AboutA(a, {t}, {})
  BY <1>3, <1>4, <1>7, <1>10, <1>11, <1>12 DEF AboutA
<1>14. SearchKept({t})
  BY <1>1, <1>2, OneSearch
<1>15. TxnOk(t)'
  <2>1. Fits(a, PaddedSize(r))'
    BY <1>3, <1>4, <1>8 DEF Fits, Starts, FreeIn
  <2> QED BY <1>2, <1>7, <1>9, <1>10, <2>1 DEF TxnOk
<1>16. OwnerType'
  BY <1>1, <1>2, <1>3, <1>6 DEF OwnersInv, OwnerType
<1>17. LifeOk'
  BY <1>1, <1>2, <1>3, <1>7 DEF OwnersInv, LifeOk
<1>18. OwnersInv'
  BY <1>1, <1>4, <1>9, <1>13, <1>14, <1>15, <1>16, <1>17, OwnersFrame
<1> QED BY <1>1, <1>3, <1>5, <1>18 DEF AllocInv

\* What the transaction that holds the mutex has found.
LEMMA FindFacts ==
  ASSUME LayoutInv, OwnersInv, NEW t \in Txns, tpc[t] = "find"
  PROVE  /\ mutex = t /\ treq[t] \in Requests /\ SizeValid(treq[t]) /\ Fits(tbuf[t], PaddedSize(treq[t]))
         /\ tbuf[t] \in FreeIn(Starts) /\ tbuf[t] \notin allocated_buffers /\ tbuf[t] # None
         /\ (\A x \in Txns \ {t} : tbuf[x] # tbuf[t]) /\ (\A u \in Freers : ubuf[u] # tbuf[t])
<1>1. TxnOk(t) /\ tbuf[t] \in FreeIn(Starts)
  BY OwnerFacts
<1>2. tbuf[t] \notin allocated_buffers /\ tbuf[t] # None
  BY <1>1, OwnerFacts
<1>3. \A u \in Freers : ubuf[u] # tbuf[t]
  <2>1. \A u \in Freers : FreerOk(u)
    BY DEF OwnersInv
  <2> QED BY <1>2, <2>1 DEF FreerOk
<1> QED BY <1>1, <1>2, <1>3 DEF TxnOk

\* An allocation that is refused gives up the mutex and the buffer it had found.
LEMMA RefusedStep ==
  ASSUME LayoutInv, OwnersInv, NEW t \in Txns, tpc[t] = "find", NewBufRefused(t)
  PROVE  OwnersInv'
<1>1. /\ mutex' = None /\ buffers' = buffers /\ allocated_buffers' = allocated_buffers
      /\ tpc' = [tpc EXCEPT ![t] = "idle"] /\ treq' = [treq EXCEPT ![t] = NoRequest]
      /\ tbuf' = [tbuf EXCEPT ![t] = None]
      /\ vma' = vma /\ mm' = mm /\ stuck' = stuck /\ upc' = upc /\ ubuf' = ubuf /\ life' = life
  BY DEF NewBufRefused, mapVars, freerVars
<1>2. /\ tpc \in [Txns -> {"idle", "find", "alloc", "failed", "queued", "delivered"}]
      /\ treq \in [Txns -> Requests \cup {NoRequest}] /\ tbuf \in [Txns -> Addr \cup {None}]
  BY DEF OwnersInv, OwnerType
<1>3. /\ tpc'[t] = "idle" /\ tbuf'[t] = None
      /\ \A x \in Txns \ {t} : tpc'[x] = tpc[x] /\ treq'[x] = treq[x] /\ tbuf'[x] = tbuf[x]
  BY <1>1, <1>2
<1>4. PICK a : a = tbuf[t]
  OBVIOUS
<1>5. /\ a \notin allocated_buffers /\ a # None
      /\ (\A x \in Txns \ {t} : tbuf[x] # a) /\ (\A u \in Freers : ubuf[u] # a)
  BY <1>4, FindFacts
<1>6. AboutA(a, {t}, {})
  BY <1>1, <1>3, <1>4, <1>5 DEF AboutA
<1>7. SearchKept({t})
  BY OneSearch
<1>8. TxnOk(t)'
  BY <1>3 DEF TxnOk
<1>9. OwnerType'
  BY <1>1, <1>2 DEF OwnersInv, OwnerType
<1>10. LifeOk'
  BY <1>1, <1>3 DEF OwnersInv, LifeOk
<1> QED BY <1>1, <1>5, <1>6, <1>7, <1>8, <1>9, <1>10, OwnersFrame

\* The three ways to be refused after the search.
LEMMA NewBufFailsStep ==
  ASSUME AllocInv, NEW t \in Txns, NewBufNoVma(t) \/ (\E f \in Page : NewBufPageFails(t, f)) \/ NewBufSplitFails(t)
  PROVE  AllocInv'
<1>1. LayoutInv /\ OwnersInv /\ failed = {}
  BY DEF AllocInv
<1>2. tpc[t] = "find" /\ NewBufRefused(t)
  BY DEF NewBufNoVma, NewBufPageFails, NewBufSplitFails
<1>3. OwnersInv'
  BY <1>1, <1>2, RefusedStep
<1>4. UNCHANGED <<buffer_size, buffers, free_buffers, allocated_buffers, free_async_space>>
  BY <1>2 DEF NewBufRefused, mapVars
<1>5. PICK P : P = TxnPages(t)
  OBVIOUS
<1>6. /\ \A p \in P : p \in Page /\ pages[p] \in {NoPage, OnLru}
      /\ ~LruDelWarns(P) /\ \A f : ~LruDelWarns({p \in P : p < f})
  <2>1. treq[t] \in Requests /\ SizeValid(treq[t]) /\ Fits(tbuf[t], PaddedSize(treq[t]))
    BY <1>1, <1>2, FindFacts
  <2>2. PICK a, r, s, S, F, L : a = tbuf[t] /\ r = treq[t] /\ s = PaddedSize(r) /\ S = Starts /\ F = FreeIn(Starts) /\ L = buffer_size
    OBVIOUS
  <2>3. P = PagesFor(a, s)
    BY <1>5, <2>2 DEF TxnPages
  <2>4. r \in Requests /\ SizeValid(r) /\ Fits(a, PaddedSize(r))
    BY <2>1, <2>2
  <2> QED BY <1>1, <2>2, <2>3, <2>4, FoundFacts
<1>7. CASE NewBufNoVma(t)
  <2>1. pages' = pages /\ failed' = failed
    BY <1>7 DEF NewBufNoVma
  <2>2. LayoutInv'
    BY <1>1, <1>4, <2>1, HeapSame DEF heapVars
  <2> QED BY <1>1, <1>3, <2>1, <2>2 DEF AllocInv
<1>8. ASSUME NEW f \in Page, NewBufPageFails(t, f) PROVE AllocInv'
  <2>1. /\ pages' = Undone(P, f)
        /\ failed' = failed \cup Warn(LruDelWarns({p \in P : p < f}), "lru_del")
    BY <1>5, <1>8 DEF NewBufPageFails
  <2>2. LayoutInv'
    BY <1>1, <1>4, <1>6, <2>1, UndoneStep
  <2>3. failed' = {}
    BY <1>1, <1>6, <2>1 DEF Warn
  <2> QED BY <1>3, <2>2, <2>3 DEF AllocInv
<1>9. CASE NewBufSplitFails(t)
  <2>1. pages' = Undone(P, NPages) /\ failed' = failed \cup Warn(LruDelWarns(P), "lru_del")
    BY <1>5, <1>9 DEF NewBufSplitFails
  <2>2. LayoutInv'
    BY <1>1, <1>4, <1>6, <2>1, UndoneStep
  <2>3. failed' = {}
    BY <1>1, <1>6, <2>1 DEF Warn
  <2> QED BY <1>3, <2>2, <2>3 DEF AllocInv
<1> QED BY <1>7, <1>8, <1>9

\* The allocation succeeds.
LEMMA NewBufDoneStep ==
  ASSUME AllocInv, NEW t \in Txns, NewBufDone(t)
  PROVE  AllocInv'
<1>1. LayoutInv /\ OwnersInv /\ failed = {}
  BY DEF AllocInv
<1>2. PICK a, r : a = tbuf[t] /\ r = treq[t]
  OBVIOUS
<1>3. /\ tpc[t] = "find" /\ mutex' = None /\ tpc' = [tpc EXCEPT ![t] = "alloc"]
      /\ treq' = treq /\ tbuf' = tbuf /\ buffer_size' = buffer_size /\ vma' = vma /\ mm' = mm
      /\ stuck' = stuck /\ upc' = upc /\ ubuf' = ubuf /\ life' = life
      /\ allocated_buffers' = allocated_buffers \cup {a}
  BY <1>2 DEF NewBufDone, mapVars, freerVars
<1>4. TakeEffect(a, r)
  BY <1>2 DEF NewBufDone, TxnPages, TakeEffect
<1>5. /\ mutex = t /\ r \in Requests /\ SizeValid(r) /\ Fits(a, PaddedSize(r))
      /\ a \notin allocated_buffers /\ a # None
      /\ (\A x \in Txns \ {t} : tbuf[x] # a) /\ (\A u \in Freers : ubuf[u] # a)
  BY <1>1, <1>2, <1>3, FindFacts
<1>6. /\ LayoutInv' /\ failed' = {}
      /\ buffers'[a] = NewBuffer(r) /\ \A b \in allocated_buffers : buffers'[b] = buffers[b]
  BY <1>1, <1>3, <1>4, <1>5, TakeStep
<1>7. tpc \in [Txns -> {"idle", "find", "alloc", "failed", "queued", "delivered"}]
  BY <1>1 DEF OwnersInv, OwnerType
<1>8. tpc'[t] = "alloc" /\ \A x \in Txns \ {t} : tpc'[x] = tpc[x]
  BY <1>3, <1>7
<1>9. AboutA(a, {t}, {})
  BY <1>2, <1>3, <1>5, <1>6, <1>8 DEF AboutA
<1>10. SearchKept({t})
  BY <1>1, <1>3, OneSearch
<1>11. ~NewBuffer(r).allow_user_free /\ NewBuffer(r).transaction = None /\ NewBuffer(r).req = r
  BY DEF NewBuffer
<1>12. TxnOk(t)'
  BY <1>2, <1>3, <1>5, <1>6, <1>8, <1>11 DEF TxnOk
<1>13. BufferOk(a)'
  BY <1>2, <1>3, <1>6, <1>11 DEF BufferOk
<1>14. OwnerType'
  BY <1>1, <1>3, <1>7 DEF OwnersInv, OwnerType
<1>15. LifeOk'
  BY <1>1, <1>3, <1>8 DEF OwnersInv, LifeOk
<1>16. OwnersInv'
  BY <1>1, <1>9, <1>10, <1>12, <1>13, <1>14, <1>15, OwnersFrame
<1> QED BY <1>6, <1>16 DEF AllocInv

-----------------------------------------------------------------------------
(* The steps of a transaction that has its buffer.                         *)

\* What is left of the heap when only the flags of one allocated buffer are set.
FlagsOnly(a) ==
  /\ LayoutInv' /\ Starts' = Starts /\ FreeIn(Starts)' = FreeIn(Starts)
  /\ buffers'[a].req = buffers[a].req /\ \A b \in Starts : b # a => buffers'[b] = buffers[b]

\* Tying a buffer to a transaction, or untying it.
LEMMA SetStep ==
  ASSUME LayoutInv, NEW a \in allocated_buffers, NEW x \in Txns \cup {None}, buffers' = SetTransaction(a, x),
         UNCHANGED <<buffer_size, free_buffers, allocated_buffers, pages, free_async_space>>
  PROVE  /\ FlagsOnly(a) /\ buffers'[a].transaction = x
         /\ buffers'[a].allow_user_free = buffers[a].allow_user_free
<1>1. buffers[a] \in BufferRecord /\ ~buffers[a].free
  BY LayoutFacts
<1>2. PICK rec : rec = [buffers[a] EXCEPT !.transaction = x]
  OBVIOUS
<1>3. /\ rec \in BufferRecord /\ ~rec.free /\ rec.req = buffers[a].req /\ rec.transaction = x
      /\ rec.allow_user_free = buffers[a].allow_user_free
  BY <1>1, <1>2 DEF BufferRecord
<1>4. buffers' = [buffers EXCEPT ![a] = rec]
  BY <1>2 DEF SetTransaction
<1>5. /\ LayoutInv' /\ Starts' = Starts /\ FreeIn(Starts)' = FreeIn(Starts)
      /\ buffers'[a] = rec /\ \A b \in Starts : b # a => buffers'[b] = buffers[b]
  BY <1>3, <1>4, FlagsStep
<1> QED BY <1>3, <1>5 DEF FlagsOnly

\* Giving user space the right to free a buffer, or taking it away.
LEMMA AllowStep ==
  ASSUME LayoutInv, NEW a \in allocated_buffers, NEW v \in BOOLEAN,
         buffers' = [buffers EXCEPT ![a].allow_user_free = v],
         UNCHANGED <<buffer_size, free_buffers, allocated_buffers, pages, free_async_space>>
  PROVE  /\ FlagsOnly(a) /\ buffers'[a].allow_user_free = v
         /\ buffers'[a].transaction = buffers[a].transaction
<1>1. buffers[a] \in BufferRecord /\ ~buffers[a].free
  BY LayoutFacts
<1>2. PICK rec : rec = [buffers[a] EXCEPT !.allow_user_free = v]
  OBVIOUS
<1>3. /\ rec \in BufferRecord /\ ~rec.free /\ rec.req = buffers[a].req /\ rec.transaction = buffers[a].transaction
      /\ rec.allow_user_free = v
  BY <1>1, <1>2 DEF BufferRecord
<1>4. buffers' = [buffers EXCEPT ![a] = rec]
  BY <1>2
<1>5. /\ LayoutInv' /\ Starts' = Starts /\ FreeIn(Starts)' = FreeIn(Starts)
      /\ buffers'[a] = rec /\ \A b \in Starts : b # a => buffers'[b] = buffers[b]
  BY <1>3, <1>4, FlagsStep
<1> QED BY <1>3, <1>5 DEF FlagsOnly

\* A transaction that has its buffer to itself.
LEMMA HolderFacts ==
  ASSUME LayoutInv, OwnersInv, NEW t \in Txns, tpc[t] \in {"alloc", "failed", "queued"}, NEW a, a = tbuf[t]
  PROVE  /\ a \in allocated_buffers /\ ~buffers[a].allow_user_free /\ a # None /\ a \in Starts
         /\ (\A u \in Freers : ubuf[u] # a) /\ (\A x \in Txns \ {t} : tbuf[x] # a)
         /\ tpc[t] \in {"alloc", "failed"} => buffers[a].transaction = None
         /\ tpc[t] = "alloc" => buffers[a].req = treq[t]
         /\ tpc[t] = "queued" => buffers[a].transaction = t
<1>1. TxnOk(t) /\ None \notin allocated_buffers /\ \A b \in allocated_buffers : b \in Starts
  BY OwnerFacts
<1> QED BY <1>1 DEF TxnOk

\* A step of one transaction with its buffer that leaves the heap as it is but for the flags.
TxnAlone(t) ==
  /\ UNCHANGED <<allocated_buffers, free_buffers, buffer_size, vma, mm, mutex, upc, ubuf, life>>
  /\ \A x \in Txns \ {t} : tpc'[x] = tpc[x] /\ treq'[x] = treq[x] /\ tbuf'[x] = tbuf[x]
  /\ stuck \subseteq stuck' /\ tpc[t] # "find"
  /\ tpc' \in [Txns -> {"idle", "find", "alloc", "failed", "queued", "delivered"}]
  /\ treq' \in [Txns -> Requests \cup {NoRequest}] /\ tbuf' \in [Txns -> Addr \cup {None}]

\* What such a step has to show.
LEMMA TxnAloneStep ==
  ASSUME LayoutInv, OwnersInv, NEW t \in Txns, TxnAlone(t), NEW a, a \in allocated_buffers, FlagsOnly(a), a = tbuf[t],
         \A x \in Txns \ {t} : tbuf[x] # a, tbuf'[t] \in {a, None},
         NEW US, \A u \in Freers \ US : ubuf[u] # a, \A u \in Freers \cap US : ubuf[u] = a /\ FreerOk(u)',
         TxnOk(t)', BufferOk(a)', life \in {"open", "dead"}
  PROVE  OwnersInv'
<1>1. \A b \in allocated_buffers : b # a => buffers'[b] = buffers[b]
  BY OwnerFacts DEF FlagsOnly
<1>2. AboutA(a, {t}, US)
  BY <1>1 DEF AboutA, TxnAlone
<1>3. SearchKept({t})
  BY DEF SearchKept, TxnAlone, FlagsOnly
<1>4. OwnerType'
  BY DEF TxnAlone, OwnersInv, OwnerType
<1>5. LifeOk'
  BY DEF TxnAlone, OwnersInv, OwnerType, LifeOk
<1> QED BY <1>2, <1>3, <1>4, <1>5, OwnersFrame

\* While a transaction is under way the process is not released.
LEMMA AliveFacts ==
  ASSUME OwnersInv, NEW t \in Txns, tpc[t] # "idle"
  PROVE  life \in {"open", "dead"}
BY DEF OwnersInv, OwnerType, LifeOk

\* binder_alloc_copy_user_to_buffer finds its checks true and the pages it writes to held.
LEMMA CopyFacts ==
  ASSUME LayoutInv, OwnersInv, NEW t \in Txns, tpc[t] = "alloc", NEW a, a = tbuf[t], NEW r, r = treq[t]
  PROVE  check_buffer(a, r) /\ \A p \in CopyPages(a, r) : pages[p] = Active
<1>1. PICK S, F, L, n : S = Starts /\ F = FreeIn(Starts) /\ L = buffer_size /\ n = PaddedSize(r)
  OBVIOUS
<1>2. /\ a \in allocated_buffers /\ ~buffers[a].allow_user_free /\ buffers[a].req = r
  BY HolderFacts
<1>3. /\ Tiling(S, F, L) /\ allocated_buffers = S \ F /\ (\A b \in S : b \in F <=> buffers[b].free)
      /\ (S # {} => L = Length)
      /\ \A p \in Page : pages[p] = Active <=> \E b \in S \ F : Touches(S, L, b, p)
  BY <1>1, LayoutFacts
<1>4. r \in Requests /\ SizeValid(r) /\ End(S, L, a) - a = n
  BY <1>1, <1>2 DEF LayoutInv, SizeExact
<1>5. SizesOk(r, n)
  BY <1>1, <1>4, SizeFacts
<1>6. PICK d, o, ad : /\ d = r.data /\ o = r.offsets /\ ad = Align(r.data) /\ d \in Nat /\ o \in Nat /\ ad \in Nat
                      /\ n \in Nat /\ d <= n /\ ad + o <= n
  BY <1>5 DEF SizesOk
<1>7. PICK e : e = End(S, L, a) /\ a \in Int /\ e \in Int /\ 0 <= a /\ a < e /\ e <= L /\ e = a + n /\ L = Length
  <2>1. a \in S /\ a \in 0 .. L - 1 /\ a \in Int /\ End(S, L, a) \in Int /\ a < End(S, L, a) /\ End(S, L, a) <= L
    BY <1>2, <1>3, TilingFacts
  <2>2. 0 <= a /\ L = Length
    BY <1>3, <2>1
  <2> QED BY <1>4, <1>6, <2>1, <2>2
<1>8. check_buffer(a, r)
  <2>1. SizeIn(Starts, a) = n
    BY <1>1, <1>4, EndOfIsEnd DEF SizeIn
  <2>2. ~buffers[a].free
    BY <1>2, <1>3
  <2>3. n >= d /\ n >= ad + o
    BY <1>6
  <2> QED BY <1>2, <1>6, <2>1, <2>2, <2>3 DEF check_buffer
<1>9. ASSUME NEW b \in Int, a <= b, b < e PROVE pages[PageOf(b)] = Active
  <2>1. PageOf(a) <= PageOf(b) /\ PageOf(b) <= PageOf(e - 1) /\ PageOf(b) \in Int
    <3>1. b <= e - 1 /\ e - 1 \in Int
      BY <1>7, <1>9
    <3> QED BY <1>7, <1>9, <3>1, PageMono, PageFacts
  <2>2. PageOf(b) \in Page
    <3>1. 0 <= b /\ b <= Length - 1 /\ Length - 1 \in Int
      BY <1>7, <1>9, PageEnds
    <3>2. PageOf(0) <= PageOf(b) /\ PageOf(b) <= PageOf(Length - 1)
      BY <1>9, <3>1, PageMono
    <3> QED BY <2>1, <3>2, PageEnds, AllocAssumption DEF Page
  <2>3. Touches(S, L, a, PageOf(b))
    BY <1>7, <2>1 DEF Touches
  <2> QED BY <1>2, <1>3, <2>2, <2>3
<1>10. ASSUME NEW p \in CopyPages(a, r) PROVE pages[p] = Active
  <2>1. PICK b \in (a .. a + d - 1) \cup (a + ad .. a + ad + o - 1) : p = PageOf(b)
    BY <1>6, <1>10 DEF CopyPages
  <2>2. b \in Int /\ a <= b /\ b < e
    <3>1. CASE b \in a .. a + d - 1
      BY <1>6, <1>7, <3>1
    <3>2. CASE b \in a + ad .. a + ad + o - 1
      BY <1>6, <1>7, <3>2
    <3> QED BY <2>1, <3>1, <3>2
  <2> QED BY <1>9, <2>1, <2>2
<1> QED BY <1>8, <1>10

\* The copy, and the queue or the error path.
LEMMA CopyAndQueueStep ==
  ASSUME AllocInv, NEW t \in Txns, CopyAndQueue(t)
  PROVE  AllocInv'
<1>1. LayoutInv /\ OwnersInv /\ failed = {}
  BY DEF AllocInv
<1>2. PICK a, r : a = tbuf[t] /\ r = treq[t]
  OBVIOUS
<1>3. /\ tpc[t] = "alloc"
      /\ failed' = failed \cup Warn(~check_buffer(a, r), "check_buffer")
           \cup Warn(\E p \in CopyPages(a, r) : pages[p] # Active, "copy to a page not held")
      /\ \/ buffers' = SetTransaction(a, t) /\ tpc' = [tpc EXCEPT ![t] = "queued"]
         \/ buffers' = SetTransaction(a, None) /\ tpc' = [tpc EXCEPT ![t] = "failed"]
  BY <1>2 DEF CopyAndQueue, Untied
<1>4. /\ UNCHANGED <<buffer_size, free_buffers, allocated_buffers, pages, free_async_space>>
      /\ UNCHANGED <<allocated_buffers, free_buffers, buffer_size, vma, mm, mutex, upc, ubuf, life>>
      /\ stuck' = stuck /\ treq' = treq /\ tbuf' = tbuf
  BY DEF CopyAndQueue, mapVars, freerVars
<1>5. failed' = {}
  BY <1>1, <1>2, <1>3, CopyFacts DEF Warn
<1>6. /\ a \in allocated_buffers /\ ~buffers[a].allow_user_free /\ a # None /\ a \in Starts
      /\ (\A u \in Freers : ubuf[u] # a) /\ (\A x \in Txns \ {t} : tbuf[x] # a)
  BY <1>1, <1>2, <1>3, HolderFacts
<1>7. /\ tpc \in [Txns -> {"idle", "find", "alloc", "failed", "queued", "delivered"}]
      /\ treq \in [Txns -> Requests \cup {NoRequest}] /\ tbuf \in [Txns -> Addr \cup {None}]
  BY <1>1 DEF OwnersInv, OwnerType
<1>8. TxnAlone(t)
  BY <1>3, <1>4, <1>7 DEF TxnAlone
<1>9. life \in {"open", "dead"}
  BY <1>1, <1>3, AliveFacts
<1>10. CASE buffers' = SetTransaction(a, t) /\ tpc' = [tpc EXCEPT ![t] = "queued"]
  <2>1. FlagsOnly(a) /\ buffers'[a].transaction = t /\ buffers'[a].allow_user_free = buffers[a].allow_user_free
    BY <1>1, <1>4, <1>6, <1>10, SetStep
  <2>2. tpc'[t] = "queued"
    BY <1>7, <1>10
  <2>3. TxnOk(t)'
    BY <1>2, <1>4, <1>6, <2>1, <2>2 DEF TxnOk
  <2>4. BufferOk(a)'
    BY <1>2, <1>4, <2>1, <2>2 DEF BufferOk
  <2>5. OwnersInv'
    BY <1>1, <1>2, <1>4, <1>6, <1>8, <1>9, <2>1, <2>3, <2>4, TxnAloneStep
  <2> QED BY <1>5, <2>1, <2>5 DEF AllocInv, FlagsOnly
<1>11. CASE buffers' = SetTransaction(a, None) /\ tpc' = [tpc EXCEPT ![t] = "failed"]
  <2>1. FlagsOnly(a) /\ buffers'[a].transaction = None /\ buffers'[a].allow_user_free = buffers[a].allow_user_free
    BY <1>1, <1>4, <1>6, <1>11, SetStep
  <2>2. tpc'[t] = "failed"
    BY <1>7, <1>11
  <2>3. TxnOk(t)'
    BY <1>2, <1>4, <1>6, <2>1, <2>2 DEF TxnOk
  <2>4. BufferOk(a)'
    BY <1>2, <1>4, <2>1, <2>2 DEF BufferOk
  <2>5. OwnersInv'
    BY <1>1, <1>2, <1>4, <1>6, <1>8, <1>9, <2>1, <2>3, <2>4, TxnAloneStep
  <2> QED BY <1>5, <2>1, <2>5 DEF AllocInv, FlagsOnly
<1> QED BY <1>3, <1>10, <1>11

\* The reader delivers, or its fixups fail.
LEMMA DeliverStep ==
  ASSUME AllocInv, NEW t \in Txns, Deliver(t) \/ FixupFails(t)
  PROVE  AllocInv'
<1>1. LayoutInv /\ OwnersInv /\ failed = {}
  BY DEF AllocInv
<1>2. PICK a : a = tbuf[t]
  OBVIOUS
<1>3. /\ tpc[t] = "queued"
      /\ \/ buffers' = [buffers EXCEPT ![a].allow_user_free = TRUE] /\ tpc' = [tpc EXCEPT ![t] = "delivered"]
         \/ buffers' = SetTransaction(a, None) /\ tpc' = [tpc EXCEPT ![t] = "failed"]
  BY <1>2 DEF Deliver, FixupFails, HandedOver
<1>4. /\ UNCHANGED <<buffer_size, free_buffers, allocated_buffers, pages, free_async_space>>
      /\ UNCHANGED <<allocated_buffers, free_buffers, buffer_size, vma, mm, mutex, upc, ubuf, life>>
      /\ stuck' = stuck /\ treq' = treq /\ tbuf' = tbuf /\ failed' = failed
  BY DEF Deliver, FixupFails, mapVars, freerVars
<1>6. /\ a \in allocated_buffers /\ ~buffers[a].allow_user_free /\ a # None /\ a \in Starts
      /\ (\A u \in Freers : ubuf[u] # a) /\ (\A x \in Txns \ {t} : tbuf[x] # a) /\ buffers[a].transaction = t
  BY <1>1, <1>2, <1>3, HolderFacts
<1>7. /\ tpc \in [Txns -> {"idle", "find", "alloc", "failed", "queued", "delivered"}]
      /\ treq \in [Txns -> Requests \cup {NoRequest}] /\ tbuf \in [Txns -> Addr \cup {None}]
  BY <1>1 DEF OwnersInv, OwnerType
<1>8. TxnAlone(t)
  BY <1>3, <1>4, <1>7 DEF TxnAlone
<1>9. life \in {"open", "dead"}
  BY <1>1, <1>3, AliveFacts
<1>10. CASE buffers' = [buffers EXCEPT ![a].allow_user_free = TRUE] /\ tpc' = [tpc EXCEPT ![t] = "delivered"]
  <2>1. FlagsOnly(a) /\ buffers'[a].allow_user_free /\ buffers'[a].transaction = t
    BY <1>1, <1>4, <1>6, <1>10, AllowStep
  <2>2. tpc'[t] = "delivered"
    BY <1>7, <1>10
  <2>3. TxnOk(t)'
    BY <1>2, <1>4, <1>6, <2>1, <2>2 DEF TxnOk
  <2>4. BufferOk(a)'
    BY <1>2, <1>4, <2>1, <2>2 DEF BufferOk
  <2>5. OwnersInv'
    BY <1>1, <1>2, <1>4, <1>6, <1>8, <1>9, <2>1, <2>3, <2>4, TxnAloneStep
  <2> QED BY <1>1, <1>4, <2>1, <2>5 DEF AllocInv, FlagsOnly
<1>11. CASE buffers' = SetTransaction(a, None) /\ tpc' = [tpc EXCEPT ![t] = "failed"]
  <2>1. FlagsOnly(a) /\ buffers'[a].transaction = None /\ buffers'[a].allow_user_free = buffers[a].allow_user_free
    BY <1>1, <1>4, <1>6, <1>11, SetStep
  <2>2. tpc'[t] = "failed"
    BY <1>7, <1>11
  <2>3. TxnOk(t)'
    BY <1>2, <1>4, <1>6, <2>1, <2>2 DEF TxnOk
  <2>4. BufferOk(a)'
    BY <1>2, <1>4, <2>1, <2>2 DEF BufferOk
  <2>5. OwnersInv'
    BY <1>1, <1>2, <1>4, <1>6, <1>8, <1>9, <2>1, <2>3, <2>4, TxnAloneStep
  <2> QED BY <1>1, <1>4, <2>1, <2>5 DEF AllocInv, FlagsOnly
<1> QED BY <1>3, <1>10, <1>11

\* The delivery fails: the buffer stays allocated without a holder, and is on record as stuck.
LEMMA DeliverFailsStep ==
  ASSUME AllocInv, NEW t \in Txns, DeliverFails(t)
  PROVE  AllocInv'
<1>1. LayoutInv /\ OwnersInv /\ failed = {}
  BY DEF AllocInv
<1>2. PICK a : a = tbuf[t]
  OBVIOUS
<1>3. /\ tpc[t] = "queued" /\ buffers' = SetTransaction(a, None) /\ stuck' = stuck \cup {a}
      /\ tpc' = [tpc EXCEPT ![t] = "idle"] /\ treq' = [treq EXCEPT ![t] = NoRequest]
      /\ tbuf' = [tbuf EXCEPT ![t] = None]
  BY <1>2 DEF DeliverFails, TxnDone
<1>4. /\ UNCHANGED <<buffer_size, free_buffers, allocated_buffers, pages, free_async_space>>
      /\ UNCHANGED <<allocated_buffers, free_buffers, buffer_size, vma, mm, mutex, upc, ubuf, life>>
      /\ failed' = failed
  BY DEF DeliverFails, mapVars, freerVars
<1>6. /\ a \in allocated_buffers /\ a # None /\ a \in Starts
      /\ (\A u \in Freers : ubuf[u] # a) /\ (\A x \in Txns \ {t} : tbuf[x] # a)
  BY <1>1, <1>2, <1>3, HolderFacts
<1>7. /\ tpc \in [Txns -> {"idle", "find", "alloc", "failed", "queued", "delivered"}]
      /\ treq \in [Txns -> Requests \cup {NoRequest}] /\ tbuf \in [Txns -> Addr \cup {None}]
  BY <1>1 DEF OwnersInv, OwnerType
<1>8. TxnAlone(t) /\ tpc'[t] = "idle" /\ tbuf'[t] = None
  BY <1>3, <1>4, <1>7 DEF TxnAlone
<1>9. life \in {"open", "dead"}
  BY <1>1, <1>3, AliveFacts
<1>10. FlagsOnly(a) /\ buffers'[a].transaction = None
  BY <1>1, <1>3, <1>4, <1>6, SetStep
<1>11. TxnOk(t)'
  BY <1>8 DEF TxnOk
<1>12. BufferOk(a)'
  BY <1>3, <1>10 DEF BufferOk
<1>13. OwnersInv'
  BY <1>1, <1>2, <1>4, <1>6, <1>8, <1>9, <1>10, <1>11, <1>12, TxnAloneStep
<1> QED BY <1>1, <1>4, <1>10, <1>13 DEF AllocInv, FlagsOnly

\* binder_free_transaction: the buffer, if the transaction still has one, is untied from it.
LEMMA DropStep ==
  ASSUME AllocInv, NEW t \in Txns, DropTransaction(t)
  PROVE  AllocInv'
<1>1. LayoutInv /\ OwnersInv /\ failed = {}
  BY DEF AllocInv
<1>2. PICK a : a = tbuf[t]
  OBVIOUS
<1>3. /\ tpc[t] = "delivered" \/ (tpc[t] = "queued" /\ life = "dead")
      /\ buffers' = IF a = None THEN buffers ELSE SetTransaction(a, None)
      /\ tpc' = [tpc EXCEPT ![t] = "idle"] /\ treq' = [treq EXCEPT ![t] = NoRequest]
      /\ tbuf' = [tbuf EXCEPT ![t] = None]
  BY <1>2 DEF DropTransaction, DropsTransaction, TxnDone
<1>4. /\ UNCHANGED <<buffer_size, free_buffers, allocated_buffers, pages, free_async_space>>
      /\ UNCHANGED <<allocated_buffers, free_buffers, buffer_size, vma, mm, mutex, upc, ubuf, life>>
      /\ failed' = failed /\ stuck' = stuck
  BY DEF DropTransaction, mapVars, freerVars
<1>5. /\ tpc \in [Txns -> {"idle", "find", "alloc", "failed", "queued", "delivered"}]
      /\ treq \in [Txns -> Requests \cup {NoRequest}] /\ tbuf \in [Txns -> Addr \cup {None}]
  BY <1>1 DEF OwnersInv, OwnerType
<1>6. TxnAlone(t) /\ tpc'[t] = "idle" /\ tbuf'[t] = None
  BY <1>3, <1>4, <1>5 DEF TxnAlone
<1>7. TxnOk(t)'
  BY <1>6 DEF TxnOk
<1>8. life \in {"open", "dead"}
  BY <1>1, <1>3, AliveFacts
<1>9. CASE a = None
  <2>1. buffers' = buffers
    BY <1>3, <1>9
  <2>2. LayoutInv' /\ SearchKept({})
    BY <1>1, <1>4, <2>1, HeapSame DEF heapVars
  <2>3. AboutA(None, {t}, {})
    BY <1>2, <1>4, <1>6, <1>9, <2>1 DEF AboutA, TxnAlone
  <2>4. SearchKept({t})
    BY <2>2 DEF SearchKept
  <2>5. OwnerType'
    BY <1>1, <1>6 DEF TxnAlone, OwnersInv, OwnerType
  <2>6. LifeOk'
    BY <1>1, <1>6, <1>8 DEF TxnAlone, OwnersInv, OwnerType, LifeOk
  <2>7. None \notin allocated_buffers'
    BY <1>1, <1>4, OwnerFacts
  <2>8. OwnersInv'
    BY <1>1, <1>7, <2>3, <2>4, <2>5, <2>6, <2>7, OwnersFrame
  <2> QED BY <1>1, <1>4, <2>2, <2>8 DEF AllocInv
<1>10. CASE a # None
  <2>1. TxnOk(t) /\ \A u \in Freers : FreerOk(u)
    BY <1>1 DEF OwnersInv
  <2>2. /\ a \in allocated_buffers /\ (\A x \in Txns \ {t} : tbuf[x] # a)
        /\ life = "open" => buffers[a].allow_user_free \/ \E u \in Freers : ubuf[u] = a
    BY <1>2, <1>3, <1>10, <2>1 DEF TxnOk
  <2>3. /\ FlagsOnly(a) /\ buffers'[a].transaction = None
        /\ buffers'[a].allow_user_free = buffers[a].allow_user_free
    BY <1>1, <1>3, <1>4, <1>10, <2>2, SetStep
  <2>4. BufferOk(a)'
    BY <1>4, <2>2, <2>3 DEF BufferOk
  <2>5. PICK US : US = {u \in Freers : ubuf[u] = a}
    OBVIOUS
  <2>6. ASSUME NEW u \in Freers \cap US PROVE ubuf[u] = a /\ FreerOk(u)'
    <3>1. FreerOk(u) /\ ubuf[u] = a
      BY <2>1, <2>5, <2>6
    <3> QED BY <1>4, <2>3, <3>1 DEF FreerOk
  <2>7. OwnersInv'
    BY <1>1, <1>2, <1>6, <1>7, <1>8, <2>2, <2>3, <2>4, <2>5, <2>6, TxnAloneStep
  <2> QED BY <1>1, <1>4, <2>3, <2>7 DEF AllocInv, FlagsOnly
<1> QED BY <1>9, <1>10

\* binder_alloc_free_buf on an error path.
LEMMA FreeFailedStep ==
  ASSUME AllocInv, NEW t \in Txns, FreeFailed(t)
  PROVE  AllocInv'
<1>1. LayoutInv /\ OwnersInv /\ failed = {}
  BY DEF AllocInv
<1>2. PICK a : a = tbuf[t]
  OBVIOUS
<1>3. /\ tpc[t] = "failed" /\ mutex = None /\ FreeBufLocked(a)
      /\ tpc' = [tpc EXCEPT ![t] = "idle"] /\ treq' = [treq EXCEPT ![t] = NoRequest]
      /\ tbuf' = [tbuf EXCEPT ![t] = None]
  BY <1>2 DEF FreeFailed, TxnDone
<1>4. UNCHANGED <<buffer_size, vma, mm, mutex, upc, ubuf, life, stuck>>
  BY DEF FreeFailed, mapVars, freerVars
<1>5. /\ a \in allocated_buffers /\ buffers[a].transaction = None
      /\ (\A u \in Freers : ubuf[u] # a) /\ (\A x \in Txns \ {t} : tbuf[x] # a)
  BY <1>1, <1>2, <1>3, HolderFacts
<1>6. /\ LayoutInv' /\ failed' = {} /\ allocated_buffers' = allocated_buffers \ {a}
      /\ \A b \in allocated_buffers \ {a} : buffers'[b] = buffers[b]
  BY <1>1, <1>3, <1>4, <1>5, FreeStep
<1>7. /\ tpc \in [Txns -> {"idle", "find", "alloc", "failed", "queued", "delivered"}]
      /\ treq \in [Txns -> Requests \cup {NoRequest}] /\ tbuf \in [Txns -> Addr \cup {None}]
  BY <1>1 DEF OwnersInv, OwnerType
<1>8. /\ tpc'[t] = "idle" /\ tbuf'[t] = None
      /\ \A x \in Txns \ {t} : tpc'[x] = tpc[x] /\ treq'[x] = treq[x] /\ tbuf'[x] = tbuf[x]
  BY <1>3, <1>7
<1>9. AboutA(a, {t}, {})
  BY <1>2, <1>4, <1>5, <1>6, <1>8 DEF AboutA
<1>10. SearchKept({t})
  BY <1>1, <1>3, OneSearch
<1>11. TxnOk(t)'
  BY <1>8 DEF TxnOk
<1>12. OwnerType'
  BY <1>1, <1>3, <1>4, <1>7 DEF OwnersInv, OwnerType
<1>13. LifeOk'
  BY <1>1, <1>3, <1>4, <1>8 DEF OwnersInv, LifeOk
<1>14. OwnersInv'
  BY <1>1, <1>6, <1>9, <1>10, <1>11, <1>12, <1>13, OwnersFrame
<1> QED BY <1>6, <1>14 DEF AllocInv

-----------------------------------------------------------------------------
(* BC_FREE_BUFFER.                                                         *)

\* User space has the right to free a: at most a reader that has delivered it still has it.
LEMMA PrepareStep ==
  ASSUME AllocInv, NEW u \in Freers, NEW a, PrepareToFree(u, a)
  PROVE  AllocInv'
<1>1. LayoutInv /\ OwnersInv /\ failed = {}
  BY DEF AllocInv
<1>2. /\ upc[u] = "idle" /\ life = "open" /\ mutex = None /\ a \in allocated_buffers /\ buffers[a].allow_user_free
      /\ buffers' = [buffers EXCEPT ![a].allow_user_free = FALSE]
      /\ upc' = [upc EXCEPT ![u] = "prepared"] /\ ubuf' = [ubuf EXCEPT ![u] = a]
  BY DEF PrepareToFree, Freeable
<1>3. /\ UNCHANGED <<buffer_size, free_buffers, allocated_buffers, pages, free_async_space>>
      /\ UNCHANGED <<vma, mm, mutex, tpc, treq, tbuf, life, stuck, failed>>
  BY DEF PrepareToFree, mapVars, txnVars
<1>4. /\ a # None /\ None \notin Txns
      /\ \A x \in Txns : /\ TxnOk(x) /\ tbuf[x] \in Addr \cup {None}
                         /\ tpc[x] \in {"idle", "find", "alloc", "failed", "queued", "delivered"}
      /\ \A x \in Txns : tpc[x] = "find" => mutex = x
      /\ \A v \in Freers : FreerOk(v)
      /\ BufferOk(a) /\ \A b \in allocated_buffers : b \in Starts
  BY <1>1, <1>2, OwnerFacts
<1>5. \A v \in Freers : ubuf[v] # a
  BY <1>2, <1>4 DEF FreerOk
<1>6. \A x \in Txns : tbuf[x] = a => /\ tpc[x] = "delivered" /\ buffers[a].transaction = x
                                     /\ \A s \in Txns \ {x} : tbuf[s] # a
  BY <1>2, <1>4 DEF TxnOk
<1>7. /\ FlagsOnly(a) /\ ~buffers'[a].allow_user_free /\ buffers'[a].transaction = buffers[a].transaction
  BY <1>1, <1>2, <1>3, AllowStep
<1>8. OwnerType
  BY <1>1 DEF OwnersInv
<1>9. /\ upc'[u] = "prepared" /\ ubuf'[u] = a /\ ubuf[u] = None
      /\ \A v \in Freers \ {u} : upc'[v] = upc[v] /\ ubuf'[v] = ubuf[v]
  BY <1>2, <1>4, <1>8 DEF OwnerType, FreerOk
<1>10. PICK TS : TS = {x \in Txns : tbuf[x] = a}
  OBVIOUS
<1>11. \A b \in allocated_buffers : b # a => buffers'[b] = buffers[b]
  BY <1>4, <1>7 DEF FlagsOnly
<1>12. AboutA(a, TS, {u})
  BY <1>3, <1>5, <1>9, <1>10, <1>11 DEF AboutA
<1>13. SearchKept(TS)
  BY <1>2, <1>4 DEF SearchKept
<1>14. ASSUME NEW x \in Txns \cap TS PROVE TxnOk(x)'
  <2>1. tbuf'[x] = a /\ tpc'[x] = "delivered" /\ a \in allocated_buffers' /\ buffers'[a].transaction = x
    BY <1>2, <1>3, <1>6, <1>7, <1>10, <1>14
  <2>2. \A s \in Txns \ {x} : tbuf'[s] # a
    BY <1>3, <1>6, <1>10, <1>14
  <2> QED BY <1>9, <2>1, <2>2 DEF TxnOk
<1>15. FreerOk(u)'
  BY <1>2, <1>3, <1>4, <1>5, <1>7, <1>9 DEF FreerOk
<1>16. BufferOk(a)'
  BY <1>3, <1>4, <1>7, <1>9 DEF BufferOk
<1>17. OwnerType'
  BY <1>1, <1>2, <1>3, <1>8 DEF OwnerType, LayoutInv, HeapType
<1>18. LifeOk'
  BY <1>1, <1>2, <1>3 DEF OwnersInv, LifeOk
<1>19. OwnersInv'
  BY <1>1, <1>12, <1>13, <1>14, <1>15, <1>16, <1>17, <1>18, OwnersFrame
<1> QED BY <1>1, <1>3, <1>7, <1>19 DEF AllocInv, FlagsOnly

\* binder_free_buf: what the freer holds and the transaction it came with forget each other.
LEMMA DetachStep ==
  ASSUME AllocInv, NEW u \in Freers, Detach(u)
  PROVE  AllocInv'
<1>1. LayoutInv /\ OwnersInv /\ failed = {}
  BY DEF AllocInv
<1>2. PICK a, t : a = ubuf[u] /\ t = buffers[a].transaction
  OBVIOUS
<1>3. /\ upc[u] = "prepared"
      /\ tbuf' = IF t = None THEN tbuf ELSE [tbuf EXCEPT ![t] = None]
      /\ buffers' = SetTransaction(a, None) /\ upc' = [upc EXCEPT ![u] = "detached"]
  BY <1>2 DEF Detach
<1>4. /\ UNCHANGED <<buffer_size, free_buffers, allocated_buffers, pages, free_async_space>>
      /\ UNCHANGED <<vma, mm, mutex, tpc, treq, ubuf, life, stuck, failed>>
  BY DEF Detach, mapVars
<1>5. OwnerType /\ FreerOk(u)
  BY <1>1 DEF OwnersInv
<1>6. /\ a # None /\ a \in allocated_buffers /\ ~buffers[a].allow_user_free
      /\ \A v \in Freers \ {u} : ubuf[v] # a
  BY <1>2, <1>3, <1>5 DEF FreerOk
<1>7. /\ BufferOk(a) /\ buffers[a] \in BufferRecord /\ None \notin Txns
      /\ \A x \in Txns : TxnOk(x) /\ tpc[x] \in {"idle", "find", "alloc", "failed", "queued", "delivered"}
      /\ \A x \in Txns : tpc[x] = "find" => tbuf[x] \in FreeIn(Starts)
      /\ \A b \in FreeIn(Starts) : b \notin allocated_buffers
      /\ \A b \in allocated_buffers : b \in Starts
  BY <1>1, <1>6, OwnerFacts
<1>8. \A x \in Txns : tbuf[x] = a => tpc[x] = "delivered" /\ t = x
  BY <1>2, <1>6, <1>7 DEF TxnOk
<1>9. t \in Txns \cup {None} /\ (t # None => tbuf[t] = a)
  BY <1>2, <1>7 DEF BufferRecord, BufferOk
<1>10. tbuf \in [Txns -> Addr \cup {None}] /\ upc \in [Freers -> {"idle", "prepared", "detached"}]
  BY <1>5 DEF OwnerType
<1>11. /\ tbuf' \in [Txns -> Addr \cup {None}]
       /\ \A x \in Txns : tbuf'[x] = IF tbuf[x] = a THEN None ELSE tbuf[x]
  BY <1>3, <1>6, <1>7, <1>8, <1>9, <1>10
<1>12. FlagsOnly(a) /\ buffers'[a].transaction = None /\ buffers'[a].allow_user_free = buffers[a].allow_user_free
  BY <1>1, <1>3, <1>4, <1>6, SetStep
<1>13. PICK TS : TS = {x \in Txns : tbuf[x] = a}
  OBVIOUS
<1>14. \A b \in allocated_buffers : b # a => buffers'[b] = buffers[b]
  BY <1>7, <1>12 DEF FlagsOnly
<1>15. upc'[u] = "detached" /\ ubuf'[u] = a /\ \A v \in Freers \ {u} : upc'[v] = upc[v] /\ ubuf'[v] = ubuf[v]
  BY <1>2, <1>3, <1>4, <1>10
<1>16. AboutA(a, TS, {u})
  BY <1>2, <1>4, <1>6, <1>11, <1>13, <1>14, <1>15 DEF AboutA
<1>17. SearchKept(TS)
  BY <1>4, <1>12 DEF SearchKept, FlagsOnly
<1>18. ASSUME NEW x \in Txns \cap TS PROVE TxnOk(x)'
  BY <1>4, <1>8, <1>11, <1>13, <1>18 DEF TxnOk
<1>19. FreerOk(u)'
  BY <1>4, <1>6, <1>12, <1>15 DEF FreerOk
<1>20. BufferOk(a)'
  BY <1>12, <1>15 DEF BufferOk
<1>21. OwnerType'
  BY <1>3, <1>4, <1>5, <1>10, <1>11 DEF OwnerType
<1>22. LifeOk'
  <2>1. life = "open"
    BY <1>1, <1>3 DEF OwnersInv, LifeOk
  <2> QED BY <1>1, <1>4, <2>1 DEF OwnersInv, LifeOk
<1>23. OwnersInv'
  BY <1>1, <1>16, <1>17, <1>18, <1>19, <1>20, <1>21, <1>22, OwnersFrame
<1> QED BY <1>1, <1>4, <1>12, <1>23 DEF AllocInv, FlagsOnly

\* The freer gives the buffer back: no transaction has it any more.
LEMMA FreeBufStep ==
  ASSUME AllocInv, NEW u \in Freers, FreeBuf(u)
  PROVE  AllocInv'
<1>1. LayoutInv /\ OwnersInv /\ failed = {}
  BY DEF AllocInv
<1>2. PICK a : a = ubuf[u]
  OBVIOUS
<1>3. /\ upc[u] = "detached" /\ mutex = None /\ FreeBufLocked(a)
      /\ upc' = [upc EXCEPT ![u] = "idle"] /\ ubuf' = [ubuf EXCEPT ![u] = None]
  BY <1>2 DEF FreeBuf
<1>4. UNCHANGED <<buffer_size, vma, mm, mutex, tpc, treq, tbuf, life, stuck>>
  BY DEF FreeBuf, mapVars, txnVars
<1>5. OwnerType /\ FreerOk(u)
  BY <1>1 DEF OwnersInv
<1>6. /\ a # None /\ a \in allocated_buffers /\ ~buffers[a].allow_user_free /\ buffers[a].transaction = None
      /\ \A v \in Freers \ {u} : ubuf[v] # a
  BY <1>2, <1>3, <1>5 DEF FreerOk
<1>7. /\ None \notin Txns
      /\ \A x \in Txns : TxnOk(x) /\ tpc[x] \in {"idle", "find", "alloc", "failed", "queued", "delivered"}
      /\ \A x \in Txns : tpc[x] = "find" => mutex = x
  BY <1>1, OwnerFacts
<1>8. \A x \in Txns : tbuf[x] # a
  BY <1>2, <1>3, <1>6, <1>7 DEF TxnOk
<1>9. /\ LayoutInv' /\ failed' = {} /\ allocated_buffers' = allocated_buffers \ {a}
      /\ \A b \in allocated_buffers \ {a} : buffers'[b] = buffers[b]
  BY <1>1, <1>3, <1>4, <1>6, FreeStep
<1>10. /\ upc' \in [Freers -> {"idle", "prepared", "detached"}] /\ ubuf' \in [Freers -> Addr \cup {None}]
       /\ upc'[u] = "idle" /\ ubuf'[u] = None
       /\ \A v \in Freers \ {u} : upc'[v] = upc[v] /\ ubuf'[v] = ubuf[v]
  BY <1>3, <1>5 DEF OwnerType
<1>11. AboutA(a, {}, {u})
  BY <1>2, <1>4, <1>6, <1>8, <1>9, <1>10 DEF AboutA
<1>12. SearchKept({})
  BY <1>3, <1>7 DEF SearchKept
<1>13. FreerOk(u)'
  BY <1>10 DEF FreerOk
<1>14. OwnerType'
  BY <1>4, <1>5, <1>10 DEF OwnerType
<1>15. LifeOk'
  BY <1>1, <1>3, <1>4 DEF OwnersInv, LifeOk
<1>16. OwnersInv'
  BY <1>1, <1>9, <1>11, <1>12, <1>13, <1>14, <1>15, OwnersFrame
<1> QED BY <1>9, <1>16 DEF AllocInv

-----------------------------------------------------------------------------
(* The end of the process.                                                 *)

\* The process dies with its mapping gone, and is released with its transactions done.
LEMMA ReleaseStep ==
  ASSUME AllocInv, Release \/ DeferredRelease
  PROVE  AllocInv'
<1>1. LayoutInv /\ OwnersInv /\ failed = {}
  BY DEF AllocInv
<1>2. /\ UNCHANGED <<buffer_size, heapVars>>
      /\ UNCHANGED <<vma, mm, mutex, tpc, treq, tbuf, upc, ubuf, stuck>>
  BY DEF Release, DeferredRelease, mapVars, txnVars, freerVars
<1>3. LayoutInv' /\ SearchKept({})
  BY <1>1, <1>2, HeapSame
<1>4. /\ buffers' = buffers /\ allocated_buffers' = allocated_buffers
  BY <1>2 DEF heapVars
<1>5. life' \in {"dead", "releasing"}
  BY DEF Release, DeferredRelease
<1>6. AboutA(None, {}, {})
  BY <1>2, <1>4, <1>5 DEF AboutA
<1>7. OwnerType'
  BY <1>1, <1>2, <1>5 DEF OwnersInv, OwnerType
<1>8. ~vma /\ (\A u \in Freers : upc[u] = "idle") /\ (life' = "releasing" => \A t \in Txns : tpc[t] = "idle")
  BY <1>1 DEF Release, DeferredRelease, OwnersInv, LifeOk
<1>9. LifeOk'
  BY <1>1, <1>2, <1>5, <1>8 DEF OwnersInv, LifeOk
<1>10. None \notin allocated_buffers'
  BY <1>1, <1>4, OwnerFacts
<1>11. OwnersInv'
  BY <1>1, <1>3, <1>6, <1>7, <1>9, <1>10, OwnersFrame
<1>12. failed' = {}
  BY <1>1, <1>8 DEF Release, DeferredRelease, Warn
<1> QED BY <1>3, <1>11, <1>12 DEF AllocInv

\* Once the process is released nobody holds a buffer.
LEMMA ReleasedFacts ==
  ASSUME LayoutInv, OwnersInv, life \in {"releasing", "gone"}
  PROVE  /\ mutex = None /\ (\A x \in Txns : tpc[x] = "idle" /\ tbuf[x] = None)
         /\ (\A u \in Freers : upc[u] = "idle" /\ ubuf[u] = None)
         /\ \A b \in allocated_buffers : buffers[b].transaction = None
<1>1. /\ \A x \in Txns : TxnOk(x)
      /\ \A u \in Freers : FreerOk(u)
      /\ \A b \in allocated_buffers : BufferOk(b) /\ buffers[b] \in BufferRecord
  BY OwnerFacts
<1>2. /\ mutex \in Txns \cup {None} /\ (mutex # None => tpc[mutex] = "find")
      /\ (\A x \in Txns : tpc[x] = "idle") /\ \A u \in Freers : upc[u] = "idle"
  BY DEF OwnersInv, OwnerType, LifeOk
<1>3. mutex = None
  BY <1>2
<1>4. \A x \in Txns : tbuf[x] = None
  BY <1>1, <1>2 DEF TxnOk
<1>5. \A u \in Freers : ubuf[u] = None
  BY <1>1, <1>2 DEF FreerOk
<1>6. ASSUME NEW b \in allocated_buffers PROVE buffers[b].transaction = None
  <2>1. buffers[b].transaction \in Txns \cup {None}
    BY <1>1, <1>6 DEF BufferRecord
  <2> QED BY <1>1, <1>2, <1>6, <2>1 DEF BufferOk
<1> QED BY <1>2, <1>3, <1>4, <1>5, <1>6

\* binder_alloc_deferred_release frees what is left in the tree of allocated buffers.
LEMMA DeferredFreeStep ==
  ASSUME AllocInv, DeferredFree
  PROVE  AllocInv'
<1>1. LayoutInv /\ OwnersInv /\ failed = {}
  BY DEF AllocInv
<1>2. PICK a : a = Min(allocated_buffers)
  OBVIOUS
<1>3. /\ life = "releasing" /\ allocated_buffers # {} /\ FreeBufLocked(a)
      /\ UNCHANGED <<buffer_size, vma, mm, mutex, tpc, treq, tbuf, upc, ubuf, life, stuck>>
  BY <1>2 DEF DeferredFree, mapVars, txnVars, freerVars
<1>4. a \in allocated_buffers
  <2>1. allocated_buffers \subseteq Nat
    BY <1>1, OwnerFacts, AllocAssumption DEF Addr, Length
  <2> QED BY <1>2, <1>3, <2>1, MinIs
<1>5. /\ mutex = None /\ (\A x \in Txns : tpc[x] = "idle" /\ tbuf[x] = None)
      /\ (\A u \in Freers : upc[u] = "idle" /\ ubuf[u] = None)
      /\ buffers[a].transaction = None
  BY <1>1, <1>3, <1>4, ReleasedFacts
<1>6. /\ LayoutInv' /\ failed' = {} /\ allocated_buffers' = allocated_buffers \ {a}
      /\ \A b \in allocated_buffers \ {a} : buffers'[b] = buffers[b]
  BY <1>1, <1>3, <1>4, <1>5, FreeStep
<1>7. a # None
  BY <1>1, <1>4, OwnerFacts
<1>8. AboutA(a, {}, {})
  BY <1>3, <1>5, <1>6, <1>7 DEF AboutA
<1>9. SearchKept({})
  BY <1>5 DEF SearchKept
<1>10. OwnerType'
  BY <1>1, <1>3 DEF OwnersInv, OwnerType
<1>11. LifeOk'
  BY <1>1, <1>3 DEF OwnersInv, LifeOk
<1>12. OwnersInv'
  BY <1>1, <1>6, <1>8, <1>9, <1>10, <1>11, OwnersFrame
<1> QED BY <1>6, <1>12 DEF AllocInv

\* When every buffer is free they have merged into one.
LEMMA AllMerged ==
  ASSUME NEW S, NEW L, Tiling(S, S, L)
  PROVE  Cardinality(S) <= 1
<1>1. S \subseteq {0}
  <2>1. SUFFICES ASSUME NEW b \in S, b # 0 PROVE FALSE
    OBVIOUS
  <2>2. 0 \in S /\ End(S, L, 0) \notin S
    BY <2>1 DEF Tiling
  <2>3. NextIs(S, L, 0, End(S, L, 0)) /\ b \in 0 .. L - 1 /\ L \in Nat /\ End(S, L, 0) = L
    BY <2>1, <2>2, TilingFacts
  <2>4. b > 0 /\ b < L
    BY <2>1, <2>3
  <2> QED BY <2>1, <2>3, <2>4 DEF NextIs
<1>2. S = {} \/ S = {0}
  BY <1>1
<1>3. Cardinality({}) = 0 /\ Cardinality({0}) = 1
  BY FS_EmptySet, FS_Singleton
<1> QED BY <1>2, <1>3

\* And ends with one free buffer, or none if nothing was mapped.
LEMMA DeferredDoneStep ==
  ASSUME AllocInv, DeferredDone
  PROVE  AllocInv'
<1>1. LayoutInv /\ OwnersInv /\ failed = {}
  BY DEF AllocInv
<1>2. /\ life = "releasing" /\ allocated_buffers = {}
      /\ failed' = failed \cup Warn(FreeIn(Starts) # Starts \/ Cardinality(Starts) > 1, "buffers left over")
      /\ buffers' = [a \in {} |-> FreeBuffer] /\ free_buffers' = <<>>
      /\ pages' = [p \in Page |-> NoPage] /\ life' = "gone"
      /\ UNCHANGED <<buffer_size, vma, mm, allocated_buffers, free_async_space, mutex, tpc, treq, tbuf, upc, ubuf, stuck>>
  BY DEF DeferredDone, mapVars, txnVars, freerVars
<1>3. FreeIn(Starts) = Starts /\ Tiling(Starts, Starts, buffer_size)
  BY <1>1, <1>2 DEF LayoutInv, FreeIn
<1>4. failed' = {}
  <2>1. Cardinality(Starts) <= 1
    BY <1>3, AllMerged
  <2>2. ~(Cardinality(Starts) > 1)
    <3>1. Starts = {} \/ Starts # {}
      OBVIOUS
    <3>2. IsFiniteSet(Starts)
      <4>1. Starts \subseteq 0 .. buffer_size - 1 /\ buffer_size \in Nat
        BY <1>3 DEF Tiling
      <4>2. IsFiniteSet(0 .. buffer_size - 1)
        BY <4>1, FS_Interval
      <4> QED BY <4>1, <4>2, FS_Subset
    <3>3. Cardinality(Starts) \in Nat
      BY <3>2, FS_CardinalityType
    <3> QED BY <2>1, <3>3
  <2> QED BY <1>1, <1>2, <1>3, <2>2 DEF Warn
<1>5. LayoutInv'
  <2>1. Starts' = {}
    BY <1>2 DEF Starts
  <2>2. buffer_size' \in {0, Length}
    BY <1>1, <1>2 DEF LayoutInv, HeapType
  <2>3. pages' \in [Page -> {NoPage, OnLru}]
    BY <1>2
  <2> QED BY <1>1, <1>2, <2>1, <2>2, <2>3, NoBuffers
<1>6. mutex = None /\ \A x \in Txns : tpc[x] = "idle"
  BY <1>1, <1>2, ReleasedFacts
<1>7. AboutA(None, {}, {})
  BY <1>2 DEF AboutA
<1>8. SearchKept({})
  BY <1>6 DEF SearchKept
<1>9. OwnerType'
  BY <1>1, <1>2 DEF OwnersInv, OwnerType
<1>10. LifeOk'
  BY <1>1, <1>2 DEF OwnersInv, LifeOk
<1>11. OwnersInv'
  BY <1>1, <1>2, <1>7, <1>8, <1>9, <1>10, OwnersFrame
<1> QED BY <1>4, <1>5, <1>11 DEF AllocInv

-----------------------------------------------------------------------------
(* The invariant, and what it is for.                                      *)

\* Before the mmap there are no buffers, and nobody has one.
LEMMA InitInv ==
  ASSUME Init
  PROVE  AllocInv
<1>1. /\ buffer_size = 0 /\ vma = FALSE /\ mm = TRUE /\ buffers = [a \in {} |-> FreeBuffer] /\ free_buffers = <<>>
      /\ allocated_buffers = {} /\ pages = [p \in Page |-> NoPage] /\ free_async_space = 0 /\ mutex = None
      /\ tpc = [t \in Txns |-> "idle"] /\ treq = [t \in Txns |-> NoRequest] /\ tbuf = [t \in Txns |-> None]
      /\ upc = [u \in Freers |-> "idle"] /\ ubuf = [u \in Freers |-> None]
      /\ life = "open" /\ failed = {}
  BY DEF Init
<1>2. Starts = {} /\ FreeIn(Starts) = {}
  BY <1>1 DEF Starts, FreeIn
<1>3. NoPage # Active
  BY DEF NoPage, Active
<1>4. 0 \in 0 .. SizeT - 1
  BY PageEnds, AllocAssumption
<1>5. HeapType
  BY <1>1, <1>2, <1>4 DEF HeapType
<1>6. Tiling(Starts, FreeIn(Starts), buffer_size)
  BY <1>1, <1>2 DEF Tiling
<1>7. TreeOf(free_buffers, Starts, FreeIn(Starts), buffer_size)
  <2>1. DOMAIN free_buffers = {} /\ free_buffers \in Seq(Addr)
    BY <1>1
  <2>2. Range(free_buffers) = {}
    BY <2>1 DEF Range
  <2>3. IsInjective(free_buffers)
    BY <2>1 DEF IsInjective
  <2>4. Ordered(free_buffers, Starts, buffer_size)
    BY <2>1 DEF Ordered
  <2> QED BY <1>2, <2>1, <2>2, <2>3, <2>4 DEF TreeOf
<1>8. LayoutInv
  <2>1. \A p \in Page : pages[p] # Active
    BY <1>1, <1>3
  <2> QED BY <1>1, <1>2, <1>5, <1>6, <1>7, <2>1 DEF LayoutInv
<1>9. OwnerType
  BY <1>1 DEF OwnerType
<1>10. ASSUME NEW t \in Txns PROVE TxnOk(t)
  <2>1. tpc[t] = "idle" /\ tbuf[t] = None
    BY <1>1, <1>10
  <2> QED BY <2>1 DEF TxnOk
<1>11. ASSUME NEW u \in Freers PROVE FreerOk(u)
  <2>1. upc[u] = "idle" /\ ubuf[u] = None
    BY <1>1, <1>11
  <2> QED BY <2>1 DEF FreerOk
<1>12. LifeOk
  BY <1>1 DEF LifeOk
<1>13. OwnersInv
  BY <1>1, <1>9, <1>10, <1>11, <1>12 DEF OwnersInv
<1> QED BY <1>1, <1>8, <1>13 DEF AllocInv

\* A stuttering step.
LEMMA StutterStep ==
  ASSUME AllocInv, UNCHANGED vars
  PROVE  AllocInv'
<1>1. LayoutInv /\ OwnersInv /\ failed = {}
  BY DEF AllocInv
<1>2. UNCHANGED <<buffer_size, heapVars>> /\ UNCHANGED <<vma, mm, mutex, txnVars, freerVars, life, stuck, failed>>
  BY DEF vars, mapVars
<1>3. LayoutInv' /\ SearchKept({})
  BY <1>1, <1>2, HeapSame
<1>4. buffers' = buffers /\ allocated_buffers' = allocated_buffers
  BY <1>2 DEF heapVars
<1>5. vma' \in BOOLEAN /\ mm' \in BOOLEAN /\ vma' = vma
  BY <1>1, <1>2 DEF OwnersInv, OwnerType
<1>6. OwnersInv'
  BY <1>1, <1>2, <1>3, <1>4, <1>5, OwnersSame
<1> QED BY <1>1, <1>2, <1>3, <1>6 DEF AllocInv

\* Every step of the allocator and of its callers keeps the invariant.
LEMMA NextStep ==
  ASSUME AllocInv, [Next]_vars
  PROVE  AllocInv'
<1>1. CASE MmapClaim \/ MmapFails
  BY <1>1, MmapStep
<1>2. CASE MmapReady
  BY <1>2, MmapReadyStep
<1>3. CASE VmaClose \/ MmExit
  BY <1>3, VmaStep
<1>4. ASSUME NEW t \in Txns, TxnStep(t) PROVE AllocInv'
  <2>1. CASE NewBufNoVma(t) \/ (\E f \in Page : NewBufPageFails(t, f)) \/ NewBufSplitFails(t)
    BY <1>4, <2>1, NewBufFailsStep
  <2>2. CASE NewBufDone(t)
    BY <1>4, <2>2, NewBufDoneStep
  <2>3. CASE CopyAndQueue(t)
    BY <1>4, <2>3, CopyAndQueueStep
  <2>4. CASE FreeFailed(t)
    BY <1>4, <2>4, FreeFailedStep
  <2>5. CASE Deliver(t) \/ FixupFails(t)
    BY <1>4, <2>5, DeliverStep
  <2>6. CASE DeliverFails(t)
    BY <1>4, <2>6, DeliverFailsStep
  <2>7. CASE DropTransaction(t)
    BY <1>4, <2>7, DropStep
  <2> QED BY <1>4, <2>1, <2>2, <2>3, <2>4, <2>5, <2>6, <2>7 DEF TxnStep
<1>5. ASSUME NEW t \in Txns, NEW r \in Requests, NEW a \in Addr, NewBufFind(t, r, a) PROVE AllocInv'
  BY <1>5, NewBufFindStep
<1>6. ASSUME NEW u \in Freers, Detach(u) PROVE AllocInv'
  BY <1>6, DetachStep
<1>7. ASSUME NEW u \in Freers, FreeBuf(u) PROVE AllocInv'
  BY <1>7, FreeBufStep
<1>8. ASSUME NEW u \in Freers, NEW a \in Addr, PrepareToFree(u, a) PROVE AllocInv'
  BY <1>8, PrepareStep
<1>9. CASE ProcessStep
  <2>1. CASE Release \/ DeferredRelease
    BY <2>1, ReleaseStep
  <2>2. CASE DeferredFree
    BY <2>2, DeferredFreeStep
  <2>3. CASE DeferredDone
    BY <2>3, DeferredDoneStep
  <2> QED BY <1>9, <2>1, <2>2, <2>3 DEF ProcessStep
<1>10. ASSUME NEW p \in Page, FreePage(p) PROVE AllocInv'
  BY <1>10, FreePageStep
<1>11. CASE UNCHANGED vars
  BY <1>11, StutterStep
<1> QED BY <1>1, <1>2, <1>3, <1>4, <1>5, <1>6, <1>7, <1>8, <1>9, <1>10, <1>11 DEF Next

\* The invariant gives the layout property of the runs.
LEMMA LayoutFollows ==
  ASSUME AllocInv
  PROVE  LayoutSound
<1>1. LayoutInv /\ OwnersInv
  BY DEF AllocInv
<1>2. TypeOK
  BY <1>1 DEF TypeOK, LayoutInv, HeapType, OwnersInv, OwnerType
<1>3. PICK S, F, L : S = Starts /\ F = FreeIn(Starts) /\ L = buffer_size
  OBVIOUS
<1>4. /\ Tiling(S, F, L) /\ TreeOf(free_buffers, S, F, L) /\ allocated_buffers = S \ F
      /\ \A p \in Page : pages[p] = Active <=> \E b \in S \ F : Touches(S, L, b, p)
  BY <1>1, <1>3, LayoutFacts
<1>5. \A b : EndOf(Starts, b) = End(S, L, b)
  BY <1>3, EndOfIsEnd
<1>6. FreeNeighboursMerged
  BY <1>3, <1>4, <1>5 DEF FreeNeighboursMerged, Tiling
<1>7. TreesAgree
  <2>1. /\ Range(free_buffers) = F /\ IsInjective(free_buffers) /\ free_buffers \in Seq(Addr)
        /\ Ordered(free_buffers, S, L)
    BY <1>4 DEF TreeOf
  <2>2. ASSUME NEW i \in 1 .. Len(free_buffers) - 1
        PROVE  SizeIn(Starts, free_buffers[i]) <= SizeIn(Starts, free_buffers[i + 1])
    <3>1. i \in DOMAIN free_buffers /\ i + 1 \in DOMAIN free_buffers /\ i < i + 1
      BY <2>1, <2>2
    <3>2. End(S, L, free_buffers[i]) - free_buffers[i] <= End(S, L, free_buffers[i + 1]) - free_buffers[i + 1]
      BY <2>1, <3>1 DEF Ordered
    <3> QED BY <1>5, <3>2 DEF SizeIn
  <2> QED BY <1>3, <1>4, <2>1, <2>2 DEF TreesAgree
<1>8. PagesHeldByBuffers
  <2>1. ASSUME NEW p \in Page, NEW b \in S \ F
        PROVE  Touches(S, L, b, p) <=> p \in PageOf(b) .. PageOf(EndOf(Starts, b) - 1)
    <3>1. b \in Int /\ End(S, L, b) \in Int /\ p \in Int
      BY <1>4, <2>1, TilingFacts, AllocAssumption DEF Page
    <3>2. End(S, L, b) - 1 \in Int
      BY <3>1
    <3>3. PageOf(b) \in Int /\ PageOf(End(S, L, b) - 1) \in Int
      BY <3>1, <3>2, PageFacts
    <3> QED BY <1>5, <3>1, <3>3 DEF Touches
  <2> QED BY <1>4, <2>1 DEF PagesHeldByBuffers
<1> QED BY <1>2, <1>6, <1>7, <1>8 DEF LayoutSound

\* The invariant gives the ownership property of the runs.
LEMMA OwnersFollow ==
  ASSUME AllocInv
  PROVE  BuffersOwned
<1>1. LayoutInv /\ OwnersInv
  BY DEF AllocInv
<1>2. /\ None \notin allocated_buffers /\ None \notin Txns
      /\ \A x \in Txns : /\ TxnOk(x)
                         /\ tpc[x] \in {"idle", "find", "alloc", "failed", "queued", "delivered"}
      /\ \A x \in Txns : tpc[x] = "find" => tbuf[x] \in FreeIn(Starts)
      /\ \A b \in FreeIn(Starts) : b \notin allocated_buffers
      /\ \A u \in Freers : FreerOk(u) /\ upc[u] \in {"idle", "prepared", "detached"}
      /\ \A b \in allocated_buffers : BufferOk(b)
  BY <1>1, OwnerFacts
<1>3. \A t \in Txns : tbuf[t] # None /\ tpc[t] # "find" =>
        /\ tbuf[t] \in allocated_buffers
        /\ tpc[t] \in {"queued", "delivered"} => buffers[tbuf[t]].transaction = t
  BY <1>2 DEF TxnOk
<1>4. ASSUME NEW u \in Freers, ubuf[u] # None
      PROVE  /\ ubuf[u] \in allocated_buffers /\ ~buffers[ubuf[u]].allow_user_free
             /\ \A v \in Freers \ {u} : ubuf[v] # ubuf[u]
             /\ \A t \in Txns : tbuf[t] = ubuf[u] => upc[u] = "prepared" /\ tpc[t] = "delivered"
  <2>1. /\ ubuf[u] \in allocated_buffers /\ ~buffers[ubuf[u]].allow_user_free /\ upc[u] # "idle"
        /\ (\A v \in Freers \ {u} : ubuf[v] # ubuf[u])
        /\ upc[u] = "detached" => buffers[ubuf[u]].transaction = None
    BY <1>2, <1>4 DEF FreerOk
  <2>2. ASSUME NEW t \in Txns, tbuf[t] = ubuf[u] PROVE upc[u] = "prepared" /\ tpc[t] = "delivered"
    <3>1. tpc[t] = "delivered" /\ buffers[ubuf[u]].transaction = t
      BY <1>2, <1>4, <2>1, <2>2 DEF TxnOk
    <3> QED BY <1>2, <2>1, <3>1
  <2> QED BY <2>1, <2>2
<1>5. \A a \in Starts : buffers[a].transaction # None => tbuf[buffers[a].transaction] = a
  <2>1. ASSUME NEW a \in Starts, buffers[a].transaction # None PROVE a \in allocated_buffers
    <3>1. allocated_buffers = Starts \ FreeIn(Starts) /\ \A b \in FreeIn(Starts) : buffers[b] = FreeBuffer
      BY <1>1 DEF LayoutInv
    <3> QED BY <2>1, <3>1 DEF FreeBuffer
  <2> QED BY <1>2, <2>1 DEF BufferOk
<1>6. NoBufferLost
  BY <1>2 DEF NoBufferLost, BufferOk
<1> QED BY <1>3, <1>4, <1>5, <1>6 DEF BuffersOwned, HeldBuffersLive

\* The inductive invariant: the list of buffers tiles the mapping with no two free neighbours, both
\* trees and the pages follow it, each allocated buffer has the size that was asked for, and each
\* transaction and freer holds the buffer its place says, through every step of binder_alloc.c and
\* of the callers in binder.c.
THEOREM AllocInvariant == Spec => []AllocInv
<1>1. Init => AllocInv
  BY InitInv
<1>2. AllocInv /\ [Next]_vars => AllocInv'
  BY NextStep
<1> QED BY <1>1, <1>2, PTL DEF Spec

\* binder_alloc_new_buf_locked, binder_free_buf_locked and binder_delete_free_buffer keep the list,
\* the two trees and the pages in agreement, for every page size and mapping.
THEOREM LayoutAlwaysSound == Spec => []LayoutSound
<1>1. AllocInv => LayoutSound
  BY LayoutFollows
<1> QED BY <1>1, AllocInvariant, PTL

\* No BUG_ON or WARN_ON of binder_alloc.c fires, and binder_alloc_copy_user_to_buffer writes only
\* into the buffer it was given and into pages that are held.
THEOREM AssertionsNeverFail == Spec => []NoAssertionFails
<1>1. AllocInv => NoAssertionFails
  BY DEF AllocInv, NoAssertionFails
<1> QED BY <1>1, AllocInvariant, PTL

\* binder_alloc_prepare_to_free, binder_free_buf and the delivery give each allocated buffer exactly
\* one holder that will free it.
THEOREM BuffersAlwaysOwned == Spec => []BuffersOwned
<1>1. AllocInv => BuffersOwned
  BY OwnersFollow
<1> QED BY <1>1, AllocInvariant, PTL

-----------------------------------------------------------------------------
(* The budget of asynchronous buffers.                                     *)

\* Sums are counted: x stands for c[x] units.
Units(S, c) == {p \in S \X Nat : p[2] < c[p[1]]}

\* A set of subsets of a finite set that has the empty set, and each set of which it has
\* the rest without the element that a fold takes first, has them all.
LEMMA TakeOneInduction ==
  ASSUME NEW S, IsFiniteSet(S), NEW Q, {} \in Q,
         \A s \in SUBSET S : s # {} /\ s \ {CHOOSE x \in s : TRUE} \in Q => s \in Q
  PROVE  \A s \in SUBSET S : s \in Q
<1> DEFINE Bad == {s \in SUBSET S : s \notin Q}
           Sizes == {n \in Nat : \E s \in Bad : Cardinality(s) = n}
<1>1. SUFFICES ASSUME Bad # {} PROVE FALSE
  OBVIOUS
<1>2. \A s \in SUBSET S : IsFiniteSet(s) /\ Cardinality(s) \in Nat
  BY FS_Subset, FS_CardinalityType
<1>3. Sizes # {} /\ Sizes \subseteq Nat
  BY <1>1, <1>2
<1>4. PICK n \in Sizes : \A k \in Sizes : n <= k
  <2> HIDE DEF Sizes
  <2> QED BY <1>3, LeastIs
<1>5. PICK s \in Bad : Cardinality(s) = n
  BY <1>4
<1>6. s # {} /\ s \in SUBSET S
  BY <1>5
<1>7. PICK x : x = CHOOSE y \in s : TRUE
  OBVIOUS
<1>8. x \in s
  BY <1>6, <1>7
<1>9. Cardinality(s \ {x}) = n - 1 /\ Cardinality(s \ {x}) \in Nat
  BY <1>2, <1>5, <1>6, <1>8, FS_RemoveElement
<1>10. s \ {x} \in Q
  <2>1. CASE s \ {x} \in Bad
    <3>1. n - 1 \in Sizes
      BY <1>9, <2>1
    <3> QED BY <1>4, <3>1
  <2> QED BY <1>6, <2>1
<1> QED BY <1>5, <1>6, <1>7, <1>10

\* The units of one more element.
LEMMA UnitsAdd ==
  ASSUME NEW s, NEW x, x \notin s, NEW c, c[x] \in Nat, IsFiniteSet(Units(s, c))
  PROVE  /\ IsFiniteSet(Units(s \cup {x}, c))
         /\ Cardinality(Units(s \cup {x}, c)) = Cardinality(Units(s, c)) + c[x]
<1>1. PICK n \in Nat : n = c[x]
  OBVIOUS
<1> DEFINE U == Units({x}, c)
           f == [i \in 0 .. n - 1 |-> <<x, i>>]
<1>2. \A p : p \in U <=> \E i \in 0 .. n - 1 : p = <<x, i>>
  BY <1>1 DEF Units
<1>3. IsFiniteSet(U) /\ Cardinality(U) = n
  <2> HIDE DEF U
  <2>1. f \in [0 .. n - 1 -> U]
    BY <1>2
  <2>2. \A i, j \in 0 .. n - 1 : f[i] = f[j] => i = j
    OBVIOUS
  <2>3. \A p \in U : \E i \in 0 .. n - 1 : f[i] = p
    BY <1>2
  <2>4. f \in Bijection(0 .. n - 1, U)
    <3> HIDE DEF f
    <3> QED BY <2>1, <2>2, <2>3 DEF Bijection, Injection, Surjection, IsInjective
  <2>5. ExistsBijection(0 .. n - 1, U)
    BY <2>4 DEF ExistsBijection
  <2>6. IsFiniteSet(0 .. n - 1) /\ Cardinality(0 .. n - 1) = n
    <3>1. 0 \in Int /\ n - 1 \in Int
      OBVIOUS
    <3>2. IsFiniteSet(0 .. n - 1) /\ Cardinality(0 .. n - 1) = IF 0 > n - 1 THEN 0 ELSE n - 1 - 0 + 1
      BY <3>1, FS_Interval
    <3> QED BY <3>2
  <2> QED BY <2>5, <2>6, FS_Bijection
<1>4. Units(s \cup {x}, c) = Units(s, c) \cup U /\ Units(s, c) \cap U = {}
  BY DEF Units
<1>5. Cardinality(Units(s, c)) \in Nat
  BY FS_CardinalityType
<1> HIDE DEF U
<1>6. /\ IsFiniteSet(Units(s, c) \cup U)
      /\ Cardinality(Units(s, c) \cup U) = Cardinality(Units(s, c)) + Cardinality(U) - Cardinality(Units(s, c) \cap U)
  BY <1>3, FS_Union
<1>7. Cardinality(Units(s, c) \cap U) = 0
  BY <1>4, FS_EmptySet
<1>8. PICK k \in Nat : k = Cardinality(Units(s, c))
  BY <1>5
<1>9. Cardinality(Units(s, c) \cup U) = k + n
  BY <1>3, <1>6, <1>7, <1>8
<1> QED BY ONLY <1>1, <1>4, <1>6, <1>8, <1>9

\* Finitely many elements have finitely many units.
LEMMA UnitsFinite ==
  ASSUME NEW S, IsFiniteSet(S), NEW c, \A x \in S : c[x] \in Nat
  PROVE  IsFiniteSet(Units(S, c)) /\ Cardinality(Units(S, c)) \in Nat /\ Units({}, c) = {}
<1> DEFINE Q == {s \in SUBSET S : IsFiniteSet(Units(s, c))}
<1>1. Units({}, c) = {}
  BY DEF Units
<1>2. {} \in Q
  BY <1>1, FS_EmptySet
<1>3. ASSUME NEW s \in SUBSET S, s # {}, s \ {CHOOSE x \in s : TRUE} \in Q PROVE s \in Q
  <2>1. PICK x : x = CHOOSE y \in s : TRUE
    OBVIOUS
  <2>2. x \in s /\ x \notin s \ {x} /\ s = (s \ {x}) \cup {x} /\ c[x] \in Nat
    BY <1>3, <2>1
  <2>3. IsFiniteSet(Units(s \ {x}, c))
    BY <1>3, <2>1
  <2>4. IsFiniteSet(Units((s \ {x}) \cup {x}, c))
    BY <2>2, <2>3, UnitsAdd
  <2> QED BY <2>2, <2>4
<1>4. S \in Q
  <2> HIDE DEF Q
  <2>1. \A s \in SUBSET S : s \in Q
    BY <1>2, <1>3, TakeOneInduction
  <2> QED BY <2>1
<1> QED BY <1>1, <1>4, FS_CardinalityType

\* What a fold over the subsets of S computes.
SumsUp(g, S, c) ==
  g = [s \in SUBSET S |-> IF s = {} THEN 0 ELSE c[CHOOSE x \in s : TRUE] + g[s \ {CHOOSE x \in s : TRUE}]]

\* There is such a fold, and every one of them counts the units.
LEMMA FoldCounts ==
  ASSUME NEW S, IsFiniteSet(S), NEW c, \A x \in S : c[x] \in Nat
  PROVE  (\E g : SumsUp(g, S, c)) /\ \A g : SumsUp(g, S, c) => g[S] = Cardinality(Units(S, c))
<1>1. \A s \in SUBSET S : IsFiniteSet(s) /\ IsFiniteSet(Units(s, c))
  BY FS_Subset, UnitsFinite
<1>2. Units({}, c) = {} /\ Cardinality(Units({}, c)) = 0
  BY UnitsFinite, FS_EmptySet
<1>3. ASSUME NEW s \in SUBSET S, s # {}
      PROVE  LET x == CHOOSE y \in s : TRUE IN
             /\ x \in s /\ s \ {x} \in SUBSET S
             /\ Cardinality(Units(s, c)) = c[x] + Cardinality(Units(s \ {x}, c))
  <2>1. PICK x : x = CHOOSE y \in s : TRUE
    OBVIOUS
  <2>2. x \in s /\ x \notin s \ {x} /\ s = (s \ {x}) \cup {x} /\ c[x] \in Nat /\ s \ {x} \in SUBSET S
    BY <1>3, <2>1
  <2>3. IsFiniteSet(Units(s \ {x}, c))
    BY <1>1, <2>2
  <2>4. Cardinality(Units(s, c)) = Cardinality(Units(s \ {x}, c)) + c[x]
    BY <2>2, <2>3, UnitsAdd
  <2>5. Cardinality(Units(s \ {x}, c)) \in Nat
    BY <2>3, FS_CardinalityType
  <2> QED BY <2>1, <2>2, <2>4, <2>5
<1>4. \E g : SumsUp(g, S, c)
  <2> DEFINE h == [s \in SUBSET S |-> Cardinality(Units(s, c))]
  <2>1. ASSUME NEW s \in SUBSET S
        PROVE  h[s] = IF s = {} THEN 0 ELSE c[CHOOSE x \in s : TRUE] + h[s \ {CHOOSE x \in s : TRUE}]
    <3>1. CASE s = {}
      BY <1>2, <3>1
    <3>2. CASE s # {}
      BY <1>3, <3>2
    <3> QED BY <3>1, <3>2
  <2>2. SumsUp(h, S, c)
    <3>1. h = [s \in SUBSET S |-> h[s]]
      OBVIOUS
    <3> HIDE DEF h
    <3> QED BY <2>1, <3>1 DEF SumsUp
  <2> QED BY <2>2
<1>5. ASSUME NEW g, SumsUp(g, S, c) PROVE g[S] = Cardinality(Units(S, c))
  <2> DEFINE Q == {s \in SUBSET S : g[s] = Cardinality(Units(s, c))}
  <2>1. \A s \in SUBSET S : g[s] = IF s = {} THEN 0 ELSE c[CHOOSE x \in s : TRUE] + g[s \ {CHOOSE x \in s : TRUE}]
    BY <1>5 DEF SumsUp
  <2>2. {} \in Q
    BY <1>2, <2>1
  <2>3. ASSUME NEW s \in SUBSET S, s # {}, s \ {CHOOSE x \in s : TRUE} \in Q PROVE s \in Q
    BY <1>3, <2>1, <2>3
  <2>4. S \in Q
    <3> HIDE DEF Q
    <3>1. \A s \in SUBSET S : s \in Q
      BY <2>2, <2>3, TakeOneInduction
    <3> QED BY <3>1
  <2> QED BY <2>4
<1> QED BY <1>4, <1>5

\* What the budget needs: the mapping is far smaller than size_t, and no asynchronous request is
\* empty (for an empty one the padding is charged and not given back).
BudgetHypothesis == Length + Header < SizeT /\ \A r \in Requests : r.async => RequestSize(r) # 0

\* What an asynchronous buffer is charged with, as units.
Charge(a) == RequestSize(buffers[a].req) + Header
Charges == Units(AsyncBuffers, [a \in AsyncBuffers |-> Charge(a)])

\* The counter and the charges add up to half the mapping, and a search that has
\* passed the check of the budget still would.
BudgetInv ==
  BudgetHypothesis =>
    /\ Starts # {} => free_async_space + Cardinality(Charges) = buffer_size \div 2
    /\ \A t \in Txns : tpc[t] = "find" => AsyncSpaceFor(treq[t])

\* A whole number of words stays one when it wraps.
LEMMA WordsWrap ==
  ASSUME NEW x \in Nat, x < SizeT + SizeT, NEW q \in Int, x = Word * q
  PROVE  \E k \in Int : x % SizeT = Word * k
<1>1. Word \in Nat \ {0} /\ SizeT \in Nat /\ SizeT % Word = 0 /\ SizeT > 0
  BY AllocAssumption, PageEnds
<1>2. PICK m \in Int : m = SizeT \div Word /\ SizeT = Word * m
  BY <1>1
<1>3. CASE x < SizeT
  <2>1. x % SizeT = x
    BY <1>1, <1>3
  <2> QED BY <2>1
<1>4. CASE x >= SizeT
  <2>1. x % SizeT = x - SizeT
    BY <1>1, <1>4
  <2>2. Word * (q - m) = x - SizeT /\ q - m \in Int
    BY <1>1, <1>2
  <2> QED BY <2>1, <2>2
<1> QED BY <1>1, <1>3, <1>4

\* An aligned size is a whole number of words.
LEMMA AlignWords ==
  ASSUME NEW n \in 0 .. SizeT - 1
  PROVE  \E k \in Int : Align(n) = Word * k
<1>1. Word \in Nat \ {0} /\ SizeT \in Nat
  BY AllocAssumption
<1>2. PICK q \in Int : q = (n + Word - 1) \div Word
  BY <1>1
<1>3. PICK x \in Int : x = Word * q /\ x = q * Word
  BY <1>1
<1>4. Align(n) = x % SizeT
  BY <1>2, <1>3 DEF Align
<1>5. n <= x /\ x < n + Word
  BY <1>1, <1>2, <1>3
<1>6. Word <= PageSize /\ PageSize <= SizeT /\ PageSize \in Nat
  BY AllocAssumption, PageEnds DEF Length
<1>7. x \in Nat /\ x < SizeT + SizeT
  BY <1>1, <1>3, <1>5, <1>6
<1>8. \E k \in Int : x % SizeT = Word * k
  BY <1>3, <1>7, WordsWrap
<1> QED BY <1>4, <1>8

\* The padding changes only an empty request.
LEMMA NotPadded ==
  ASSUME NEW r \in Requests, RequestSize(r) # 0
  PROVE  PaddedSize(r) = RequestSize(r)
<1>1. r.data \in 0 .. SizeT - 1 /\ r.offsets \in 0 .. SizeT - 1 /\ r.extra \in 0 .. SizeT - 1
  BY AllocAssumption
<1>2. Word \in Nat \ {0} /\ SizeT \in Nat /\ SizeT > 0
  BY AllocAssumption, PageEnds
<1>3. PICK i \in Int, j \in Int, k \in Int :
        Align(r.data) = Word * i /\ Align(r.offsets) = Word * j /\ Align(r.extra) = Word * k
  BY <1>1, AlignWords
<1>a. /\ Align(r.data) \in Nat /\ Align(r.data) <= SizeT - Word
      /\ Align(r.offsets) \in Nat /\ Align(r.offsets) <= SizeT - Word
      /\ Align(r.extra) \in Nat /\ Align(r.extra) <= SizeT - Word
  BY <1>1, AlignFacts
<1>4. PICK x \in Nat : x = Align(r.data) + Align(r.offsets) /\ x = Word * (i + j) /\ i + j \in Int /\ x < SizeT + SizeT
  BY <1>2, <1>3, <1>a
<1>5. PICK e \in Int : x % SizeT = Word * e
  BY <1>4, WordsWrap
<1>b. x % SizeT \in Nat /\ x % SizeT < SizeT
  BY <1>2
<1>6. PICK y \in Nat : y = (x % SizeT) + Align(r.extra) /\ y = Word * (e + k) /\ e + k \in Int /\ y < SizeT + SizeT
  BY <1>2, <1>3, <1>5, <1>a, <1>b
<1>7. PICK f \in Int : y % SizeT = Word * f
  BY <1>6, WordsWrap
<1>8. RequestSize(r) = Word * f /\ RequestSize(r) \in Nat
  <2>1. RequestSize(r) = y % SizeT
    BY <1>4, <1>6 DEF RequestSize, DataOffsetsSize
  <2> QED BY <1>2, <1>7, <2>1
<1>9. RequestSize(r) >= Word
  <2>1. f >= 1
    <3>1. CASE f <= 0
      <4>1. Word * f <= 0
        BY <1>2, <3>1
      <4> QED BY <1>8, <4>1
    <3> QED BY <3>1
  <2>2. Word * f >= Word * 1
    BY <1>2, <2>1
  <2> QED BY <1>2, <1>8, <2>2
<1>10. RequestSize(r) \in Int /\ Word \in Int
  BY <1>2, <1>8
<1>11. /\ Max({RequestSize(r), Word}) \in {RequestSize(r), Word}
       /\ RequestSize(r) <= Max({RequestSize(r), Word}) /\ Word <= Max({RequestSize(r), Word})
  BY ONLY <1>10, MaxOfTwo
<1> QED BY <1>9, <1>10, <1>11 DEF PaddedSize

\* The asynchronous buffers are finitely many, and each is charged with its size.
LEMMA ChargeFacts ==
  ASSUME LayoutInv, BudgetHypothesis
  PROVE  /\ IsFiniteSet(AsyncBuffers) /\ AsyncBuffers \subseteq allocated_buffers
         /\ allocated_buffers \subseteq Starts
         /\ IsFiniteSet(Charges) /\ Cardinality(Charges) \in Nat
         /\ \A a \in AsyncBuffers : /\ buffers[a].req \in Requests /\ buffers[a].req.async
                                    /\ Charge(a) \in Nat /\ AsyncCost(a) = Charge(a)
<1>1. /\ allocated_buffers = Starts \ FreeIn(Starts) /\ Starts \subseteq Addr
      /\ \A a \in allocated_buffers : SizeExact(a)
  BY DEF LayoutInv, HeapType
<1>2. IsFiniteSet(Addr)
  <2>1. 0 \in Int /\ Length - 1 \in Int
    BY AllocAssumption, PageEnds DEF Length
  <2> QED BY <2>1, FS_Interval DEF Addr
<1>3. IsFiniteSet(AsyncBuffers) /\ AsyncBuffers \subseteq allocated_buffers
  <2>1. AsyncBuffers \subseteq allocated_buffers
    BY DEF AsyncBuffers
  <2>2. AsyncBuffers \in SUBSET Addr
    BY <1>1, <2>1
  <2> QED BY <1>2, <2>1, <2>2, FS_Subset
<1>4. ASSUME NEW a \in AsyncBuffers
      PROVE  /\ buffers[a].req \in Requests /\ buffers[a].req.async
             /\ Charge(a) \in Nat /\ AsyncCost(a) = Charge(a)
  <2>1. PICK r : r = buffers[a].req
    OBVIOUS
  <2>2. r \in Requests /\ SizeValid(r) /\ End(Starts, buffer_size, a) - a = PaddedSize(r)
    BY <1>1, <1>3, <1>4, <2>1 DEF SizeExact
  <2>3. r.async
    BY <1>4, <2>1 DEF AsyncBuffers
  <2>4. PaddedSize(r) = RequestSize(r)
    BY <2>2, <2>3, NotPadded DEF BudgetHypothesis
  <2>5. RequestSize(r) \in Nat
    BY <2>2, SizeFacts DEF SizesOk
  <2>6. EndOf(Starts, a) = End(Starts, buffer_size, a)
    BY EndOfIsEnd
  <2>7. Charge(a) = RequestSize(r) + Header /\ AsyncCost(a) = RequestSize(r) + Header
    BY <2>1, <2>2, <2>4, <2>6 DEF Charge, AsyncCost, SizeIn
  <2> QED BY <2>1, <2>2, <2>3, <2>5, <2>7, AllocAssumption
<1>5. IsFiniteSet(Charges) /\ Cardinality(Charges) \in Nat
  BY <1>3, <1>4, UnitsFinite DEF Charges
<1> QED BY <1>1, <1>3, <1>4, <1>5

\* The sum of the property is the number of units.
LEMMA BudgetFollows ==
  ASSUME AllocInv, BudgetInv, BudgetHypothesis
  PROVE  AsyncSpaceConserved
<1> DEFINE S == AsyncBuffers
           c == [a \in S |-> Charge(a)]
<1>1. LayoutInv
  BY DEF AllocInv
<1>2. /\ IsFiniteSet(S) /\ \A a \in S : Charge(a) \in Nat /\ AsyncCost(a) = Charge(a)
  BY <1>1, ChargeFacts
<1>3. PICK T, d : T = S /\ d = c
  OBVIOUS
<1>4. IsFiniteSet(T) /\ \A a \in T : d[a] \in Nat /\ AsyncCost(a) = d[a]
  BY <1>2, <1>3
<1>5. Charges = Units(T, d)
  BY <1>3 DEF Charges
<1> HIDE DEF S, c
<1> DEFINE P(g) == g = [s \in SUBSET T |-> IF s = {} THEN 0 ELSE AsyncCost(CHOOSE x \in s : TRUE) + g[s \ {CHOOSE x \in s : TRUE}]]
<1>6. MapThenSumSet(AsyncCost, T) = (CHOOSE g : P(g))[T]
  BY DEF MapThenSumSet, MapThenFoldSet
<1>7. ASSUME NEW g PROVE P(g) <=> SumsUp(g, T, d)
  <2>1. \A s \in SUBSET T : s # {} => AsyncCost(CHOOSE x \in s : TRUE) = d[CHOOSE x \in s : TRUE]
    BY <1>4
  <2> QED BY <2>1 DEF SumsUp
<1>8. (\E g : SumsUp(g, T, d)) /\ \A g : SumsUp(g, T, d) => g[T] = Cardinality(Units(T, d))
  BY <1>4, FoldCounts
<1>9. P(CHOOSE g : P(g))
  <2> HIDE DEF P
  <2>1. \E g : P(g)
    BY <1>7, <1>8
  <2> QED BY <2>1
<1>10. MapThenSumSet(AsyncCost, T) = Cardinality(Charges)
  <2> HIDE DEF P
  <2> QED BY <1>5, <1>6, <1>7, <1>8, <1>9
<1> QED BY <1>3, <1>10 DEF BudgetInv, AsyncSpaceConserved, S

\* What most steps leave alone.
SameBudget ==
  /\ allocated_buffers' = allocated_buffers /\ free_async_space' = free_async_space
  /\ Starts' # {} => Starts # {} /\ buffer_size' = buffer_size
  /\ \A a \in allocated_buffers : buffers'[a].req = buffers[a].req
  /\ \A t \in Txns : tpc'[t] = "find" => tpc[t] = "find" /\ treq'[t] = treq[t]

\* The charges, when the asynchronous buffers and their requests are the same.
LEMMA BudgetFrame ==
  ASSUME BudgetInv, SameBudget
  PROVE  BudgetInv'
<1>1. AsyncBuffers' = AsyncBuffers
  BY DEF SameBudget, AsyncBuffers
<1>2. \A a \in AsyncBuffers : Charge(a)' = Charge(a)
  BY DEF SameBudget, AsyncBuffers, Charge
<1>3. Charges' = Charges
  BY <1>1, <1>2 DEF Charges
<1>4. ASSUME BudgetHypothesis PROVE (Starts # {} => free_async_space + Cardinality(Charges) = buffer_size \div 2)'
  BY <1>3, <1>4 DEF BudgetInv, SameBudget
<1>5. ASSUME BudgetHypothesis, NEW t \in Txns, tpc'[t] = "find" PROVE AsyncSpaceFor(treq[t])'
  <2>1. AsyncSpaceFor(treq[t]) /\ treq'[t] = treq[t] /\ free_async_space' = free_async_space
    BY <1>5 DEF BudgetInv, SameBudget
  <2> QED BY <2>1 DEF AsyncSpaceFor
<1>6. BudgetHypothesis' = BudgetHypothesis
  BY DEF BudgetHypothesis, RequestSize, DataOffsetsSize, Align, Length
<1> QED BY <1>4, <1>5, <1>6 DEF BudgetInv

\* Half the mapping is a size_t.
LEMMA HalfFacts ==
  ASSUME LayoutInv
  PROVE  /\ buffer_size \div 2 \in Nat /\ buffer_size \div 2 < SizeT /\ free_async_space \in Nat
         /\ SizeT \in Nat /\ SizeT > 0 /\ Header \in Nat
<1>1. Length \in Nat /\ Length <= SizeT /\ SizeT \in Nat /\ Header \in Nat /\ SizeT > 0
  BY AllocAssumption, PageEnds
<1>2. buffer_size \in {0, Length} /\ free_async_space \in 0 .. SizeT - 1
  BY DEF LayoutInv, HeapType
<1> QED BY <1>1, <1>2

\* A buffer that is freed gives back what it was charged with.
LEMMA FreeBudget ==
  ASSUME LayoutInv, failed = {}, BudgetInv, NEW a \in allocated_buffers, buffers[a].transaction = None,
         FreeBufLocked(a), buffer_size' = buffer_size, \A t \in Txns : tpc'[t] # "find"
  PROVE  BudgetInv'
<1>1. /\ LayoutInv' /\ allocated_buffers' = allocated_buffers \ {a}
      /\ \A b \in allocated_buffers \ {a} : buffers'[b] = buffers[b]
  BY FreeStep
<1>2. SUFFICES ASSUME BudgetHypothesis
               PROVE  (Starts # {} => free_async_space + Cardinality(Charges) = buffer_size \div 2)'
  BY DEF BudgetInv
<1>3. /\ IsFiniteSet(AsyncBuffers) /\ AsyncBuffers \subseteq allocated_buffers /\ allocated_buffers \subseteq Starts
      /\ \A b \in AsyncBuffers : buffers[b].req \in Requests /\ buffers[b].req.async /\ Charge(b) \in Nat
      /\ IsFiniteSet(Charges) /\ Cardinality(Charges) \in Nat
  BY <1>2, ChargeFacts
<1>4. free_async_space + Cardinality(Charges) = buffer_size \div 2
  BY <1>2, <1>3 DEF BudgetInv
<1>5. AsyncBuffers' = AsyncBuffers \ {a}
  BY <1>1 DEF AsyncBuffers
<1>6. \A b \in AsyncBuffers \ {a} : Charge(b)' = Charge(b)
  BY <1>1, <1>3 DEF Charge
<1> DEFINE c == [b \in AsyncBuffers |-> Charge(b)]
<1>7. Charges' = Units(AsyncBuffers \ {a}, c)
  BY <1>5, <1>6 DEF Charges, Units
<1>8. free_async_space' = IF buffers[a].req.async THEN (free_async_space + AsyncGivenBack(buffers[a].req)) % SizeT
                                                  ELSE free_async_space
  BY DEF FreeBufLocked
<1>9. CASE buffers[a].req.async
  <2>1. a \in AsyncBuffers
    BY <1>9 DEF AsyncBuffers
  <2>2. PICK n \in Nat : n = Charge(a) /\ n = c[a]
    BY <1>3, <2>1
  <2>3. PICK s : s = AsyncBuffers \ {a} /\ AsyncBuffers = s \cup {a} /\ a \notin s
    <3>1. AsyncBuffers = (AsyncBuffers \ {a}) \cup {a} /\ a \notin AsyncBuffers \ {a}
      BY <2>1
    <3> QED BY <3>1
  <2>4. IsFiniteSet(s) /\ \A b \in s : c[b] \in Nat
    BY <1>3, <2>3, FS_RemoveElement
  <2> HIDE DEF c
  <2>5. PICK k \in Nat : k = Cardinality(Units(s, c)) /\ IsFiniteSet(Units(s, c))
    BY <2>4, UnitsFinite
  <2>6. Cardinality(Units(s \cup {a}, c)) = k + n
    BY <2>2, <2>3, <2>5, UnitsAdd
  <2>7. Cardinality(Charges) = k + n
    BY <2>3, <2>6 DEF Charges, c
  <2>8. PICK f \in Nat : f = free_async_space /\ f + n < SizeT /\ f + n + k = buffer_size \div 2
    BY <1>4, <2>7, HalfFacts
  <2>9. free_async_space' = f + n
    <3>1. AsyncGivenBack(buffers[a].req) = n
      BY <2>2 DEF AsyncGivenBack, Charge
    <3>2. (f + n) % SizeT = f + n
      BY <2>8, HalfFacts
    <3> QED BY <1>8, <1>9, <2>8, <3>1, <3>2
  <2>10. Cardinality(Charges') = k
    BY <1>7, <2>3, <2>5
  <2> QED BY <2>8, <2>9, <2>10
<1>10. CASE ~buffers[a].req.async
  <2>1. AsyncBuffers \ {a} = AsyncBuffers
    BY <1>10 DEF AsyncBuffers
  <2>2. Charges' = Charges
    BY <1>7, <2>1 DEF Charges
  <2> QED BY <1>4, <1>8, <1>10, <2>2
<1> QED BY <1>9, <1>10

\* A buffer that is taken is charged with its size, which the check of the budget allowed.
LEMMA TakeBudget ==
  ASSUME AllocInv, BudgetInv, NEW t \in Txns, NewBufDone(t)
  PROVE  BudgetInv'
<1>1. LayoutInv /\ OwnersInv /\ failed = {}
  BY DEF AllocInv
<1>2. PICK a, r : a = tbuf[t] /\ r = treq[t]
  OBVIOUS
<1>3. /\ tpc[t] = "find" /\ tpc' = [tpc EXCEPT ![t] = "alloc"] /\ buffer_size' = buffer_size
      /\ allocated_buffers' = allocated_buffers \cup {a}
  BY <1>2 DEF NewBufDone, mapVars
<1>4. TakeEffect(a, r)
  BY <1>2 DEF NewBufDone, TxnPages, TakeEffect
<1>5. /\ mutex = t /\ r \in Requests /\ SizeValid(r) /\ Fits(a, PaddedSize(r))
      /\ a \notin allocated_buffers /\ a \in FreeIn(Starts)
  BY <1>1, <1>2, <1>3, FindFacts
<1>6. /\ LayoutInv' /\ buffers'[a] = NewBuffer(r) /\ \A b \in allocated_buffers : buffers'[b] = buffers[b]
  BY <1>1, <1>3, <1>4, <1>5, TakeStep
<1>7. \A x \in Txns : tpc'[x] # "find"
  <2>1. \A x \in Txns : tpc[x] = "find" => mutex = x
    BY <1>1, OwnerFacts
  <2>2. tpc \in [Txns -> {"idle", "find", "alloc", "failed", "queued", "delivered"}]
    BY <1>1 DEF OwnersInv, OwnerType
  <2> QED BY <1>3, <1>5, <2>1, <2>2
<1>8. SUFFICES ASSUME BudgetHypothesis
               PROVE  (Starts # {} => free_async_space + Cardinality(Charges) = buffer_size \div 2)'
  BY <1>7 DEF BudgetInv
<1>9. /\ IsFiniteSet(AsyncBuffers) /\ AsyncBuffers \subseteq allocated_buffers
      /\ \A b \in AsyncBuffers : Charge(b) \in Nat
      /\ IsFiniteSet(Charges) /\ Cardinality(Charges) \in Nat
  BY <1>1, <1>8, ChargeFacts
<1>10. free_async_space + Cardinality(Charges) = buffer_size \div 2 /\ AsyncSpaceFor(r)
  <2>1. Starts # {}
    BY <1>5 DEF FreeIn
  <2> QED BY <1>2, <1>3, <1>8, <2>1 DEF BudgetInv
<1>11. buffers'[a].req = r
  BY <1>6 DEF NewBuffer
<1>12. AsyncBuffers' = IF r.async THEN AsyncBuffers \cup {a} ELSE AsyncBuffers
  BY <1>3, <1>5, <1>6, <1>11 DEF AsyncBuffers
<1>13. (\A b \in AsyncBuffers : Charge(b)' = Charge(b)) /\ Charge(a)' = RequestSize(r) + Header
  BY <1>6, <1>9, <1>11 DEF Charge
<1>14. free_async_space' = IF r.async THEN (free_async_space - (PaddedSize(r) + Header)) % SizeT
                                      ELSE free_async_space
  BY <1>4 DEF TakeEffect
<1>15. CASE r.async
  <2>1. PICK n \in Nat : n = RequestSize(r) + Header /\ n = PaddedSize(r) + Header /\ n < SizeT
    <3>1. PaddedSize(r) = RequestSize(r) /\ RequestSize(r) \in Nat
      BY <1>5, <1>8, <1>15, NotPadded, SizeFacts DEF BudgetHypothesis, SizesOk
    <3>2. PaddedSize(r) <= Length
      <4>1. PICK e : e = End(Starts, buffer_size, a)
        OBVIOUS
      <4>2. PaddedSize(r) <= e - a
        BY <1>5, <4>1 DEF Fits, FitsIn
      <4>3. Starts # {} /\ a \in Starts
        BY <1>5 DEF FreeIn
      <4>4. Tiling(Starts, FreeIn(Starts), buffer_size) /\ buffer_size = Length
        BY <1>1, <4>3, LayoutFacts
      <4>5. e \in Int /\ e <= Length /\ a \in Nat
        BY <4>1, <4>3, <4>4, TilingFacts
      <4> QED BY <3>1, <4>2, <4>5, PageEnds
    <3> QED BY <1>8, <3>1, <3>2, AllocAssumption, PageEnds DEF BudgetHypothesis
  <2> DEFINE c == [b \in AsyncBuffers \cup {a} |-> IF b = a THEN n ELSE Charge(b)]
  <2>2. a \notin AsyncBuffers /\ c[a] = n
    BY <1>5, <1>9
  <2>3. Charges' = Units(AsyncBuffers \cup {a}, c)
    BY <1>12, <1>13, <1>15, <2>1, <2>2 DEF Charges
  <2>4. Units(AsyncBuffers, c) = Charges
    BY <2>2 DEF Charges, Units
  <2> HIDE DEF c
  <2>5. PICK k \in Nat : k = Cardinality(Charges)
    BY <1>9
  <2>6. Cardinality(Charges') = k + n
    BY <1>9, <2>2, <2>3, <2>4, <2>5, UnitsAdd
  <2>7. PICK f \in Nat : f = free_async_space /\ f >= n /\ f < SizeT /\ f + k = buffer_size \div 2
    <3>1. n % SizeT = n
      BY <1>1, <2>1, HalfFacts
    <3>2. free_async_space >= n
      BY <1>10, <1>15, <2>1, <3>1 DEF AsyncSpaceFor
    <3>3. free_async_space \in 0 .. SizeT - 1
      BY <1>1 DEF LayoutInv, HeapType
    <3> QED BY <1>1, <1>10, <2>5, <3>2, <3>3, HalfFacts
  <2>8. free_async_space' = f - n
    <3>1. (f - n) % SizeT = f - n
      BY <1>1, <2>7, HalfFacts
    <3> QED BY <1>14, <1>15, <2>1, <2>7, <3>1
  <2> QED BY <1>3, <2>6, <2>7, <2>8
<1>16. CASE ~r.async
  <2>1. Charges' = Charges
    BY <1>12, <1>13, <1>16 DEF Charges
  <2> QED BY <1>3, <1>10, <1>14, <1>16, <2>1
<1> QED BY <1>15, <1>16

\* Who frees, and that no search is under way then.
LEMMA FreeSteps ==
  ASSUME AllocInv, BudgetInv,
         \/ \E t \in Txns : FreeFailed(t)
         \/ \E u \in Freers : FreeBuf(u)
         \/ DeferredFree
  PROVE  BudgetInv'
<1>1. LayoutInv /\ OwnersInv /\ failed = {}
  BY DEF AllocInv
<1>2. /\ None \notin Txns /\ \A x \in Txns : TxnOk(x) /\ (tpc[x] = "find" => mutex = x)
      /\ \A u \in Freers : FreerOk(u)
      /\ tpc \in [Txns -> {"idle", "find", "alloc", "failed", "queued", "delivered"}]
  BY <1>1, OwnerFacts DEF OwnersInv, OwnerType
<1>3. ASSUME NEW t \in Txns, FreeFailed(t) PROVE BudgetInv'
  <2>1. /\ tpc[t] = "failed" /\ mutex = None /\ FreeBufLocked(tbuf[t]) /\ buffer_size' = buffer_size
        /\ tpc' = [tpc EXCEPT ![t] = "idle"]
    BY <1>3 DEF FreeFailed, TxnDone, mapVars
  <2>2. tbuf[t] \in allocated_buffers /\ buffers[tbuf[t]].transaction = None
    BY <1>2, <2>1 DEF TxnOk
  <2>3. \A x \in Txns : tpc'[x] # "find"
    BY <1>2, <2>1
  <2> QED BY <1>1, <2>1, <2>2, <2>3, FreeBudget
<1>4. ASSUME NEW u \in Freers, FreeBuf(u) PROVE BudgetInv'
  <2>1. /\ upc[u] = "detached" /\ mutex = None /\ FreeBufLocked(ubuf[u]) /\ buffer_size' = buffer_size /\ tpc' = tpc
    BY <1>4 DEF FreeBuf, mapVars, txnVars
  <2>2. ubuf[u] \in allocated_buffers /\ buffers[ubuf[u]].transaction = None
    BY <1>2, <2>1 DEF FreerOk
  <2>3. \A x \in Txns : tpc'[x] # "find"
    BY <1>2, <2>1
  <2> QED BY <1>1, <2>1, <2>2, <2>3, FreeBudget
<1>5. CASE DeferredFree
  <2>1. PICK a : a = Min(allocated_buffers)
    OBVIOUS
  <2>2. /\ life = "releasing" /\ allocated_buffers # {} /\ FreeBufLocked(a) /\ buffer_size' = buffer_size /\ tpc' = tpc
    BY <1>5, <2>1 DEF DeferredFree, mapVars, txnVars
  <2>3. /\ \A x \in Txns : tpc[x] = "idle"
        /\ \A b \in allocated_buffers : buffers[b].transaction = None
    BY <1>1, <2>2, ReleasedFacts
  <2>4. a \in allocated_buffers
    <3>1. allocated_buffers \subseteq Nat
      BY <1>1, PageEnds DEF LayoutInv, HeapType, Addr
    <3> QED BY <2>1, <2>2, <3>1, MinIs
  <2> QED BY <1>1, <2>2, <2>3, <2>4, FreeBudget
<1> QED BY <1>3, <1>4, <1>5

\* The search starts when the check of the budget has passed, and MmapReady sets the budget up.
LEMMA BeginSteps ==
  ASSUME AllocInv, BudgetInv,
         MmapReady \/ \E t \in Txns, r \in Requests, a \in Addr : NewBufFind(t, r, a)
  PROVE  BudgetInv'
<1>1. LayoutInv /\ OwnersInv
  BY DEF AllocInv
<1>2. tpc \in [Txns -> {"idle", "find", "alloc", "failed", "queued", "delivered"}] /\ treq \in [Txns -> Requests \cup {NoRequest}]
  BY <1>1 DEF OwnersInv, OwnerType
<1>3. CASE MmapReady
  <2>1. /\ Starts = {} /\ free_async_space' = buffer_size \div 2 /\ buffer_size' = buffer_size
        /\ allocated_buffers' = allocated_buffers /\ tpc' = tpc
    BY <1>3 DEF MmapReady, Claimed, txnVars
  <2>2. allocated_buffers = {} /\ \A x \in Txns : tpc[x] # "find"
    <3>1. allocated_buffers = Starts \ FreeIn(Starts)
      BY <1>1 DEF LayoutInv
    <3>2. \A x \in Txns : tpc[x] = "find" => tbuf[x] \in FreeIn(Starts)
      BY <1>1, FindFacts
    <3> QED BY <2>1, <3>1, <3>2 DEF FreeIn
  <2>3. AsyncBuffers' = {}
    BY <2>1, <2>2 DEF AsyncBuffers
  <2>4. Charges' = {}
    BY <2>3 DEF Charges, Units
  <2>5. Cardinality(Charges') = 0
    BY <2>4, FS_EmptySet
  <2> QED BY <1>1, <2>1, <2>2, <2>5, HalfFacts DEF BudgetInv
<1>4. ASSUME NEW t \in Txns, NEW r \in Requests, NEW a \in Addr, NewBufFind(t, r, a) PROVE BudgetInv'
  <2>1. /\ AsyncSpaceFor(r) /\ tpc' = [tpc EXCEPT ![t] = "find"] /\ treq' = [treq EXCEPT ![t] = r]
        /\ buffer_size' = buffer_size /\ allocated_buffers' = allocated_buffers /\ buffers' = buffers
        /\ free_async_space' = free_async_space
    BY <1>4 DEF NewBufFind, mapVars, heapVars
  <2>2. Charges' = Charges
    BY <2>1 DEF Charges, Charge, AsyncBuffers
  <2>3. ASSUME BudgetHypothesis, NEW x \in Txns, tpc'[x] = "find" PROVE AsyncSpaceFor(treq[x])'
    <3>1. AsyncSpaceFor(treq'[x])
      <4>1. CASE x = t
        BY <1>2, <2>1, <4>1
      <4>2. CASE x # t
        BY <1>2, <2>1, <2>3, <4>2 DEF BudgetInv
      <4> QED BY <4>1, <4>2
    <3> QED BY <2>1, <3>1 DEF AsyncSpaceFor
  <2>4. Starts' = Starts
    BY <2>1 DEF Starts
  <2>5. BudgetHypothesis' = BudgetHypothesis
    BY DEF BudgetHypothesis, RequestSize, DataOffsetsSize, Align, Length
  <2> QED BY <2>1, <2>2, <2>3, <2>4, <2>5 DEF BudgetInv
<1> QED BY <1>3, <1>4

\* The steps that set flags, refuse, or have nothing to do with the budget.
LEMMA OtherSteps ==
  ASSUME AllocInv,
         \/ MmapClaim \/ MmapFails \/ VmaClose \/ MmExit \/ Release \/ DeferredRelease \/ DeferredDone
         \/ \E p \in Page : FreePage(p)
         \/ \E t \in Txns : \/ NewBufNoVma(t) \/ (\E f \in Page : NewBufPageFails(t, f)) \/ NewBufSplitFails(t)
                            \/ CopyAndQueue(t) \/ Deliver(t) \/ FixupFails(t) \/ DeliverFails(t) \/ DropTransaction(t)
         \/ \E u \in Freers : Detach(u) \/ \E a \in Addr : PrepareToFree(u, a)
         \/ UNCHANGED vars
  PROVE  SameBudget
<1>1. LayoutInv /\ OwnersInv
  BY DEF AllocInv
<1>2. /\ tpc \in [Txns -> {"idle", "find", "alloc", "failed", "queued", "delivered"}]
      /\ treq \in [Txns -> Requests \cup {NoRequest}]
  BY <1>1 DEF OwnersInv, OwnerType
<1>3. /\ allocated_buffers \subseteq Starts /\ \A b \in Starts : buffers[b] \in BufferRecord
  BY <1>1 DEF LayoutInv, HeapType
<1>4. ASSUME NEW a, NEW x, buffers' = SetTransaction(a, x)
      PROVE  Starts' = Starts /\ \A b \in allocated_buffers : buffers'[b].req = buffers[b].req
  BY <1>3, <1>4 DEF SetTransaction, BufferRecord, Starts
<1>5. ASSUME NEW a, NEW v, buffers' = [buffers EXCEPT ![a].allow_user_free = v]
      PROVE  Starts' = Starts /\ \A b \in allocated_buffers : buffers'[b].req = buffers[b].req
  BY <1>3, <1>5 DEF BufferRecord, Starts
<1>6. CASE MmapClaim \/ MmapFails
  BY <1>1, <1>6 DEF MmapClaim, MmapFails, Claimed, heapVars, txnVars, SameBudget, LayoutInv, Starts
<1>7. CASE VmaClose \/ MmExit \/ Release \/ DeferredRelease
  BY <1>7 DEF VmaClose, MmExit, Release, DeferredRelease, mapVars, heapVars, txnVars, SameBudget, Starts
<1>8. CASE DeferredDone
  <2>1. allocated_buffers = {} /\ Starts' = {}
    BY <1>8 DEF DeferredDone, Starts
  <2> QED BY <1>8, <2>1 DEF DeferredDone, mapVars, txnVars, SameBudget, Starts
<1>9. CASE \E p \in Page : FreePage(p)
  BY <1>9 DEF FreePage, mapVars, txnVars, SameBudget, Starts
<1>10. ASSUME NEW t \in Txns, NewBufNoVma(t) \/ (\E f \in Page : NewBufPageFails(t, f)) \/ NewBufSplitFails(t)
       PROVE  SameBudget
  <2>1. NewBufRefused(t)
    BY <1>10 DEF NewBufNoVma, NewBufPageFails, NewBufSplitFails
  <2> QED BY <1>2, <2>1 DEF NewBufRefused, mapVars, SameBudget, Starts
<1>11. ASSUME NEW t \in Txns, CopyAndQueue(t) PROVE SameBudget
  <2>1. /\ UNCHANGED <<buffer_size, allocated_buffers, free_async_space, treq>>
        /\ \/ buffers' = SetTransaction(tbuf[t], t) /\ tpc' = [tpc EXCEPT ![t] = "queued"]
           \/ buffers' = SetTransaction(tbuf[t], None) /\ tpc' = [tpc EXCEPT ![t] = "failed"]
    BY <1>11 DEF CopyAndQueue, mapVars, Untied
  <2> QED BY <1>2, <1>4, <2>1 DEF SameBudget
<1>12. ASSUME NEW t \in Txns, Deliver(t) PROVE SameBudget
  <2>1. /\ UNCHANGED <<buffer_size, allocated_buffers, free_async_space, treq>>
        /\ buffers' = [buffers EXCEPT ![tbuf[t]].allow_user_free = TRUE] /\ tpc' = [tpc EXCEPT ![t] = "delivered"]
    BY <1>12 DEF Deliver, HandedOver, mapVars
  <2> QED BY <1>2, <1>5, <2>1 DEF SameBudget
<1>13. ASSUME NEW t \in Txns, FixupFails(t) PROVE SameBudget
  <2>1. /\ UNCHANGED <<buffer_size, allocated_buffers, free_async_space, treq>>
        /\ buffers' = SetTransaction(tbuf[t], None) /\ tpc' = [tpc EXCEPT ![t] = "failed"]
    BY <1>13 DEF FixupFails, mapVars
  <2> QED BY <1>2, <1>4, <2>1 DEF SameBudget
<1>14. ASSUME NEW t \in Txns, DeliverFails(t) \/ DropTransaction(t) PROVE SameBudget
  <2>1. /\ UNCHANGED <<buffer_size, allocated_buffers, free_async_space>>
        /\ buffers' = buffers \/ buffers' = SetTransaction(tbuf[t], None)
        /\ tpc' = [tpc EXCEPT ![t] = "idle"] /\ treq' = [treq EXCEPT ![t] = NoRequest]
    BY <1>14 DEF DeliverFails, DropTransaction, TxnDone, mapVars
  <2>2. Starts' = Starts /\ \A b \in allocated_buffers : buffers'[b].req = buffers[b].req
    <3>1. CASE buffers' = buffers
      BY <3>1 DEF Starts
    <3> QED BY <1>4, <2>1, <3>1
  <2> QED BY <1>2, <2>1, <2>2 DEF SameBudget
<1>15. ASSUME NEW u \in Freers, Detach(u) PROVE SameBudget
  <2>1. /\ UNCHANGED <<buffer_size, allocated_buffers, free_async_space, treq, tpc>>
        /\ buffers' = SetTransaction(ubuf[u], None)
    BY <1>15 DEF Detach, mapVars
  <2> QED BY <1>4, <2>1 DEF SameBudget
<1>16. ASSUME NEW u \in Freers, NEW a \in Addr, PrepareToFree(u, a) PROVE SameBudget
  <2>1. /\ UNCHANGED <<buffer_size, allocated_buffers, free_async_space, treq, tpc>>
        /\ buffers' = [buffers EXCEPT ![a].allow_user_free = FALSE]
    BY <1>16 DEF PrepareToFree, mapVars, txnVars
  <2> QED BY <1>5, <2>1 DEF SameBudget
<1>17. CASE UNCHANGED vars
  BY <1>17 DEF vars, mapVars, heapVars, txnVars, SameBudget, Starts
<1> QED BY <1>6, <1>7, <1>8, <1>9, <1>10, <1>11, <1>12, <1>13, <1>14, <1>15, <1>16, <1>17

\* Every step keeps the budget.
LEMMA NextBudget ==
  ASSUME AllocInv, BudgetInv, [Next]_vars
  PROVE  BudgetInv'
<1>1. CASE \/ MmapClaim \/ MmapFails \/ VmaClose \/ MmExit \/ Release \/ DeferredRelease \/ DeferredDone
           \/ \E p \in Page : FreePage(p)
           \/ \E t \in Txns : \/ NewBufNoVma(t) \/ (\E f \in Page : NewBufPageFails(t, f)) \/ NewBufSplitFails(t)
                              \/ CopyAndQueue(t) \/ Deliver(t) \/ FixupFails(t) \/ DeliverFails(t) \/ DropTransaction(t)
           \/ \E u \in Freers : Detach(u) \/ \E a \in Addr : PrepareToFree(u, a)
           \/ UNCHANGED vars
  BY <1>1, OtherSteps, BudgetFrame
<1>2. CASE MmapReady \/ \E t \in Txns, r \in Requests, a \in Addr : NewBufFind(t, r, a)
  BY <1>2, BeginSteps
<1>3. CASE (\E t \in Txns : FreeFailed(t)) \/ (\E u \in Freers : FreeBuf(u)) \/ DeferredFree
  BY <1>3, FreeSteps
<1>4. CASE \E t \in Txns : NewBufDone(t)
  BY <1>4, TakeBudget
<1> QED BY <1>1, <1>2, <1>3, <1>4 DEF Next, TxnStep, ProcessStep

\* The inductive invariant of the budget: free_async_space and what each asynchronous buffer was
\* charged with in binder_alloc_new_buf_locked() add up to half the mapping, and the budget that
\* was checked under alloc->mutex is still there when it is charged.
THEOREM BudgetInvariant == Spec => []BudgetInv
<1>1. Init => BudgetInv
  BY DEF Init, BudgetInv, Starts
<1>2. AllocInv /\ BudgetInv /\ [Next]_vars => BudgetInv'
  BY NextBudget
<1> QED BY <1>1, <1>2, AllocInvariant, PTL DEF Spec

\* AsyncSpaceConserved of BinderAlloc: whatever is allocated, refused half-way and freed, and by whom,
\* no asynchronous space is lost or gained, as long as no asynchronous request is empty and
\* the mapping with one header is below the range of size_t.
THEOREM AsyncSpaceAlwaysConserved ==
  ASSUME BudgetHypothesis
  PROVE  Spec => []AsyncSpaceConserved
<1>1. AllocInv /\ BudgetInv => AsyncSpaceConserved
  BY BudgetFollows
<1> QED BY <1>1, AllocInvariant, BudgetInvariant, PTL
=============================================================================
