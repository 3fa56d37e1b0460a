---------------------------- MODULE AshmemRanges ----------------------------
(***************************************************************************)
(* The range arithmetic of ashmem/ashmem.c: the byte interval of a pin     *)
(* request, and the walks of ashmem_pin(), ashmem_unpin() and              *)
(* ashmem_get_pin_status() over the unpinned list of an area.              *)
(*                                                                         *)
(* A heap h stands for what the walks change, all of it under              *)
(* ashmem_mutex:                                                           *)
(*   rng   the ashmem_range objects by identity, NoRange when free         *)
(*   list  the unpinned list of the area walked, highest pages first       *)
(*   lru   ashmem_lru_list,   cnt  lru_count                               *)
(*   new   *new_range, the preallocated object, 0 once it is used          *)
(*   ret   the value the walk returns                                      *)
(*   stop  the loop was left by break or return                            *)
(***************************************************************************)
EXTENDS Integers, Sequences, SequencesExt

CONSTANTS
  PageSize,   \* PAGE_SIZE
  U32,        \* 2^32, the modulus of struct ashmem_pin's fields
  SizeT       \* 2^64, the modulus of size_t page numbers

ASSUME WidthAssumption ==
  /\ PageSize \in Nat \ {0}
  /\ U32 \in Nat \ {0} /\ SizeT \in Nat
  /\ U32 % PageSize = 0 /\ SizeT >= U32

NOT_PURGED == 0
WAS_PURGED == 1
IS_UNPINNED == 0
IS_PINNED == 1
EINVAL == -22

NoRange == [asma |-> "none", pgstart |-> 0, pgend |-> 0, purged |-> 0]

PAGE_ALIGN(bytes) == ((bytes + PageSize - 1) \div PageSize) * PageSize

-----------------------------------------------------------------------------
(* The byte interval of a pin request, in pages.                           *)

\* per custom, you can pass zero for len to mean "everything onward"
EffectiveLen(size, offset, len) ==
  IF len = 0 THEN (PAGE_ALIGN(size) - offset) % U32 ELSE len

PinArgsOk(size, offset, len) ==
  LET l == EffectiveLen(size, offset, len) IN
  /\ offset % PageSize = 0 /\ l % PageSize = 0
  /\ U32 - 1 - offset >= l
  /\ PAGE_ALIGN(size) >= offset + l

FirstPage(offset) == offset \div PageSize

LastPage(size, offset, len) ==
  (FirstPage(offset) + EffectiveLen(size, offset, len) \div PageSize - 1) % SizeT

-----------------------------------------------------------------------------
(* Predicates on a range r and a page interval.                            *)

range_size(r) == (r.pgend - r.pgstart + 1) % SizeT
range_on_lru(r) == r.purged = NOT_PURGED
page_range_subsumes_range(r, s, e) == r.pgstart >= s /\ r.pgend <= e
page_range_subsumed_by_range(r, s, e) == r.pgstart <= s /\ r.pgend >= e
page_in_range(r, pg) == r.pgstart <= pg /\ r.pgend >= pg
page_range_in_range(r, s, e) ==
  page_in_range(r, s) \/ page_in_range(r, e) \/ page_range_subsumes_range(r, s, e)
range_before_page(r, pg) == r.pgend < pg

-----------------------------------------------------------------------------
(* Operations on the heap.                                                 *)

lru_add(h, i) == [h EXCEPT !.lru = Append(@, i), !.cnt = @ + range_size(h.rng[i])]
lru_del(h, i) == [h EXCEPT !.lru = Remove(@, i), !.cnt = @ - range_size(h.rng[i])]

\* The new range is linked in front of position pos of the list: list_add_tail()
\* on the entry the loop stopped at, or on the list head when it ran out.
range_alloc(h, pos, a, purged, s, e) ==
  LET r  == [asma |-> a, pgstart |-> s, pgend |-> e, purged |-> purged]
      h1 == [h EXCEPT !.rng[h.new] = r, !.list = InsertAt(@, pos, h.new), !.new = 0]
  IN  IF range_on_lru(r) THEN lru_add(h1, h.new) ELSE h1

range_del(h, i) ==
  LET h1 == IF range_on_lru(h.rng[i]) THEN lru_del(h, i) ELSE h
  IN  [h1 EXCEPT !.list = Remove(@, i), !.rng[i] = NoRange]

\* Mutant: lru_count is left as it was.
range_shrink_uncounted(h, i, s, e) ==
  [h EXCEPT !.rng[i].pgstart = s, !.rng[i].pgend = e]

range_shrink(h, i, s, e) ==
  LET r  == h.rng[i]
      r1 == [r EXCEPT !.pgstart = s, !.pgend = e]
  IN  [h EXCEPT !.rng[i] = r1,
                !.cnt = IF range_on_lru(r)
                          THEN @ - (range_size(r) - range_size(r1)) ELSE @]

IndexOf(list, i) == CHOOSE k \in DOMAIN list : list[k] = i

-----------------------------------------------------------------------------
(* ashmem_pin(): one iteration of the walk, on range i.                    *)

\* Mutant: the range split off by a pin starts as ASHMEM_NOT_PURGED.
PinOverlap_forgets_purge(h, i, a, s, e) ==
  LET r == h.rng[i] IN
  CASE page_range_subsumes_range(r, s, e) -> range_del(h, i)
    [] r.pgstart >= s /\ r.pgend > e      -> range_shrink(h, i, e + 1, r.pgend)
    [] r.pgstart < s /\ r.pgend <= e      -> range_shrink(h, i, r.pgstart, s - 1)
    [] r.pgstart < s /\ r.pgend > e       ->
         LET h2 == range_alloc(h, IndexOf(h.list, i), a, NOT_PURGED, e + 1, r.pgend)
         IN  [range_shrink(h2, i, r.pgstart, s - 1) EXCEPT !.stop = TRUE]

\* The four cases of a range that meets the requested pages.
PinOverlap(h, i, a, s, e) ==
  LET r == h.rng[i] IN
  CASE page_range_subsumes_range(r, s, e) -> range_del(h, i)
    [] r.pgstart >= s /\ r.pgend > e      -> range_shrink(h, i, e + 1, r.pgend)
    [] r.pgstart < s /\ r.pgend <= e      -> range_shrink(h, i, r.pgstart, s - 1)
    [] r.pgstart < s /\ r.pgend > e       ->  \* the second half is a range of its own
         LET h2 == range_alloc(h, IndexOf(h.list, i), a, r.purged, e + 1, r.pgend)
         IN  [range_shrink(h2, i, r.pgstart, s - 1) EXCEPT !.stop = TRUE]

PinOne(h, i, a, s, e) ==
  LET r == h.rng[i] IN
  IF range_before_page(r, s) THEN [h EXCEPT !.stop = TRUE]
  ELSE IF page_range_in_range(r, s, e)
    THEN PinOverlap([h EXCEPT !.ret = IF r.purged = WAS_PURGED THEN WAS_PURGED ELSE @],
                    i, a, s, e)
  ELSE h

ashmem_pin(h, a, s, e) ==
  FoldLeft(LAMBDA acc, i : IF acc.stop THEN acc ELSE PinOne(acc, i, a, s, e),
           [h EXCEPT !.ret = NOT_PURGED, !.stop = FALSE], h.list)

-----------------------------------------------------------------------------
(* ashmem_unpin(): one pass from "restart".  w carries the heap with the   *)
(* interval and the purge status accumulated so far.                       *)

\* The positions the loop visits before it meets its insertion point.
Visited(h, s) ==
  {k \in DOMAIN h.list : \A j \in 1..k : ~range_before_page(h.rng[h.list[j]], s)}

LowOf(x, y)  == IF x < y THEN x ELSE y
HighOf(x, y) == IF x > y THEN x ELSE y

\* Mutant: the purge status of a range that is merged is not taken over.
UnpinPass_drops_status(w, a) ==
  LET h       == w.h
      at(k)   == h.rng[h.list[k]]
      covers  == {k \in Visited(h, w.s) : page_range_subsumed_by_range(at(k), w.s, w.e)}
      touches == {k \in Visited(h, w.s) : page_range_in_range(at(k), w.s, w.e)}
      hits    == covers \cup touches
      k       == Min(hits)
  IN  IF hits = {}
        THEN [w EXCEPT !.h = range_alloc(h, Cardinality(Visited(h, w.s)) + 1, a,
                                         w.purged, w.s, w.e),
                       !.done = TRUE]
      ELSE IF k \in covers THEN [w EXCEPT !.done = TRUE]
      ELSE [h |-> range_del(h, h.list[k]),
            s |-> LowOf(at(k).pgstart, w.s), e |-> HighOf(at(k).pgend, w.e),
            purged |-> w.purged, done |-> FALSE]

UnpinPass(w, a) ==
  LET h       == w.h
      at(k)   == h.rng[h.list[k]]
      covers  == {k \in Visited(h, w.s) : page_range_subsumed_by_range(at(k), w.s, w.e)}
      touches == {k \in Visited(h, w.s) : page_range_in_range(at(k), w.s, w.e)}
      hits    == covers \cup touches
      k       == Min(hits)
  IN  IF hits = {}
        THEN [w EXCEPT !.h = range_alloc(h, Cardinality(Visited(h, w.s)) + 1, a,
                                         w.purged, w.s, w.e),
                       !.done = TRUE]
      ELSE IF k \in covers THEN [w EXCEPT !.done = TRUE]
      ELSE [h |-> range_del(h, h.list[k]),
            s |-> LowOf(at(k).pgstart, w.s), e |-> HighOf(at(k).pgend, w.e),
            purged |-> HighOf(at(k).purged, w.purged), done |-> FALSE]

\* Every restart follows a range_del(), so one pass more than the list has
\* ranges is enough.
ashmem_unpin(h, a, s, e) ==
  LET start == [h |-> [h EXCEPT !.ret = 0], s |-> s, e |-> e,
                purged |-> NOT_PURGED, done |-> FALSE]
  IN  FoldLeft(LAMBDA w, i : IF w.done THEN w ELSE UnpinPass(w, a),
               start, Append(h.list, 0)).h

\* Mutant: only ranges that lie inside the interval count.
ashmem_get_pin_status_inside(h, s, e) ==
  IF \E k \in Visited(h, s) : page_range_subsumes_range(h.rng[h.list[k]], s, e)
    THEN IS_UNPINNED ELSE IS_PINNED

ashmem_get_pin_status(h, s, e) ==
  IF \E k \in Visited(h, s) : page_range_in_range(h.rng[h.list[k]], s, e)
    THEN IS_UNPINNED ELSE IS_PINNED

=============================================================================
