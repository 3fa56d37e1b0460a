-------------------------- MODULE BinderDeathProofs -------------------------
(***************************************************************************)
(* For any numbers of references, threads and notifications: every         *)
(* binder_ref_death has an owner exactly while it is allocated, no         *)
(* assertion fails and no death and no clear is lost.  DeathInv is         *)
(* inductive, one lemma per action.                                        *)
(***************************************************************************)
EXTENDS BinderDeath, TLAPS

\* Nothing is allocated and nothing is queued at first.
LEMMA InitDeath == Init => DeathInv
<1> SUFFICES ASSUME Init PROVE DeathInv OBVIOUS
<1> USE DeathAssumption
<1>1. TypeOK
  BY DEF Init, TypeOK, Lists, Types, NoReq
<1>2. OwnedIffLive
  BY DEF Init, OwnedIffLive, Owned
<1>3. AssertionsHold /\ DeathNotMissed /\ ClearNotForgotten
  BY DEF Init, AssertionsHold, DeathNotMissed, ClearNotForgotten, Lists
<1>4. PlacesExact /\ RequestsExact /\ HistoryExact /\ ReleasedEmpty
  BY DEF Init, PlacesExact, RequestsExact, HistoryExact, ReleasedEmpty, Lists
<1> QED BY <1>1, <1>2, <1>3, <1>4 DEF DeathInv

\* A new ref carries no notification.
LEMMA GetRefDeath ==
  ASSUME DeathInv, NEW r \in Refs, GetRef(r)
  PROVE  DeathInv'
<1> USE DeathAssumption DEF DeathInv, GetRef, threadVars
<1>1. TypeOK'
  BY DEF TypeOK
<1>2. OwnedIffLive'
  BY DEF OwnedIffLive, Owned, TypeOK
<1>3. AssertionsHold'
  BY DEF AssertionsHold, Freeable, PlacesExact, TypeOK, Lists
<1>4. DeathNotMissed'
  BY DEF DeathNotMissed, PlacesExact, TypeOK
<1>5. ClearNotForgotten'
  BY DEF ClearNotForgotten, Freeable, TypeOK
<1>6. PlacesExact'
  BY DEF PlacesExact, TypeOK, Lists
<1>7. RequestsExact'
  BY DEF RequestsExact, TypeOK
<1>8. HistoryExact'
  BY DEF HistoryExact, Freeable, TypeOK
<1>9. ReleasedEmpty'
  BY DEF ReleasedEmpty, TypeOK
<1> QED BY <1>1, <1>2, <1>3, <1>4, <1>5, <1>6, <1>7, <1>8, <1>9

\* A ref leaves the trees; its notification keeps its place for the moment.
LEMMA EraseRefDeath ==
  ASSUME DeathInv, NEW r \in Refs, EraseRef(r)
  PROVE  DeathInv'
<1> USE DeathAssumption DEF DeathInv, EraseRef, threadVars
<1>1. TypeOK'
  BY DEF TypeOK
<1>2. OwnedIffLive'
  BY DEF OwnedIffLive, Owned, TypeOK
<1>3. AssertionsHold'
  BY DEF AssertionsHold, Freeable, PlacesExact, TypeOK, Lists
<1>4. DeathNotMissed'
  BY DEF DeathNotMissed, PlacesExact, TypeOK
<1>5. ClearNotForgotten'
  BY DEF ClearNotForgotten, Freeable, TypeOK
<1>6. PlacesExact'
  BY DEF PlacesExact, TypeOK, Lists
<1>7. RequestsExact'
  BY DEF RequestsExact, TypeOK
<1>8. HistoryExact'
  BY DEF HistoryExact, Freeable, TypeOK
<1>9. ReleasedEmpty'
  BY DEF ReleasedEmpty, TypeOK
<1> QED BY <1>1, <1>2, <1>3, <1>4, <1>5, <1>6, <1>7, <1>8, <1>9

\* The notification is unlinked and freed with its ref.
LEMMA CleanupRefDeath ==
  ASSUME DeathInv, NEW r \in Refs, CleanupRef(r)
  PROVE  DeathInv'
<1> USE DeathAssumption DEF DeathInv, CleanupRef, threadVars
<1>1. TypeOK'
  BY DEF TypeOK, Lists
<1>2. OwnedIffLive'
  <2>1. \A e \in Deaths : e # ref_death[r] => (Owned(e)' <=> Owned(e))
    BY DEF Owned, TypeOK
  <2>2. \A e \in Deaths : e = ref_death[r] => ~Owned(e)'
    BY DEF OwnedIffLive, Owned, TypeOK
  <2>3. \A e \in Deaths : Owned(e)' <=> mem'[e] = "live"
    BY <2>1, <2>2 DEF OwnedIffLive, TypeOK
  <2> QED BY <2>3 DEF OwnedIffLive, TypeOK
<1>3. AssertionsHold'
  BY DEF AssertionsHold, Freeable, OwnedIffLive, TypeOK, Lists
<1>4. DeathNotMissed'
  BY DEF DeathNotMissed, OwnedIffLive, PlacesExact, TypeOK
<1>5. ClearNotForgotten'
  BY DEF ClearNotForgotten, Freeable, TypeOK
<1>6. PlacesExact'
  BY DEF PlacesExact, TypeOK, Lists
<1>7. RequestsExact'
  BY DEF RequestsExact, OwnedIffLive, Owned, TypeOK
<1>8. HistoryExact'
  BY DEF HistoryExact, Freeable, TypeOK
<1>9. ReleasedEmpty'
  BY DEF ReleasedEmpty, TypeOK
<1> QED BY <1>1, <1>2, <1>3, <1>4, <1>5, <1>6, <1>7, <1>8, <1>9

\* The node dies: the notification of a live ref is queued, and was on no list.
LEMMA NodeReleaseDeath ==
  ASSUME DeathInv, NEW r \in Refs, NodeRelease(r)
  PROVE  DeathInv'
<1> USE DeathAssumption DEF DeathInv, NodeRelease, Notified, threadVars
<1>1. TypeOK'
  BY DEF TypeOK, Types, Lists
<1>2. OwnedIffLive'
  BY DEF OwnedIffLive, Owned, TypeOK
<1>3. AssertionsHold'
  BY DEF AssertionsHold, Freeable, PlacesExact, TypeOK, OwnedIffLive, Lists
<1>4. DeathNotMissed'
  BY DEF DeathNotMissed, PlacesExact, TypeOK
<1>5. ClearNotForgotten'
  BY DEF ClearNotForgotten, HistoryExact, Freeable, TypeOK
<1>6. PlacesExact'
  BY DEF PlacesExact, TypeOK, Lists
<1>7. RequestsExact'
  BY DEF RequestsExact, TypeOK
<1>8. HistoryExact'
  BY DEF HistoryExact, Freeable, AssertionsHold, TypeOK, OwnedIffLive
<1>9. ReleasedEmpty'
  BY DEF ReleasedEmpty, TypeOK
<1> QED BY <1>1, <1>2, <1>3, <1>4, <1>5, <1>6, <1>7, <1>8, <1>9

\* An object is allocated before the locks are taken.
LEMMA RequestAllocDeath ==
  ASSUME DeathInv, NEW t \in Threads, NEW r \in Refs, NEW c \in Cookies, NEW d \in Deaths,
         RequestAlloc(t, r, c, d)
  PROVE  DeathInv'
<1> USE DeathAssumption DEF DeathInv, RequestAlloc, Running, refVars
<1>1. TypeOK'
  BY DEF TypeOK
<1>2. OwnedIffLive'
  BY DEF OwnedIffLive, Owned, TypeOK
<1>3. AssertionsHold'
  BY DEF AssertionsHold, Freeable, PlacesExact, TypeOK, Lists
<1>4. DeathNotMissed'
  BY DEF DeathNotMissed, PlacesExact, TypeOK
<1>5. ClearNotForgotten'
  BY DEF ClearNotForgotten, Freeable, TypeOK
<1>6. PlacesExact'
  BY DEF PlacesExact, TypeOK, Lists
<1>7. RequestsExact'
  BY DEF RequestsExact, TypeOK
<1>8. HistoryExact'
  BY DEF HistoryExact, Freeable, TypeOK
<1>9. ReleasedEmpty'
  BY DEF ReleasedEmpty, TypeOK
<1> QED BY <1>1, <1>2, <1>3, <1>4, <1>5, <1>6, <1>7, <1>8, <1>9

\* The object of a refused request is freed.
LEMMA RequestRefusedDeath ==
  ASSUME DeathInv, NEW t \in Threads, RequestRefused(t)
  PROVE  DeathInv'
<1> USE DeathAssumption DEF DeathInv, RequestRefused, NoReq, refVars
<1>1. TypeOK'
  BY DEF TypeOK, RequestsExact
<1>2. OwnedIffLive'
  BY DEF OwnedIffLive, Owned, TypeOK, RequestsExact
<1>3. AssertionsHold'
  BY DEF AssertionsHold, Freeable, PlacesExact, TypeOK, Lists
<1>4. DeathNotMissed'
  BY DEF DeathNotMissed, PlacesExact, TypeOK
<1>5. ClearNotForgotten'
  BY DEF ClearNotForgotten, Freeable, TypeOK
<1>6. PlacesExact'
  BY DEF PlacesExact, TypeOK, Lists
<1>7. RequestsExact'
  BY DEF RequestsExact, TypeOK
<1>8. HistoryExact'
  BY DEF HistoryExact, Freeable, TypeOK
<1>9. ReleasedEmpty'
  BY DEF ReleasedEmpty, TypeOK
<1> QED BY <1>1, <1>2, <1>3, <1>4, <1>5, <1>6, <1>7, <1>8, <1>9

\* The object becomes the notification of its ref, and is queued if the node is dead.
LEMMA RequestDeath ==
  ASSUME DeathInv, NEW t \in Threads, Request(t)
  PROVE  DeathInv'
<1> USE DeathAssumption DEF DeathInv, Request, FreeSlot, AlreadyDead, NoReq, refVars
<1>a. req[t].ref \in Refs /\ req[t].death \in Deaths /\ mem[req[t].death] = "held"
  BY DEF RequestsExact
<1>b. on[req[t].death] = "none" /\ \A q \in Refs : ref_death[q] # req[t].death
  BY <1>a DEF OwnedIffLive, Owned
<1>1. TypeOK'
  BY DEF TypeOK, Types, Lists, RequestsExact
<1>2. OwnedIffLive'
  BY <1>a, <1>b DEF OwnedIffLive, Owned, TypeOK
<1>3. AssertionsHold'
  BY <1>a, <1>b DEF AssertionsHold, Freeable, TypeOK, Lists
<1>4. DeathNotMissed'
  BY DEF DeathNotMissed, PlacesExact, TypeOK
<1>5. ClearNotForgotten'
  BY <1>a, <1>b DEF ClearNotForgotten, HistoryExact, Freeable, TypeOK
<1>6. PlacesExact'
  BY <1>a, <1>b DEF PlacesExact, TypeOK, Lists
<1>7. RequestsExact'
  BY DEF RequestsExact, TypeOK
<1>8. HistoryExact'
  BY <1>a, <1>b DEF HistoryExact, Freeable, TypeOK
<1>9. ReleasedEmpty'
  BY DEF ReleasedEmpty, TypeOK
<1> QED BY <1>1, <1>2, <1>3, <1>4, <1>5, <1>6, <1>7, <1>8, <1>9

\* A clear takes the notification from its ref and leaves its answer on a list.
LEMMA ClearDeath ==
  ASSUME DeathInv, NEW t \in Threads, NEW r \in Refs, NEW c \in Cookies, Clear(t, r, c)
  PROVE  DeathInv'
<1> USE DeathAssumption DEF DeathInv, Clear, ClearWork, AnswerList, Running, refVars, threadVars
<1>a. ref_death[r] \in Deaths /\ mem[ref_death[r]] = "live"
  BY DEF OwnedIffLive, Owned, TypeOK
<1>b. \A q \in Refs : q # r => ref_death[q] # ref_death[r]
  BY DEF OwnedIffLive
<1>c. \A d \in Deaths : d # ref_death[r] => on'[d] = on[d] /\ type'[d] = type[d]
  BY <1>a DEF TypeOK
<1>d. \A d \in Deaths : d = ref_death[r] => Freeable(d)'
  BY <1>a DEF Freeable, TypeOK
<1>1. TypeOK'
  BY DEF TypeOK, Types, Lists
<1>2. OwnedIffLive'
  BY <1>a, <1>b DEF OwnedIffLive, Owned, TypeOK, Lists
<1>3. AssertionsHold'
  <2>1. \A q \in Refs : ref_death'[q] # None =>
           q # r /\ ref_death'[q] = ref_death[q] /\ ref_death[q] # ref_death[r]
    BY <1>b DEF TypeOK
  <2>2. \A q \in Refs : ref_death'[q] # None =>
           /\ ~node_dead'[q] => on'[ref_death'[q]] = "none"
           /\ on'[ref_death'[q]] # "none" => type'[ref_death'[q]] = "DEAD_BINDER"
    BY <1>c, <2>1 DEF AssertionsHold, TypeOK
  <2>3. \A d \in Deaths : d # ref_death[r] =>
           /\ on'[d] \in Threads => Freeable(d)'
           /\ on'[d] # "none" => Freeable(d)' \/ \E q \in Refs : ref_death'[q] = d
    BY <1>c DEF AssertionsHold, Freeable, TypeOK
  <2> QED BY <1>d, <2>2, <2>3 DEF AssertionsHold
<1>4. DeathNotMissed'
  BY DEF DeathNotMissed, PlacesExact, TypeOK
<1>5. ClearNotForgotten'
  BY <1>a DEF ClearNotForgotten, Freeable, TypeOK, Lists
<1>6. PlacesExact'
  BY <1>a DEF PlacesExact, AssertionsHold, TypeOK, Lists
<1>7. RequestsExact'
  BY DEF RequestsExact, TypeOK
<1>8. HistoryExact'
  BY <1>a, <1>b DEF HistoryExact, Freeable, TypeOK, Lists
<1>9. ReleasedEmpty'
  BY DEF ReleasedEmpty, TypeOK
<1> QED BY <1>1, <1>2, <1>3, <1>4, <1>5, <1>6, <1>7, <1>8, <1>9

\* An acknowledgement answers the clear that waited for it.
LEMMA DoneDeath ==
  ASSUME DeathInv, NEW t \in Threads, NEW c \in Cookies, NEW d \in Deaths, DeadBinderDone(t, c, d)
  PROVE  DeathInv'
<1> USE DeathAssumption DEF DeathInv, DeadBinderDone, DoneWork, AnswerList, Running, refVars, threadVars
<1>a. mem[d] = "live" /\ type[d] # "CLEAR_DEATH_NOTIFICATION"
  BY DEF OwnedIffLive, Owned, PlacesExact
<1>1. TypeOK'
  BY DEF TypeOK, Types, Lists
<1>2. OwnedIffLive'
  BY <1>a DEF OwnedIffLive, Owned, AssertionsHold, Freeable, TypeOK, Lists
<1>3. AssertionsHold'
  BY <1>a DEF AssertionsHold, Freeable, TypeOK, Lists
<1>4. DeathNotMissed'
  BY DEF DeathNotMissed, PlacesExact, TypeOK
<1>5. ClearNotForgotten'
  BY <1>a DEF ClearNotForgotten, Freeable, TypeOK, Lists
<1>6. PlacesExact'
  BY DEF PlacesExact, TypeOK, Lists
<1>7. RequestsExact'
  BY DEF RequestsExact, TypeOK
<1>8. HistoryExact'
  BY <1>a DEF HistoryExact, AssertionsHold, Freeable, TypeOK, Lists
<1>9. ReleasedEmpty'
  BY DEF ReleasedEmpty, TypeOK
<1> QED BY <1>1, <1>2, <1>3, <1>4, <1>5, <1>6, <1>7, <1>8, <1>9

\* A death that is read waits for its acknowledgement; an answer is freed.
LEMMA ReadDeath ==
  ASSUME DeathInv, NEW t \in Threads, NEW d \in Deaths, Read(t, d)
  PROVE  DeathInv'
<1> USE DeathAssumption DEF DeathInv, Read, ReadDead, ReadClear, Running, refVars, threadVars
<1>a. mem[d] = "live" /\ on[d] \notin {"none", "delivered_death"}
  BY DEF CanRead, OwnedIffLive, Owned, Lists
<1>b. type[d] = "CLEAR_DEATH_NOTIFICATION" => \A r \in Refs : ref_death[r] # d
  BY <1>a DEF AssertionsHold, TypeOK
<1>1. TypeOK'
  BY DEF TypeOK, Lists
<1>2. OwnedIffLive'
  BY <1>a, <1>b DEF OwnedIffLive, Owned, TypeOK
<1>3. AssertionsHold'
  BY <1>a, <1>b DEF AssertionsHold, Freeable, TypeOK, Lists
<1>4. DeathNotMissed'
  BY <1>a, <1>b DEF DeathNotMissed, TypeOK
<1>5. ClearNotForgotten'
  BY <1>a DEF ClearNotForgotten, Freeable, TypeOK
<1>6. PlacesExact'
  BY <1>a DEF PlacesExact, TypeOK, Lists
<1>7. RequestsExact'
  BY <1>a DEF RequestsExact, TypeOK
<1>8. HistoryExact'
  BY <1>a, <1>b DEF HistoryExact, AssertionsHold, Freeable, TypeOK
<1>9. ReleasedEmpty'
  BY DEF ReleasedEmpty, TypeOK
<1> QED BY <1>1, <1>2, <1>3, <1>4, <1>5, <1>6, <1>7, <1>8, <1>9

\* The answers that wait for a thread go with it.
LEMMA ThreadReleaseDeath ==
  ASSUME DeathInv, NEW t \in Threads, ThreadRelease(t)
  PROVE  DeathInv'
<1> USE DeathAssumption DEF DeathInv, ThreadRelease, ReleaseWork, Freeable, refVars
<1>a. \A d \in Deaths : on[d] = t =>
        /\ type[d] = "CLEAR_DEATH_NOTIFICATION" /\ t # "none"
        /\ \A r \in Refs : ref_death[r] # d
  BY DEF PlacesExact, AssertionsHold, TypeOK, Lists
<1>1. TypeOK'
  BY DEF TypeOK, Lists
<1>2. OwnedIffLive'
  BY <1>a DEF OwnedIffLive, Owned, TypeOK, Lists
<1>3. AssertionsHold'
  BY <1>a DEF AssertionsHold, TypeOK, Lists
<1>4. DeathNotMissed'
  BY <1>a DEF DeathNotMissed, TypeOK, Lists
<1>5. ClearNotForgotten'
  BY <1>a DEF ClearNotForgotten, TypeOK
<1>6. PlacesExact'
  BY DEF PlacesExact, TypeOK, Lists
<1>7. RequestsExact'
  BY <1>a DEF RequestsExact, OwnedIffLive, Owned, TypeOK
<1>8. HistoryExact'
  BY DEF HistoryExact, Freeable, TypeOK
<1>9. ReleasedEmpty'
  BY DEF ReleasedEmpty, TypeOK
<1> QED BY <1>1, <1>2, <1>3, <1>4, <1>5, <1>6, <1>7, <1>8, <1>9

\* The last file reference goes.
LEMMA CloseDeath ==
  ASSUME DeathInv, Close
  PROVE  DeathInv'
<1> USE DeathAssumption DEF DeathInv, Close, refVars, threadVars
<1>1. TypeOK'
  BY DEF TypeOK
<1>2. OwnedIffLive'
  BY DEF OwnedIffLive, Owned, TypeOK
<1>3. AssertionsHold'
  BY DEF AssertionsHold, Freeable, PlacesExact, TypeOK, Lists
<1>4. DeathNotMissed'
  BY DEF DeathNotMissed, PlacesExact, TypeOK
<1>5. ClearNotForgotten'
  BY DEF ClearNotForgotten, Freeable, TypeOK
<1>6. PlacesExact'
  BY DEF PlacesExact, TypeOK, Lists
<1>7. RequestsExact'
  BY DEF RequestsExact, TypeOK
<1>8. HistoryExact'
  BY DEF HistoryExact, Freeable, TypeOK
<1>9. ReleasedEmpty'
  BY DEF ReleasedEmpty, TypeOK
<1> QED BY <1>1, <1>2, <1>3, <1>4, <1>5, <1>6, <1>7, <1>8, <1>9

\* The rest of the items goes with the process.
LEMMA ReleaseDeath ==
  ASSUME DeathInv, DeferredRelease
  PROVE  DeathInv'
<1> USE DeathAssumption DEF DeathInv, DeferredRelease, ReleaseWork, ReleasedLists, refVars, threadVars
<1>a. \A r \in Refs : ref_death[r] = None
  BY DEF PlacesExact, TypeOK
<1>b. \A d \in Deaths : on'[d] = "none"
  BY DEF PlacesExact, TypeOK, Lists
<1>c. \A d \in Deaths : mem'[d] = IF mem[d] = "live" THEN "freed" ELSE mem[d]
  BY <1>a DEF AssertionsHold, OwnedIffLive, Owned, PlacesExact, TypeOK, Lists
<1>1. TypeOK'
  BY DEF TypeOK, Lists
<1>2. OwnedIffLive'
  BY <1>a, <1>b, <1>c DEF OwnedIffLive, Owned, TypeOK
<1>3. AssertionsHold'
  BY <1>a, <1>b DEF AssertionsHold, Lists
<1>4. DeathNotMissed'
  BY <1>a DEF DeathNotMissed
<1>5. ClearNotForgotten'
  BY <1>b, <1>c DEF ClearNotForgotten, OwnedIffLive, Owned, HistoryExact, TypeOK
<1>6. PlacesExact'
  BY <1>a, <1>b DEF PlacesExact, Lists
<1>7. RequestsExact'
  BY DEF RequestsExact, TypeOK
<1>8. HistoryExact'
  BY <1>a, <1>b, <1>c DEF HistoryExact, TypeOK
<1>9. ReleasedEmpty'
  BY <1>b DEF ReleasedEmpty
<1> QED BY <1>1, <1>2, <1>3, <1>4, <1>5, <1>6, <1>7, <1>8, <1>9

\* A step that changes nothing.
LEMMA StutterDeath == ASSUME DeathInv, UNCHANGED vars PROVE DeathInv'
<1> USE DEF DeathInv, vars, refVars, threadVars
<1>1. TypeOK' /\ OwnedIffLive'
  BY DEF TypeOK, OwnedIffLive, Owned
<1>2. AssertionsHold' /\ DeathNotMissed' /\ ClearNotForgotten'
  BY DEF AssertionsHold, DeathNotMissed, ClearNotForgotten, Freeable
<1>3. PlacesExact' /\ RequestsExact'
  BY DEF PlacesExact, RequestsExact
<1>4. HistoryExact' /\ ReleasedEmpty'
  BY DEF HistoryExact, ReleasedEmpty, Freeable
<1> QED BY <1>1, <1>2, <1>3, <1>4

\* Every step of the specification keeps the invariant.
LEMMA NextDeath == DeathInv /\ [Next]_vars => DeathInv'
<1> SUFFICES ASSUME DeathInv, [Next]_vars PROVE DeathInv' OBVIOUS
<1>1. CASE \E r \in Refs : GetRef(r) \/ EraseRef(r) \/ CleanupRef(r) \/ NodeRelease(r)
  BY <1>1, GetRefDeath, EraseRefDeath, CleanupRefDeath, NodeReleaseDeath
<1>2. CASE \E t \in Threads, r \in Refs, c \in Cookies, d \in Deaths : RequestAlloc(t, r, c, d)
  BY <1>2, RequestAllocDeath
<1>3. CASE \E t \in Threads : RequestRefused(t) \/ Request(t)
  BY <1>3, RequestRefusedDeath, RequestDeath
<1>4. CASE \E t \in Threads, r \in Refs, c \in Cookies : Clear(t, r, c)
  BY <1>4, ClearDeath
<1>5. CASE \E t \in Threads, c \in Cookies, d \in Deaths : DeadBinderDone(t, c, d)
  BY <1>5, DoneDeath
<1>6. CASE \E t \in Threads, d \in Deaths : Read(t, d)
  BY <1>6, ReadDeath
<1>7. CASE \E t \in Threads : ThreadRelease(t)
  BY <1>7, ThreadReleaseDeath
<1>8. CASE Close \/ DeferredRelease
  BY <1>8, CloseDeath, ReleaseDeath
<1>9. CASE UNCHANGED vars
  BY <1>9, StutterDeath
<1> QED BY <1>1, <1>2, <1>3, <1>4, <1>5, <1>6, <1>7, <1>8, <1>9 DEF Next

\* DeathInv holds in every reachable state: each section of binder.c that handles
\* a binder_ref_death finds it and leaves it as the others expect.
THEOREM DeathInvariant == Spec => []DeathInv
<1> QED BY InitDeath, NextDeath, PTL DEF Spec

\* No list or ref points to a freed binder_ref_death and none is left without an
\* owner, for any number of refs, threads and notifications.
THEOREM OwnershipExact == Spec => []OwnedIffLive
<1>1. DeathInv => OwnedIffLive
  BY DEF DeathInv
<1> QED BY <1>1, DeathInvariant, PTL

\* The BUG_ON()s of binder_node_release() and of BC_CLEAR_DEATH_NOTIFICATION and
\* the "unexpected work type" of binder_release_work() cannot be reached.
THEOREM NoAssertionReached == Spec => []AssertionsHold
<1>1. DeathInv => AssertionsHold
  BY DEF DeathInv
<1> QED BY <1>1, DeathInvariant, PTL

\* A request and the death of its node never miss each other, and an accepted
\* clear keeps its place until it is answered or the process is gone.
THEOREM NothingForgotten == Spec => [](DeathNotMissed /\ ClearNotForgotten)
<1>1. DeathInv => DeathNotMissed /\ ClearNotForgotten
  BY DEF DeathInv
<1> QED BY <1>1, DeathInvariant, PTL

\* binder_deferred_release() frees every notification of the process.
THEOREM ReleaseFreesAll == Spec => []NothingLeaks
<1>1. DeathInv => NothingLeaks
  <2> SUFFICES ASSUME DeathInv, life = "released", NEW d \in Deaths
               PROVE  mem[d] \in {"unused", "freed"}
    BY DEF NothingLeaks
  <2>1. \A r \in Refs : ref_death[r] # d
    BY DeathAssumption DEF DeathInv, ReleasedEmpty, PlacesExact
  <2>2. mem[d] # "live"
    BY <2>1 DEF DeathInv, ReleasedEmpty, OwnedIffLive, Owned
  <2>3. mem[d] # "held"
    BY DEF DeathInv, ReleasedEmpty, RequestsExact
  <2> QED BY <2>2, <2>3 DEF DeathInv, TypeOK
<1> QED BY <1>1, DeathInvariant, PTL

\* User space reads BR_DEAD_BINDER at most once for a request, and
\* BR_CLEAR_DEATH_NOTIFICATION_DONE at most once, last, and only when it asked.
THEOREM AnswersOrdered == Spec => AnswersInOrder
<1> DEFINE Ordered == \A d \in Deaths :
             /\ deads'[d] # deads[d] => deads[d] = 0 /\ clears[d] = 0
             /\ clears'[d] # clears[d] => clears[d] = 0 /\ asked[d]
<1>1. ASSUME DeathInv, [Next]_vars PROVE [Ordered]_vars
  <2>1. CASE UNCHANGED <<deads, clears>>
    BY <2>1
  <2>2. ASSUME NEW t \in Threads, NEW d \in Deaths, Read(t, d) PROVE Ordered
    <3>1. mem[d] = "live" /\ on[d] \notin {"none", "delivered_death"}
      BY <1>1, <2>2, DeathAssumption DEF DeathInv, Read, CanRead, OwnedIffLive, Owned, Lists
    <3>2. type[d] = "CLEAR_DEATH_NOTIFICATION" \/ on[d] = "todo"
      BY <1>1, <3>1, DeathAssumption DEF DeathInv, PlacesExact, TypeOK, Lists
    <3> QED
      BY <1>1, <2>2, <3>1, <3>2 DEF DeathInv, Read, ReadDead, ReadClear, HistoryExact,
                                    Freeable, TypeOK
  <2> QED
    BY <1>1, <2>1, <2>2 DEF Next, GetRef, EraseRef, CleanupRef, NodeRelease, RequestAlloc,
         RequestRefused, Request, Clear, DeadBinderDone, ThreadRelease, Close, DeferredRelease, vars
<1> QED BY <1>1, DeathInvariant, PTL DEF Spec, AnswersInOrder
=============================================================================
