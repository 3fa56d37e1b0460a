----------------------------- MODULE AshmemPages ----------------------------
(***************************************************************************)
(* What ashmem promises about pages, without ranges, lists or byte          *)
(* intervals: which pages of an area are unpinned, which of those are       *)
(* marked purged, which have really lost their contents, and how clients    *)
(* and purges in flight exclude each other.  Ashmem implements it.          *)
(*                                                                         *)
(* Two things are left open on purpose: an unpin may mark more of the       *)
(* unpinned pages purged than were (the driver keeps one flag for a merged  *)
(* range), and a pin may answer WAS_PURGED when nothing was lost.           *)
(***************************************************************************)
EXTENDS Integers, FiniteSets, AshmemSystem

CONSTANT Page

ASSUME PagesAssumption ==
  /\ NoThread \notin Clients
  /\ IsFiniteSet(Shrinkers)

VARIABLES
  life,       \* per area: "none", "open", "closed"
  unpinned, purged,  \* per area, sets of pages
  holder,     \* the client that holds ashmem_mutex between steps
  cpc, told,  \* per client: place, and whether its last pin answered NOT_PURGED
  file, target  \* per shrinker: area and pages being punched

promiseVars == <<life, unpinned, purged, lost, holder, inflight, cpc, told, spc, file, target>>
pageVars == <<unpinned, purged, lost>>
purgeVars == <<inflight, spc, file, target>>

PagesInit ==
  /\ life = [a \in Areas |-> "none"]
  /\ unpinned = [a \in Areas |-> {}] /\ purged = [a \in Areas |-> {}]
  /\ lost = [a \in Areas |-> {}]
  /\ holder = NoThread /\ inflight = 0
  /\ cpc = [t \in Clients |-> "idle"] /\ told = [t \in Clients |-> "none"]
  /\ spc = [s \in Shrinkers |-> "idle"]
  /\ file = [s \in Shrinkers |-> "none"] /\ target = [s \in Shrinkers |-> {}]

-----------------------------------------------------------------------------
Open(a) ==
  /\ life[a] = "none" /\ holder = NoThread
  /\ life' = [life EXCEPT ![a] = "open"]
  /\ UNCHANGED <<pageVars, holder, cpc, told, purgeVars>>

\* The area dies with its ranges; purges of its pages may still be under way.
Close(a) ==
  /\ life[a] = "open" /\ holder = NoThread
  /\ life' = [life EXCEPT ![a] = "closed"]
  /\ unpinned' = [unpinned EXCEPT ![a] = {}] /\ purged' = [purged EXCEPT ![a] = {}]
  /\ UNCHANGED <<lost, holder, cpc, told, purgeVars>>

Call(t) ==
  /\ cpc[t] = "idle"
  /\ cpc' = [cpc EXCEPT ![t] = "lock"] /\ told' = [told EXCEPT ![t] = "none"]
  /\ UNCHANGED <<life, pageVars, holder, purgeVars>>

Lock(t) ==
  /\ cpc[t] = "lock" /\ holder = NoThread
  /\ holder' = t /\ cpc' = [cpc EXCEPT ![t] = "wait"]
  /\ UNCHANGED <<life, pageVars, told, purgeVars>>

Sleep(t) ==
  /\ cpc[t] = "wait" /\ inflight # 0
  /\ cpc' = [cpc EXCEPT ![t] = "sleep"]
  /\ UNCHANGED <<life, pageVars, holder, told, purgeVars>>

\* Mutant: the client does not wait for the purges in flight.
Return_no_wait(t, answer) ==
  /\ cpc[t] = "wait"
  /\ holder' = NoThread /\ cpc' = [cpc EXCEPT ![t] = "idle"]
  /\ told' = [told EXCEPT ![t] = answer]
  /\ UNCHANGED <<life, purgeVars>>

Return(t, answer) ==
  /\ cpc[t] = "wait" /\ inflight = 0
  /\ holder' = NoThread /\ cpc' = [cpc EXCEPT ![t] = "idle"]
  /\ told' = [told EXCEPT ![t] = answer]
  /\ UNCHANGED <<life, purgeVars>>

Pin(t, a, S) ==
  /\ life[a] = "open"
  /\ \E answer \in {"intact", "purged"} :
       /\ purged[a] \cap S # {} => answer = "purged"
       /\ Return(t, answer)
  /\ unpinned' = [unpinned EXCEPT ![a] = @ \ S]
  /\ purged' = [purged EXCEPT ![a] = @ \ S]
  /\ lost' = [lost EXCEPT ![a] = @ \ S]

Unpin(t, a, S) ==
  /\ life[a] = "open"
  /\ Return(t, "none")
  /\ unpinned' = [unpinned EXCEPT ![a] = @ \cup S]
  /\ \E more \in SUBSET (unpinned[a] \cup S) :
       purged' = [purged EXCEPT ![a] = @ \cup more]
  /\ UNCHANGED lost

\* A status call, or a request that is refused.
NoEffect(t) == Return(t, "none") /\ UNCHANGED pageVars

-----------------------------------------------------------------------------
\* Mutant: the pages are punched without being marked.
Take_unmarked(s, a, S) ==
  /\ spc[s] \in {"idle", "retry"} /\ holder = NoThread
  /\ life[a] = "open" /\ S \subseteq unpinned[a] \ purged[a]
  /\ inflight' = inflight + 1
  /\ spc' = [spc EXCEPT ![s] = "punch"] /\ file' = [file EXCEPT ![s] = a]
  /\ target' \in {[target EXCEPT ![s] = P] : P \in {S, {}}}
  /\ UNCHANGED <<life, unpinned, purged, lost, holder, cpc, told>>

\* A shrinker marks unpinned pages purged and will punch all or none of them.
Take(s, a, S) ==
  /\ spc[s] \in {"idle", "retry"} /\ holder = NoThread
  /\ life[a] = "open" /\ S \subseteq unpinned[a] \ purged[a]
  /\ purged' = [purged EXCEPT ![a] = @ \cup S]
  /\ inflight' = inflight + 1
  /\ spc' = [spc EXCEPT ![s] = "punch"] /\ file' = [file EXCEPT ![s] = a]
  /\ target' \in {[target EXCEPT ![s] = P] : P \in {S, {}}}
  /\ UNCHANGED <<life, unpinned, lost, holder, cpc, told>>

Punch(s) ==
  /\ spc[s] = "punch"
  /\ lost' = [lost EXCEPT ![file[s]] = @ \cup target[s]]
  /\ spc' = [spc EXCEPT ![s] = "dec"] /\ file' = [file EXCEPT ![s] = "none"]
  /\ target' = [target EXCEPT ![s] = {}]
  /\ UNCHANGED <<life, unpinned, purged, holder, inflight, cpc, told>>

Dec(s) ==
  /\ spc[s] = "dec" /\ inflight' = inflight - 1
  /\ spc' = [spc EXCEPT ![s] = "retry"]
  /\ cpc' = [t \in Clients |->
               IF inflight' = 0 /\ cpc[t] = "sleep" THEN "wait" ELSE cpc[t]]
  /\ UNCHANGED <<life, pageVars, holder, told, file, target>>

Stop(s) ==
  /\ spc[s] = "retry" /\ spc' = [spc EXCEPT ![s] = "idle"]
  /\ UNCHANGED <<life, pageVars, holder, inflight, cpc, told, file, target>>

-----------------------------------------------------------------------------
PagesNext ==
  \/ \E a \in Areas : Open(a) \/ Close(a)
  \/ \E t \in Clients : Call(t) \/ Lock(t) \/ Sleep(t) \/ NoEffect(t)
  \/ \E t \in Clients, a \in Areas, S \in SUBSET Page : Pin(t, a, S) \/ Unpin(t, a, S)
  \/ \E s \in Shrinkers, a \in Areas, S \in SUBSET Page : Take(s, a, S)
  \/ \E s \in Shrinkers : Punch(s) \/ Dec(s) \/ Stop(s)

Promise == PagesInit /\ [][PagesNext]_promiseVars

-----------------------------------------------------------------------------
PagesTypeOK ==
  /\ life \in [Areas -> {"none", "open", "closed"}]
  /\ unpinned \in [Areas -> SUBSET Page] /\ purged \in [Areas -> SUBSET Page]
  /\ lost \in [Areas -> SUBSET Page]
  /\ holder \in Clients \cup {NoThread} /\ inflight \in Int
  /\ cpc \in [Clients -> {"idle", "lock", "wait", "sleep"}]
  /\ told \in [Clients -> {"none", "intact", "purged"}]
  /\ spc \in [Shrinkers -> {"idle", "punch", "dec", "retry"}]
  /\ file \in [Shrinkers -> Areas \cup {"none"}] /\ target \in [Shrinkers -> SUBSET Page]

\* The shrinkers between get_file() and atomic_dec_and_test().
Purging == {s \in Shrinkers : spc[s] \in {"punch", "dec"}}

\* ashmem_shrink_inflight counts the purges that have begun and not ended, over any
\* number of reclaim contexts: it is what ashmem_pin_unpin() waits on.
InflightExact == inflight = Cardinality(Purging)

\* Pages about to be punched in an open area are marked purged, at every moment the
\* punch could happen, although the mutex is not held then.
PunchMarked ==
  \A s \in Shrinkers :
    spc[s] = "punch" /\ life[file[s]] = "open" => target[s] \subseteq purged[file[s]]

\* A page whose contents are gone, and whose owner has not been told by a pin, is
\* marked purged, so the next pin over it answers ASHMEM_WAS_PURGED.
NoSilentLoss == \A a \in Areas : life[a] # "closed" => lost[a] \subseteq purged[a]

\* The mutex is held between steps exactly by the client that waits or sleeps in
\* ashmem_pin_unpin().
HolderWaits == \A t \in Clients : cpc[t] \in {"wait", "sleep"} <=> holder = t

\* Only unpinned pages are marked purged.
PurgedUnpinned == \A a \in Areas : purged[a] \subseteq unpinned[a]

\* A punch acts on the file of an area that has been opened.
FileIsArea == \A s \in Shrinkers : spc[s] = "punch" => file[s] \in Areas /\ life[file[s]] # "none"

PagesInv ==
  PagesTypeOK /\ InflightExact /\ PunchMarked /\ NoSilentLoss /\ HolderWaits /\ PurgedUnpinned
  /\ FileIsArea

\* A pin that reports its pages intact (ASHMEM_NOT_PURGED) covers no lost page:
\* the pages it pins, those that leave "unpinned", had all kept their contents.
IntactMeansIntact ==
  [][\A t \in Clients : (told[t] # "intact" /\ told'[t] = "intact")
       => \A a \in Areas : life[a] = "open" => (unpinned[a] \ unpinned'[a]) \cap lost[a] = {}]_promiseVars
=============================================================================
