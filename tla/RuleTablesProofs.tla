-------------------------- MODULE RuleTablesProofs --------------------------
(***************************************************************************)
(* Proofs about the rule tables, for every set of rules, keys, CPUs and    *)
(* messages and every hash function.                                       *)
(***************************************************************************)
EXTENDS RuleTables, PdrListsProofs

-----------------------------------------------------------------------------
\* The inductive invariant

\* A reader on CPU c may go on using x.
Held(table, x, c) ==
  \/ table[x].st = "live"
  \/ table[x].st = "dying" /\ c \in table[x].wait

\* What a live rule carries.
LiveNamed ==
  /\ \A p \in Live(pdr) : /\ pdr[p].seid \in Seid
                          /\ pdr[p].id \in PdrId
                          /\ pdr[p].farId \in FarId
  /\ \A f \in Live(far) : far[f].seid \in Seid /\ far[f].id \in FarId

\* Whatever a packet handler holds, or may yet load, waits for it.
RxHolds ==
  \A c \in Cpu : rx[c].pdr # None =>
    /\ Held(pdr, rx[c].pdr, c)
    /\ pdr[rx[c].pdr].far # None => Held(far, pdr[rx[c].pdr].far, c)
    /\ rx[c].far # None => Held(far, rx[c].far, c)

\* The lists that a lookup walks hold live PDRs, each once.
ListsLive ==
  \A b \in Buckets :
    /\ NoRepeats(teidHash[b]) /\ ToSet(teidHash[b]) \subseteq Live(pdr)
    /\ NoRepeats(addrHash[b]) /\ ToSet(addrHash[b]) \subseteq Live(pdr)

IInv ==
  /\ TypeOK
  /\ LiveNamed
  /\ NamesUnique
  /\ NodePerPdr
  /\ FarLinkExact
  /\ ListsLive
  /\ RxHolds

-----------------------------------------------------------------------------
\* Lookup

LEMMA FindCases ==
  ASSUME NEW table, NEW s, NEW i
  PROVE  \/ Named(table, s, i) = {} /\ Find(table, s, i) = None
         \/ Find(table, s, i) \in Named(table, s, i)
<1>1. CASE Named(table, s, i) = {}
  BY <1>1 DEF Find
<1>2. CASE Named(table, s, i) # {}
  BY <1>2 DEF Find
<1>. QED
  BY <1>1, <1>2

LEMMA FindTyped ==
  ASSUME NEW D, NEW R, NEW table \in [D -> R], NEW s, NEW i, None \notin D
  PROVE  /\ Find(table, s, i) \in D \cup {None}
         /\ Find(table, s, i) # None =>
              table[Find(table, s, i)].st = "live"
         /\ Find(table, s, i) = None <=> Named(table, s, i) = {}
  BY FindCases DEF Named, Live

LEMMA FindUnique ==
  ASSUME NEW table, NEW s, NEW i, NEW x, Named(table, s, i) = {x}
  PROVE  Find(table, s, i) = x
  BY FindCases

LEMMA FindSame ==
  ASSUME NEW table, NEW other, NEW s, NEW i, Named(table, s, i) = Named(other, s, i)
  PROVE  Find(table, s, i) = Find(other, s, i)
  BY DEF Find

-----------------------------------------------------------------------------
\* The related tables

LEMMA DelRelatedIs ==
  ASSUME NEW rel \in [Buckets -> SUBSET Pdr], NEW r, NEW ids
  PROVE  /\ DelRelated(rel, r, ids) \in [Buckets -> SUBSET Pdr]
         /\ \A b \in Buckets : \A n \in rel[b] :
              ~SameRule(n, r) => n \in DelRelated(rel, r, ids)[b]
  BY DEF DelRelated

LEMMA SetPdrIs ==
  ASSUME NEW rel \in [Buckets -> SUBSET Pdr], NEW p \in Pdr, NEW r, NEW ids, NEW added
  PROVE  /\ SetPdr(rel, p, r, ids, added) \in [Buckets -> SUBSET Pdr]
         /\ \A b \in Buckets : \A n \in rel[b] :
              ~SameRule(n, r) => n \in SetPdr(rel, p, r, ids, added)[b]
         /\ \A b \in Buckets \cap BucketsOf(r, added) :
              p \in SetPdr(rel, p, r, ids, added)[b]
<1> DEFINE cleaned == DelRelated(rel, r, ids)
<1>1. /\ cleaned \in [Buckets -> SUBSET Pdr]
      /\ \A b \in Buckets : \A n \in rel[b] : ~SameRule(n, r) => n \in cleaned[b]
  BY DelRelatedIs
<1>2. SetPdr(rel, p, r, ids, added) =
        [b \in Buckets |-> IF b \in BucketsOf(r, added) THEN cleaned[b] \cup {p} ELSE cleaned[b]]
  BY DEF SetPdr
<1>. HIDE DEF cleaned
<1>. QED
  BY <1>1, <1>2

\* Linking a PDR takes no other rule's node away, whatever step fails.
LEMMA LinkUpToIs ==
  ASSUME NEW rel \in [Buckets -> SUBSET Pdr], NEW p \in Pdr, NEW r, NEW ids,
         NEW step \in Nat, NEW at \in Nat, NEW part
  PROVE  /\ LinkUpTo(rel, p, r, ids, step, at, part) \in [Buckets -> SUBSET Pdr]
         /\ \A b \in Buckets : \A n \in rel[b] :
              ~SameRule(n, r) => n \in LinkUpTo(rel, p, r, ids, step, at, part)[b]
         /\ at > step => \A b \in Buckets \cap BucketsOf(r, ids) :
              p \in LinkUpTo(rel, p, r, ids, step, at, part)[b]
<1>1. CASE at < step
  BY <1>1 DEF LinkUpTo
<1>2. CASE ~(at < step)
  <2> DEFINE added == IF at = step THEN part ELSE ids
  <2>1. LinkUpTo(rel, p, r, ids, step, at, part) = SetPdr(rel, p, r, ids, added)
    BY <1>2 DEF LinkUpTo
  <2>2. at > step => added = ids
    OBVIOUS
  <2>. HIDE DEF added
  <2>. QED
    BY <2>1, <2>2, SetPdrIs
<1>. QED
  BY <1>1, <1>2

-----------------------------------------------------------------------------
\* The detection lists

\* One table of lists: every bucket a list of PDRs without repetition.
ListTable(hash) ==
  /\ hash \in [Buckets -> Seq(Pdr)]
  /\ \A b \in Buckets : NoRepeats(hash[b])

\* PDR p is on none of its lists.
Absent(hash, p) == \A b \in Buckets : p \notin ToSet(hash[b])

LEMMA UnlistedIs ==
  ASSUME NEW hash, ListTable(hash), NEW p
  PROVE  /\ ListTable(Unlisted(hash, p))
         /\ \A b \in Buckets : ToSet(Unlisted(hash, p)[b]) = ToSet(hash[b]) \ {p}
<1>1. \A b \in Buckets :
        /\ Unlist(hash[b], p) \in Seq(Pdr)
        /\ ToSet(Unlist(hash[b], p)) = ToSet(hash[b]) \ {p}
        /\ NoRepeats(Unlist(hash[b], p))
  <2>. SUFFICES ASSUME NEW b \in Buckets
                PROVE  /\ Unlist(hash[b], p) \in Seq(Pdr)
                       /\ ToSet(Unlist(hash[b], p)) = ToSet(hash[b]) \ {p}
                       /\ NoRepeats(Unlist(hash[b], p))
    OBVIOUS
  <2>1. hash[b] \in Seq(Pdr) /\ NoRepeats(hash[b])
    BY DEF ListTable
  <2>. QED
    BY <2>1, UnlistIs
<1>. QED
  BY <1>1 DEF ListTable, Unlisted

LEMMA ListedIs ==
  ASSUME NEW hash, ListTable(hash), NEW p \in Pdr, NEW key \in Teid \cup UeAddr,
         NEW prec \in [Pdr -> Nat], Absent(hash, p)
  PROVE  /\ ListTable(Listed(hash, p, key, prec))
         /\ ToSet(Listed(hash, p, key, prec)[AddrHash[key]]) = ToSet(hash[AddrHash[key]]) \cup {p}
         /\ \A b \in Buckets \ {AddrHash[key]} : Listed(hash, p, key, prec)[b] = hash[b]
<1> DEFINE h == AddrHash[key]
           t == SortedInsert(hash[h], p, prec)
<1>1. h \in Buckets
  BY ConstantsAssumption
<1>2. hash[h] \in Seq(Pdr) /\ NoRepeats(hash[h]) /\ p \notin ToSet(hash[h])
  BY <1>1 DEF ListTable, Absent
<1>3. t \in Seq(Pdr) /\ ToSet(t) = ToSet(hash[h]) \cup {p} /\ NoRepeats(t)
  BY <1>2, SortedInsertIs
<1>4. Listed(hash, p, key, prec) = [hash EXCEPT ![h] = t]
  BY DEF Listed
<1>. HIDE DEF h, t
<1>5. ListTable([hash EXCEPT ![h] = t])
  BY <1>1, <1>3 DEF ListTable
<1>. QED
  BY <1>1, <1>3, <1>4, <1>5 DEF ListTable, h

\* The lists after a PDR has moved to the list of key.
LEMMA RelistedIs ==
  ASSUME NEW hash, ListTable(hash), NEW p \in Pdr, NEW key \in Teid \cup UeAddr,
         NEW prec \in [Pdr -> Nat]
  PROVE  LET t == Listed(Unlisted(hash, p), p, key, prec)
         IN  /\ ListTable(t)
             /\ \A b \in Buckets : ToSet(t[b]) \subseteq ToSet(hash[b]) \cup {p}
<1> DEFINE rest == Unlisted(hash, p)
           t == Listed(rest, p, key, prec)
<1>1. ListTable(rest)
  BY UnlistedIs
<1>2. \A b \in Buckets : ToSet(rest[b]) = ToSet(hash[b]) \ {p}
  BY UnlistedIs
<1>3. Absent(rest, p)
  BY <1>2 DEF Absent
<1>. HIDE DEF rest
<1>4. /\ ListTable(t)
      /\ ToSet(t[AddrHash[key]]) = ToSet(rest[AddrHash[key]]) \cup {p}
      /\ \A b \in Buckets \ {AddrHash[key]} : t[b] = rest[b]
  BY <1>1, <1>3, ListedIs
<1>. HIDE DEF t
<1>5. \A b \in Buckets : ToSet(t[b]) \subseteq ToSet(hash[b]) \cup {p}
  BY <1>2, <1>4
<1>. QED
  BY <1>4, <1>5 DEF t, rest

-----------------------------------------------------------------------------
\* What an add handler builds

\* A FAR that a lookup returns is live.
LEMMA FindFar ==
  ASSUME TypeOK, NEW s, NEW i
  PROVE  /\ Find(far, s, i) \in Far \cup {None}
         /\ Find(far, s, i) # None => far[Find(far, s, i)].st = "live"
<1>1. far \in [Far -> RuleType(FarId)] /\ None \notin Far
  BY ConstantsAssumption DEF TypeOK
<1>. QED
  BY <1>1, FindTyped

LEMMA FindQer ==
  ASSUME TypeOK, NEW s, NEW i
  PROVE  Find(qer, s, i) \in Qer \cup {None}
<1>1. qer \in [Qer -> RuleType(QerId)] /\ None \notin Qer
  BY ConstantsAssumption DEF TypeOK
<1>. QED
  BY <1>1, FindTyped

\* The PDR after the steps of pdr_fill up to step at.
LEMMA ParsedIs ==
  ASSUME TypeOK, NEW old \in PdrType, NEW s \in Seid, NEW i \in PdrId, NEW a \in PdrMsg,
         NEW last \in QerId \cup {None}, NEW at \in Nat
  PROVE  LET r == Pointers(Parsed(old, s, i, a, last), at)
         IN  /\ r \in PdrType
             /\ r.st = old.st /\ r.seid = s /\ r.id = i
             /\ r.farId = Given(a.farId, old.farId)
             /\ r.far = IF at >= 1 THEN Find(far, s, r.farId) ELSE old.far
<1> DEFINE q == Parsed(old, s, i, a, last)
<1>1. a \in PdrMsgs
  BY ConstantsAssumption
<1>2. /\ q \in PdrType /\ q.st = old.st /\ q.seid = s /\ q.id = i
      /\ q.farId = Given(a.farId, old.farId) /\ q.far = old.far
  <2>1. Given(a.farId, old.farId) \in FarId \cup {None}
    BY <1>1 DEF Given, PdrMsgs, PdrType
  <2>2. old.qers \cup a.qers \in SUBSET QerId /\ old.urrs \cup a.urrs \in SUBSET UrrId
    BY <1>1 DEF PdrMsgs, PdrType
  <2>. QED
    BY <2>1, <2>2 DEF Parsed, PdrType
<1>. HIDE DEF q
<1> DEFINE toFar == IF at >= 1 THEN Find(far, q.seid, q.farId) ELSE q.far
           toQer == IF at = 4 THEN Find(qer, q.seid, q.last) ELSE q.qer
<1>3. toFar \in Far \cup {None} /\ toQer \in Qer \cup {None}
  BY <1>2, FindFar, FindQer DEF PdrType
<1>4. Pointers(q, at) = [q EXCEPT !.far = toFar, !.qer = toQer]
  BY DEF Pointers
<1>5. toFar = IF at >= 1 THEN Find(far, s, q.farId) ELSE old.far
  BY <1>2
<1>. HIDE DEF toFar, toQer
<1>6. /\ Pointers(q, at) \in PdrType
      /\ Pointers(q, at).st = q.st /\ Pointers(q, at).seid = q.seid
      /\ Pointers(q, at).id = q.id /\ Pointers(q, at).farId = q.farId
      /\ Pointers(q, at).far = toFar
  BY <1>2, <1>3, <1>4 DEF PdrType
<1>. QED
  BY <1>2, <1>5, <1>6 DEF q

\* The last QER of a message is a QER id.
LEMMA LastQersIs ==
  ASSUME NEW old \in PdrType, NEW a \in PdrMsg, NEW last \in LastQers(old, a)
  PROVE  last \in QerId \cup {None}
<1>1. a \in PdrMsgs
  BY ConstantsAssumption
<1>. QED
  BY <1>1 DEF LastQers, PdrMsgs, PdrType

LEMMA EmptyPdr == NoPdr \in PdrType /\ NoPdr.st = "free" /\ NoPdi \in PdiType
<1>1. "free" \in Life /\ {} \in SUBSET Cpu /\ None \in Seid \cup {None}
      /\ None \in PdrId \cup {None} /\ None \in FarId \cup {None} /\ None \in Far \cup {None}
      /\ {} \in SUBSET QerId /\ None \in QerId \cup {None} /\ None \in Qer \cup {None}
      /\ {} \in SUBSET UrrId
  BY DEF Life
<1>. QED
  BY <1>1 DEF NoPdr, PdrType, NoPdi, PdiType, NodeState

LEMMA DyingIs ==
  ASSUME NEW r \in PdrType
  PROVE  /\ Dying(r) \in PdrType /\ Dying(r).st = "dying" /\ Dying(r).wait = Readers
         /\ Dying(r).far = r.far
<1>1. Readers \in SUBSET Cpu
  BY DEF Readers
<1>. QED
  BY <1>1 DEF Dying, PdrType, Life

LEMMA DyingRuleIs ==
  ASSUME NEW ids, NEW r \in RuleType(ids)
  PROVE  Dying(r) \in RuleType(ids) /\ Dying(r).st = "dying" /\ Dying(r).wait = Readers
<1>1. Readers \in SUBSET Cpu
  BY DEF Readers
<1>. QED
  BY <1>1 DEF Dying, RuleType, Life

-----------------------------------------------------------------------------
\* Detection lists after an add or a delete

LEMMA AfterDelIs == \A node \in NodeState : AfterDel(node) \in NodeState
  BY DEF AfterDel, NodeState

LEMMA ListsAreTables ==
  ASSUME TypeOK, ListsLive
  PROVE  ListTable(teidHash) /\ ListTable(addrHash)
  BY DEF TypeOK, ListsLive, ListTable

LEMMA UnhashListsIs ==
  ASSUME TypeOK, ListsLive, NEW p \in Pdr, UnhashLists(p)
  PROVE  /\ pdi' \in [Pdr -> PdiType]
         /\ ListTable(teidHash') /\ ListTable(addrHash')
         /\ \A b \in Buckets : /\ ToSet(teidHash'[b]) = ToSet(teidHash[b]) \ {p}
                               /\ ToSet(addrHash'[b]) = ToSet(addrHash[b]) \ {p}
<1>1. pdi' \in [Pdr -> PdiType]
  <2>1. pdi[p] \in PdiType /\ pdi \in [Pdr -> PdiType]
    BY DEF TypeOK
  <2>2. AfterDel(pdi[p].teidNode) \in NodeState /\ AfterDel(pdi[p].addrNode) \in NodeState
    BY <2>1, AfterDelIs DEF PdiType
  <2>. QED
    BY <2>1, <2>2 DEF UnhashLists, PdiType
<1>2. ListTable(teidHash) /\ ListTable(addrHash)
  BY ListsAreTables
<1>3. teidHash' = Unlisted(teidHash, p) /\ addrHash' = Unlisted(addrHash, p)
  BY DEF UnhashLists
<1>. QED
  BY <1>1, <1>2, <1>3, UnlistedIs

LEMMA UpdateListsIs ==
  ASSUME TypeOK, ListsLive, NEW p \in Pdr, NEW a \in PdrMsg, UpdateLists(p, a)
  PROVE  /\ pdi' \in [Pdr -> PdiType]
         /\ ListTable(teidHash') /\ ListTable(addrHash')
         /\ \A b \in Buckets : /\ ToSet(teidHash'[b]) \subseteq ToSet(teidHash[b]) \cup {p}
                               /\ ToSet(addrHash'[b]) \subseteq ToSet(addrHash[b]) \cup {p}
<1> DEFINE old == pdi[p]
           teid == Given(a.teid, old.teid)
           ue == Given(a.ue, old.ue)
           prec == Given(a.prec, old.prec)
           byTeid == teid # None
           byAddr == teid = None /\ ue # None
           precOf == [x \in Pdr |-> IF x = p THEN prec ELSE pdi[x].prec]
           teidRest == Unlisted(teidHash, p)
           addrRest == Unlisted(addrHash, p)
<1>1. a \in PdrMsgs /\ Prec \subseteq Nat
  BY ConstantsAssumption
<1>2. pdi \in [Pdr -> PdiType] /\ old \in PdiType
  BY DEF TypeOK
<1>3. /\ teid \in Teid \cup {None} /\ ue \in UeAddr \cup {None} /\ prec \in Nat
  BY <1>1, <1>2 DEF Given, PdrMsgs, PdiType
<1>4. precOf \in [Pdr -> Nat]
  BY <1>2, <1>3 DEF PdiType
<1>5. /\ ListTable(teidRest) /\ ListTable(addrRest)
      /\ \A b \in Buckets : /\ ToSet(teidRest[b]) = ToSet(teidHash[b]) \ {p}
                            /\ ToSet(addrRest[b]) = ToSet(addrHash[b]) \ {p}
  BY ListsAreTables, UnlistedIs
<1>6. /\ teidHash' = IF byTeid THEN Listed(teidRest, p, teid, precOf) ELSE teidRest
      /\ addrHash' = IF byAddr THEN Listed(addrRest, p, ue, precOf) ELSE addrRest
  BY DEF UpdateLists
<1>7. pdi' \in [Pdr -> PdiType]
  <2>1. AfterDel(old.teidNode) \in NodeState /\ AfterDel(old.addrNode) \in NodeState
    BY <1>2, AfterDelIs DEF PdiType
  <2>2. [prec |-> prec, teid |-> teid, ue |-> ue,
         teidNode |-> IF byTeid THEN "hashed" ELSE AfterDel(old.teidNode),
         addrNode |-> IF byAddr THEN "hashed" ELSE AfterDel(old.addrNode)] \in PdiType
    <3>. HIDE DEF teid, ue, prec, old
    <3>. QED
      BY <1>3, <2>1 DEF PdiType, NodeState
  <2>. QED
    BY <1>2, <2>2 DEF UpdateLists
<1>. HIDE DEF teid, ue, prec, precOf, teidRest, addrRest
<1>8. /\ ListTable(teidHash')
      /\ \A b \in Buckets : ToSet(teidHash'[b]) \subseteq ToSet(teidHash[b]) \cup {p}
  <2>1. CASE byTeid
    <3>1. teid \in Teid \cup UeAddr
      BY <1>3, <2>1
    <3>2. /\ ListTable(Listed(teidRest, p, teid, precOf))
          /\ \A b \in Buckets :
               ToSet(Listed(teidRest, p, teid, precOf)[b]) \subseteq ToSet(teidHash[b]) \cup {p}
      BY <1>4, <3>1, ListsAreTables, RelistedIs DEF teidRest
    <3>. QED
      BY <1>6, <2>1, <3>2
  <2>2. CASE ~byTeid
    BY <1>5, <1>6, <2>2
  <2>. QED
    BY <2>1, <2>2
<1>10. /\ ListTable(addrHash')
      /\ \A b \in Buckets : ToSet(addrHash'[b]) \subseteq ToSet(addrHash[b]) \cup {p}
  <2>1. CASE byAddr
    <3>1. ue \in Teid \cup UeAddr
      BY <1>3, <2>1
    <3>2. /\ ListTable(Listed(addrRest, p, ue, precOf))
          /\ \A b \in Buckets :
               ToSet(Listed(addrRest, p, ue, precOf)[b]) \subseteq ToSet(addrHash[b]) \cup {p}
      BY <1>4, <3>1, ListsAreTables, RelistedIs DEF addrRest
    <3>. QED
      BY <1>6, <2>1, <3>2
  <2>2. CASE ~byAddr
    BY <1>5, <1>6, <2>2
  <2>. QED
    BY <2>1, <2>2
<1>. QED
  BY <1>7, <1>8, <1>10

-----------------------------------------------------------------------------
\* Steps of the PDR handlers

\* A handler that writes one PDR preserves the invariant if the PDR, when it
\* is live, is named, linked and noded, and if what its readers load is held.
LEMMA OnePdrStep ==
  ASSUME IInv, NEW p \in Pdr, NEW r \in PdrType, pdr' = [pdr EXCEPT ![p] = r],
         UNCHANGED <<far, qer, rx, fault>>, leaked' \in BOOLEAN,
         pdi' \in [Pdr -> PdiType],
         relFar' \in [Buckets -> SUBSET Pdr],
         relQer' \in [Buckets -> SUBSET Pdr],
         relUrr' \in [Buckets -> SUBSET Pdr],
         ListTable(teidHash'), ListTable(addrHash'),
         \A b \in Buckets : /\ ToSet(teidHash'[b]) \subseteq Live(pdr')
                            /\ ToSet(addrHash'[b]) \subseteq Live(pdr'),
         \A n \in Live(pdr) \ {p} : n \in relFar'[Bucket(pdr[n].seid, pdr[n].farId)],
         r.st = "live" =>
           /\ r.seid \in Seid /\ r.id \in PdrId /\ r.farId \in FarId
           /\ \A n \in Live(pdr) \ {p} : ~(pdr[n].seid = r.seid /\ pdr[n].id = r.id)
           /\ p \in relFar'[Bucket(r.seid, r.farId)]
           /\ r.far = Find(far, r.seid, r.farId),
         \A c \in Cpu : rx[c].pdr = p =>
           /\ Held(pdr', p, c)
           /\ r.far # None => Held(far, r.far, c)
  PROVE  IInv'
<1>1. /\ pdr \in [Pdr -> PdrType] /\ None \notin Pdr
      /\ rx \in [Cpu -> [pdr : Pdr \cup {None}, far : Far \cup {None}]]
  BY ConstantsAssumption DEF IInv, TypeOK
<1>2. /\ pdr' \in [Pdr -> PdrType] /\ pdr'[p] = r
      /\ \A n \in Pdr \ {p} : pdr'[n] = pdr[n]
  BY <1>1
<1>3. Live(pdr') = IF r.st = "live" THEN Live(pdr) \cup {p} ELSE Live(pdr) \ {p}
  BY <1>1, <1>2 DEF Live
<1>4. TypeOK'
  BY <1>2 DEF IInv, TypeOK, ListTable
<1>5. LiveNamed'
  BY <1>2, <1>3 DEF IInv, LiveNamed
<1>6. NamesUnique'
  BY <1>1, <1>2, <1>3 DEF IInv, NamesUnique, Live
<1>7. NodePerPdr'
  <2>. SUFFICES ASSUME NEW n \in Live(pdr')
                PROVE  n \in relFar'[Bucket(pdr'[n].seid, pdr'[n].farId)]
    BY DEF NodePerPdr, Bucket
  <2>1. CASE n = p
    BY <1>2, <1>3, <2>1
  <2>2. CASE n # p
    <3>1. n \in Live(pdr) \ {p} /\ n \in Pdr
      BY <1>1, <1>3, <2>2 DEF Live
    <3>. QED
      BY <1>2, <2>2, <3>1
  <2>. QED
    BY <2>1, <2>2
<1>8. FarLinkExact'
  BY <1>1, <1>2, <1>3 DEF IInv, FarLinkExact, Live
<1>9. ListsLive'
  BY DEF ListsLive, ListTable
<1>10. RxHolds'
  <2>. SUFFICES ASSUME NEW c \in Cpu, rx[c].pdr # None
                PROVE  /\ Held(pdr', rx[c].pdr, c)
                       /\ pdr'[rx[c].pdr].far # None => Held(far, pdr'[rx[c].pdr].far, c)
                       /\ rx[c].far # None => Held(far, rx[c].far, c)
    BY DEF RxHolds, Held
  <2>1. CASE rx[c].pdr = p
    BY <1>2, <2>1 DEF IInv, RxHolds
  <2>2. CASE rx[c].pdr # p
    <3>1. pdr'[rx[c].pdr] = pdr[rx[c].pdr]
      BY <1>1, <1>2, <2>2
    <3>. QED
      BY <3>1 DEF IInv, RxHolds, Held
  <2>. QED
    BY <2>1, <2>2
<1>. QED
  BY <1>4, <1>5, <1>6, <1>7, <1>8, <1>9, <1>10 DEF IInv

\* The related tables after any of the five PDR handlers: typed, and without
\* loss of another rule's node in the FAR table.
LEMMA LinkPdrIs ==
  ASSUME IInv, NEW p \in Pdr, NEW r, NEW at \in Nat, NEW part, LinkPdr(p, r, at, part),
         \A n \in Live(pdr) \ {p} : ~SameRule(n, r)
  PROVE  /\ relFar' \in [Buckets -> SUBSET Pdr]
         /\ relQer' \in [Buckets -> SUBSET Pdr]
         /\ relUrr' \in [Buckets -> SUBSET Pdr]
         /\ \A n \in Live(pdr) \ {p} : n \in relFar'[Bucket(pdr[n].seid, pdr[n].farId)]
         /\ at > 1 /\ r.seid \in Seid /\ r.farId \in FarId =>
              p \in relFar'[Bucket(r.seid, r.farId)]
<1>1. /\ relFar \in [Buckets -> SUBSET Pdr]
      /\ relQer \in [Buckets -> SUBSET Pdr]
      /\ relUrr \in [Buckets -> SUBSET Pdr]
  BY DEF IInv, TypeOK
<1>2. /\ relQer' \in [Buckets -> SUBSET Pdr] /\ relUrr' \in [Buckets -> SUBSET Pdr]
  BY <1>1, LinkUpToIs DEF LinkPdr
<1>3. /\ relFar' \in [Buckets -> SUBSET Pdr]
      /\ \A b \in Buckets : \A n \in relFar[b] : ~SameRule(n, r) => n \in relFar'[b]
      /\ at > 1 => \A b \in Buckets \cap BucketsOf(r, {r.farId}) : p \in relFar'[b]
  <2>1. relFar' = LinkUpTo(relFar, p, r, {r.farId}, 1, at, part)
    BY DEF LinkPdr
  <2>. QED
    BY <1>1, <2>1, LinkUpToIs
<1>4. \A s \in Seid, i \in FarId : Bucket(s, i) \in Buckets
  BY ConstantsAssumption DEF Bucket, RuleIds
<1>5. ASSUME NEW n \in Live(pdr) \ {p}
      PROVE  n \in relFar'[Bucket(pdr[n].seid, pdr[n].farId)]
  <2>1. pdr[n].seid \in Seid /\ pdr[n].farId \in FarId
    BY DEF IInv, LiveNamed
  <2>2. n \in relFar[Bucket(pdr[n].seid, pdr[n].farId)]
    BY DEF IInv, NodePerPdr
  <2>. QED
    BY <1>3, <1>4, <2>1, <2>2
<1>6. ASSUME at > 1, r.seid \in Seid, r.farId \in FarId
      PROVE  p \in relFar'[Bucket(r.seid, r.farId)]
  <2>1. Bucket(r.seid, r.farId) \in Buckets \cap BucketsOf(r, {r.farId})
    BY <1>4, <1>6 DEF BucketsOf
  <2>. QED
    BY <1>3, <1>6, <2>1
<1>. QED
  BY <1>2, <1>3, <1>5, <1>6

\* A free address is on no list and no reader holds it.
LEMMA FreshIsFree ==
  ASSUME IInv, NEW p \in Pdr, FreshPdr(p)
  PROVE  /\ pdr[p].st = "free" /\ p \notin Live(pdr)
         /\ \A c \in Cpu : rx[c].pdr # p
         /\ \A b \in Buckets : p \notin ToSet(teidHash[b]) /\ p \notin ToSet(addrHash[b])
<1>1. pdr[p].st = "free" /\ p \notin Live(pdr)
  BY DEF FreshPdr, Live
<1>2. p # None
  BY ConstantsAssumption
<1>3. \A c \in Cpu : rx[c].pdr # p
  BY <1>1, <1>2 DEF IInv, RxHolds, Held
<1>4. \A b \in Buckets : p \notin ToSet(teidHash[b]) /\ p \notin ToSet(addrHash[b])
  BY <1>1 DEF IInv, ListsLive
<1>. QED
  BY <1>1, <1>3, <1>4

\* No live PDR has the name that a creating handler looked up in vain.
LEMMA NameIsNew ==
  ASSUME IInv, NEW s, NEW i, Find(pdr, s, i) = None
  PROVE  \A n \in Live(pdr) : ~(pdr[n].seid = s /\ pdr[n].id = i)
<1>1. pdr \in [Pdr -> PdrType] /\ None \notin Pdr
  BY ConstantsAssumption DEF IInv, TypeOK
<1>2. Named(pdr, s, i) = {}
  BY <1>1, FindTyped
<1>. QED
  BY <1>2 DEF Named

LEMMA CreatePdrStep ==
  ASSUME IInv, NEW p \in Pdr, NEW s \in Seid, NEW i \in PdrId, NEW a \in PdrMsg,
         NEW last \in LastQers(NoPdr, a), CreatePdr(p, s, i, a, last)
  PROVE  IInv'
<1> DEFINE base == Pointers(Parsed(NoPdr, s, i, a, last), 4)
           r == [base EXCEPT !.st = "live"]
<1>1. /\ base \in PdrType /\ base.seid = s /\ base.id = i
      /\ base.far = Find(far, s, base.farId)
  <2>1. last \in QerId \cup {None}
    BY EmptyPdr, LastQersIs
  <2>. QED
    BY <2>1, EmptyPdr, ParsedIs DEF IInv
<1>2. /\ r.farId # None /\ pdr' = [pdr EXCEPT ![p] = r] /\ LinkPdr(p, r, 4, {})
      /\ UpdateLists(p, a) /\ FreshPdr(p) /\ Find(pdr, s, i) = None
      /\ UNCHANGED <<far, qer, rx, leaked, fault>>
  BY DEF CreatePdr
<1>. HIDE DEF base
<1>3. /\ r \in PdrType /\ r.st = "live" /\ r.seid = s /\ r.id = i /\ r.farId \in FarId
      /\ r.far = Find(far, s, r.farId)
  BY <1>1, <1>2 DEF PdrType, Life
<1>. HIDE DEF r
<1>4. \A n \in Live(pdr) \ {p} : ~(pdr[n].seid = r.seid /\ pdr[n].id = r.id)
  BY <1>2, <1>3, NameIsNew
<1>5. /\ relFar' \in [Buckets -> SUBSET Pdr]
      /\ relQer' \in [Buckets -> SUBSET Pdr]
      /\ relUrr' \in [Buckets -> SUBSET Pdr]
      /\ \A n \in Live(pdr) \ {p} : n \in relFar'[Bucket(pdr[n].seid, pdr[n].farId)]
      /\ p \in relFar'[Bucket(r.seid, r.farId)]
  <2>1. \A n \in Live(pdr) \ {p} : ~SameRule(n, r)
    BY <1>4 DEF SameRule
  <2>. QED
    BY <1>2, <1>3, <2>1, LinkPdrIs
<1>6. /\ pdi' \in [Pdr -> PdiType] /\ ListTable(teidHash') /\ ListTable(addrHash')
      /\ \A b \in Buckets : /\ ToSet(teidHash'[b]) \subseteq ToSet(teidHash[b]) \cup {p}
                            /\ ToSet(addrHash'[b]) \subseteq ToSet(addrHash[b]) \cup {p}
  BY <1>2, UpdateListsIs DEF IInv
<1>7. Live(pdr') = Live(pdr) \cup {p}
  BY <1>2, <1>3 DEF Live, IInv, TypeOK
<1>8. \A b \in Buckets : /\ ToSet(teidHash'[b]) \subseteq Live(pdr')
                         /\ ToSet(addrHash'[b]) \subseteq Live(pdr')
  BY <1>6, <1>7 DEF IInv, ListsLive
<1>9. \A c \in Cpu : rx[c].pdr # p
  BY <1>2, FreshIsFree
<1>10. leaked' \in BOOLEAN
  BY <1>2 DEF IInv, TypeOK
<1>. QED
  BY <1>2, <1>3, <1>4, <1>5, <1>6, <1>8, <1>9, <1>10, OnePdrStep

LEMMA CreatePdrFailsStep ==
  ASSUME IInv, NEW p \in Pdr, NEW s \in Seid, NEW i \in PdrId, NEW a \in PdrMsg,
         NEW last \in LastQers(NoPdr, a), NEW at \in Steps,
         CreatePdrFails(p, s, i, a, last, at)
  PROVE  IInv'
<1> DEFINE r == Pointers(Parsed(NoPdr, s, i, a, last), at)
           d == Dying(r)
<1>1. r \in PdrType /\ r.seid = s /\ r.id = i
  <2>1. last \in QerId \cup {None} /\ at \in Nat
    BY EmptyPdr, LastQersIs DEF Steps
  <2>. QED
    BY <2>1, EmptyPdr, ParsedIs DEF IInv
<1>2. PICK part : LinkPdr(p, r, at, part)
  BY DEF CreatePdrFails
<1>3. /\ pdr' = [pdr EXCEPT ![p] = d] /\ FreshPdr(p) /\ Find(pdr, s, i) = None
      /\ UNCHANGED <<lists, far, qer, rx, leaked, fault>>
  BY DEF CreatePdrFails
<1>. HIDE DEF r
<1>4. d \in PdrType /\ d.st = "dying"
  BY <1>1, DyingIs
<1>. HIDE DEF d
<1>5. /\ relFar' \in [Buckets -> SUBSET Pdr]
      /\ relQer' \in [Buckets -> SUBSET Pdr]
      /\ relUrr' \in [Buckets -> SUBSET Pdr]
      /\ \A n \in Live(pdr) \ {p} : n \in relFar'[Bucket(pdr[n].seid, pdr[n].farId)]
  <2>1. \A n \in Live(pdr) \ {p} : ~SameRule(n, r)
    BY <1>1, <1>3, NameIsNew DEF SameRule
  <2>2. at \in Nat
    BY DEF Steps
  <2>. QED
    BY <1>2, <2>1, <2>2, LinkPdrIs
<1>6. pdi' \in [Pdr -> PdiType] /\ ListTable(teidHash') /\ ListTable(addrHash')
  BY <1>3, ListsAreTables DEF lists, ListTable, IInv, TypeOK
<1>7. p \notin Live(pdr) /\ \A c \in Cpu : rx[c].pdr # p
  BY <1>3, FreshIsFree
<1>8. Live(pdr') = Live(pdr)
  BY <1>3, <1>4, <1>7 DEF Live, IInv, TypeOK
<1>9. \A b \in Buckets : /\ ToSet(teidHash'[b]) \subseteq Live(pdr')
                         /\ ToSet(addrHash'[b]) \subseteq Live(pdr')
  BY <1>3, <1>8 DEF IInv, ListsLive, lists
<1>10. leaked' \in BOOLEAN
  BY <1>3 DEF IInv, TypeOK
<1>. QED
  BY <1>3, <1>4, <1>5, <1>6, <1>7, <1>9, <1>10, OnePdrStep

LEMMA ReplacePdrStep ==
  ASSUME IInv, NEW p \in Pdr, NEW a \in PdrMsg, NEW last \in LastQers(pdr[p], a),
         ReplacePdr(p, a, last)
  PROVE  IInv'
<1> DEFINE r == Pointers(Parsed(pdr[p], pdr[p].seid, pdr[p].id, a, last), 4)
<1>1. /\ pdr \in [Pdr -> PdrType] /\ pdr[p] \in PdrType /\ pdr[p].st = "live" /\ p \in Live(pdr)
      /\ pdr[p].seid \in Seid /\ pdr[p].id \in PdrId /\ pdr[p].farId \in FarId
  BY DEF ReplacePdr, IInv, TypeOK, LiveNamed, Live
<1>2. /\ r \in PdrType /\ r.st = "live" /\ r.seid = pdr[p].seid /\ r.id = pdr[p].id
      /\ r.far = Find(far, r.seid, r.farId) /\ r.farId = Given(a.farId, pdr[p].farId)
  <2>1. last \in QerId \cup {None}
    BY <1>1, LastQersIs
  <2>. QED
    BY <1>1, <2>1, ParsedIs DEF IInv
<1>3. r.farId \in FarId
  BY <1>1, <1>2 DEF Given, PdrType
<1>4. /\ pdr' = [pdr EXCEPT ![p] = r] /\ LinkPdr(p, r, 4, {}) /\ UpdateLists(p, a)
      /\ UNCHANGED <<far, qer, rx, leaked, fault>>
  BY DEF ReplacePdr
<1>. HIDE DEF r
<1>5. \A n \in Live(pdr) \ {p} : ~(pdr[n].seid = r.seid /\ pdr[n].id = r.id)
  BY <1>1, <1>2 DEF IInv, NamesUnique
<1>6. /\ relFar' \in [Buckets -> SUBSET Pdr]
      /\ relQer' \in [Buckets -> SUBSET Pdr]
      /\ relUrr' \in [Buckets -> SUBSET Pdr]
      /\ \A n \in Live(pdr) \ {p} : n \in relFar'[Bucket(pdr[n].seid, pdr[n].farId)]
      /\ p \in relFar'[Bucket(r.seid, r.farId)]
  <2>1. \A n \in Live(pdr) \ {p} : ~SameRule(n, r)
    BY <1>5 DEF SameRule
  <2>. QED
    BY <1>1, <1>2, <1>3, <1>4, <2>1, LinkPdrIs
<1>7. /\ pdi' \in [Pdr -> PdiType] /\ ListTable(teidHash') /\ ListTable(addrHash')
      /\ \A b \in Buckets : /\ ToSet(teidHash'[b]) \subseteq ToSet(teidHash[b]) \cup {p}
                            /\ ToSet(addrHash'[b]) \subseteq ToSet(addrHash[b]) \cup {p}
  BY <1>4, UpdateListsIs DEF IInv
<1>8. Live(pdr') = Live(pdr)
  BY <1>1, <1>2, <1>4 DEF Live
<1>9. \A b \in Buckets : /\ ToSet(teidHash'[b]) \subseteq Live(pdr')
                         /\ ToSet(addrHash'[b]) \subseteq Live(pdr')
  BY <1>1, <1>7, <1>8 DEF IInv, ListsLive
<1>10. ASSUME NEW c \in Cpu, rx[c].pdr = p
       PROVE  Held(pdr', p, c) /\ (r.far # None => Held(far, r.far, c))
  BY <1>1, <1>2, <1>4, FindFar DEF Held, IInv
<1>11. leaked' \in BOOLEAN
  BY <1>4 DEF IInv, TypeOK
<1>12. /\ r.seid \in Seid /\ r.id \in PdrId
  BY <1>1, <1>2
<1>. QED
  BY <1>2, <1>3, <1>4, <1>5, <1>6, <1>7, <1>9, <1>10, <1>11, <1>12, OnePdrStep

\* Taking a live PDR out leaves its readers with what they hold.
LEMMA DyingPdrHeld ==
  ASSUME IInv, NEW p \in Pdr, pdr[p].st = "live", NEW r \in PdrType,
         pdr' = [pdr EXCEPT ![p] = Dying(r)],
         r.far = pdr[p].far \/ (r.far # None => far[r.far].st = "live"),
         NEW c \in Cpu, rx[c].pdr = p
  PROVE  Held(pdr', p, c) /\ (r.far # None => Held(far, r.far, c))
<1>1. pdr'[p] = Dying(r)
  BY DEF IInv, TypeOK
<1>2. c \in Readers
  <2>1. p # None
    BY ConstantsAssumption
  <2>. QED
    BY <2>1 DEF Readers
<1>3. Held(pdr', p, c)
  BY <1>1, <1>2, DyingIs DEF Held
<1>4. ASSUME r.far # None PROVE Held(far, r.far, c)
  <2>1. p # None
    BY ConstantsAssumption
  <2>. QED
    BY <1>4, <2>1 DEF IInv, RxHolds, Held
<1>. QED
  BY <1>3, <1>4

LEMMA ReplacePdrFailsStep ==
  ASSUME IInv, NEW p \in Pdr, NEW a \in PdrMsg, NEW last \in LastQers(pdr[p], a),
         NEW at \in Steps \cup {0}, ReplacePdrFails(p, a, last, at)
  PROVE  IInv'
<1> DEFINE r == Pointers(Parsed(pdr[p], pdr[p].seid, pdr[p].id, a, last), at)
           d == Dying(r)
<1>1. /\ pdr \in [Pdr -> PdrType] /\ pdr[p] \in PdrType /\ pdr[p].st = "live" /\ p \in Live(pdr)
      /\ pdr[p].seid \in Seid /\ pdr[p].id \in PdrId
  BY DEF ReplacePdrFails, IInv, TypeOK, LiveNamed, Live
<1>2. at \in Nat
  BY DEF Steps
<1>3. /\ r \in PdrType /\ r.seid = pdr[p].seid /\ r.id = pdr[p].id
      /\ r.far = IF at >= 1 THEN Find(far, pdr[p].seid, r.farId) ELSE pdr[p].far
  <2>1. last \in QerId \cup {None}
    BY <1>1, LastQersIs
  <2>. QED
    BY <1>1, <1>2, <2>1, ParsedIs DEF IInv
<1>4. PICK part : LinkPdr(p, r, at, part)
  BY DEF ReplacePdrFails
<1>5. /\ pdr' = [pdr EXCEPT ![p] = d] /\ UnhashLists(p) /\ leaked' = TRUE
      /\ UNCHANGED <<far, qer, rx, fault>>
  BY DEF ReplacePdrFails
<1>. HIDE DEF r
<1>6. d \in PdrType /\ d.st = "dying" /\ d.far = r.far
  BY <1>3, DyingIs
<1>7. ASSUME NEW c \in Cpu, rx[c].pdr = p
      PROVE  Held(pdr', p, c) /\ (d.far # None => Held(far, d.far, c))
  <2>1. r.far = pdr[p].far \/ (r.far # None => far[r.far].st = "live")
    BY <1>3, FindFar DEF IInv
  <2>. QED
    BY <1>1, <1>3, <1>5, <1>6, <1>7, <2>1, DyingPdrHeld
<1>. HIDE DEF d
<1>8. \A n \in Live(pdr) \ {p} : ~SameRule(n, r)
  BY <1>1, <1>3 DEF IInv, NamesUnique, SameRule
<1>9. /\ relFar' \in [Buckets -> SUBSET Pdr]
      /\ relQer' \in [Buckets -> SUBSET Pdr]
      /\ relUrr' \in [Buckets -> SUBSET Pdr]
      /\ \A n \in Live(pdr) \ {p} : n \in relFar'[Bucket(pdr[n].seid, pdr[n].farId)]
  BY <1>2, <1>4, <1>8, LinkPdrIs
<1>10. /\ pdi' \in [Pdr -> PdiType] /\ ListTable(teidHash') /\ ListTable(addrHash')
       /\ \A b \in Buckets : /\ ToSet(teidHash'[b]) = ToSet(teidHash[b]) \ {p}
                             /\ ToSet(addrHash'[b]) = ToSet(addrHash[b]) \ {p}
  BY <1>5, UnhashListsIs DEF IInv
<1>11. Live(pdr') = Live(pdr) \ {p}
  BY <1>1, <1>5, <1>6 DEF Live
<1>12. \A b \in Buckets : /\ ToSet(teidHash'[b]) \subseteq Live(pdr')
                          /\ ToSet(addrHash'[b]) \subseteq Live(pdr')
  BY <1>10, <1>11 DEF IInv, ListsLive
<1>13. leaked' \in BOOLEAN
  BY <1>5
<1>. QED
  BY <1>5, <1>6, <1>7, <1>9, <1>10, <1>12, <1>13, OnePdrStep

LEMMA DelPdrStep ==
  ASSUME IInv, NEW p \in Pdr, DelPdr(p)
  PROVE  IInv'
<1> DEFINE d == Dying(pdr[p])
<1>1. /\ pdr \in [Pdr -> PdrType] /\ pdr[p] \in PdrType /\ pdr[p].st = "live" /\ p \in Live(pdr)
  BY DEF DelPdr, IInv, TypeOK, Live
<1>2. /\ pdr' = [pdr EXCEPT ![p] = d] /\ UnhashLists(p)
      /\ UNCHANGED <<far, qer, rx, leaked, fault>>
      /\ relUrr' = DelRelated(relUrr, pdr[p], pdr[p].urrs)
      /\ relQer' = DelRelated(relQer, pdr[p], pdr[p].qers)
      /\ relFar' = DelRelated(relFar, pdr[p], {pdr[p].farId})
  BY DEF DelPdr
<1>3. d \in PdrType /\ d.st = "dying" /\ d.far = pdr[p].far
  BY <1>1, DyingIs
<1>4. ASSUME NEW c \in Cpu, rx[c].pdr = p
      PROVE  Held(pdr', p, c) /\ (d.far # None => Held(far, d.far, c))
  BY <1>1, <1>2, <1>3, <1>4, DyingPdrHeld
<1>. HIDE DEF d
<1>5. \A n \in Live(pdr) \ {p} : ~SameRule(n, pdr[p])
  BY <1>1 DEF IInv, NamesUnique, SameRule
<1>6. /\ relFar \in [Buckets -> SUBSET Pdr]
      /\ relQer \in [Buckets -> SUBSET Pdr]
      /\ relUrr \in [Buckets -> SUBSET Pdr]
  BY DEF IInv, TypeOK
<1>7. /\ relFar' \in [Buckets -> SUBSET Pdr]
      /\ relQer' \in [Buckets -> SUBSET Pdr]
      /\ relUrr' \in [Buckets -> SUBSET Pdr]
      /\ \A b \in Buckets : \A n \in relFar[b] : ~SameRule(n, pdr[p]) => n \in relFar'[b]
  BY <1>2, <1>6, DelRelatedIs
<1>8. \A n \in Live(pdr) \ {p} : n \in relFar'[Bucket(pdr[n].seid, pdr[n].farId)]
  <2>1. \A s \in Seid, i \in FarId : Bucket(s, i) \in Buckets
    BY ConstantsAssumption DEF Bucket, RuleIds
  <2>. QED
    BY <1>5, <1>7, <2>1 DEF IInv, LiveNamed, NodePerPdr
<1>9. /\ pdi' \in [Pdr -> PdiType] /\ ListTable(teidHash') /\ ListTable(addrHash')
      /\ \A b \in Buckets : /\ ToSet(teidHash'[b]) = ToSet(teidHash[b]) \ {p}
                            /\ ToSet(addrHash'[b]) = ToSet(addrHash[b]) \ {p}
  BY <1>2, UnhashListsIs DEF IInv
<1>10. Live(pdr') = Live(pdr) \ {p}
  BY <1>1, <1>2, <1>3 DEF Live
<1>11. \A b \in Buckets : /\ ToSet(teidHash'[b]) \subseteq Live(pdr')
                          /\ ToSet(addrHash'[b]) \subseteq Live(pdr')
  BY <1>9, <1>10 DEF IInv, ListsLive
<1>12. leaked' \in BOOLEAN
  BY <1>2 DEF IInv, TypeOK
<1>. QED
  BY <1>2, <1>3, <1>4, <1>7, <1>8, <1>9, <1>11, <1>12, OnePdrStep

-----------------------------------------------------------------------------
\* Steps of the FAR handlers

\* After the step, g is the FAR of name (s, i) and every other name has the
\* FAR that the live PDRs already point to.
Renamed(s, i, g) ==
  \A p \in Live(pdr) :
    Find(far', pdr[p].seid, pdr[p].farId) =
      IF pdr[p].seid = s /\ pdr[p].farId = i THEN g ELSE pdr[p].far

\* A reader that may use f before the step may use it after.
KeepsHeld(f) == \A c \in Cpu : rx[c].pdr # None /\ Held(far, f, c) => Held(far', f, c)

\* What every action on FARs has in common: a walk that sets the far pointer
\* of the waiting PDRs to g, and a new record for one FAR.
LEMMA PointStep ==
  ASSUME IInv, NEW f \in Far, NEW g \in Far \cup {None}, NEW s, NEW i, PointPdrs(s, i, g),
         NEW rec \in RuleType(FarId), far' = [far EXCEPT ![f] = rec],
         UNCHANGED <<qer, tables, lists, rx, leaked, fault>>,
         NamesUnique', LiveNamed',
         Renamed(s, i, g), KeepsHeld(f), g # None => far'[g].st = "live"
  PROVE  IInv'
<1>1. /\ pdr \in [Pdr -> PdrType] /\ far \in [Far -> RuleType(FarId)] /\ None \notin Pdr
      /\ rx \in [Cpu -> [pdr : Pdr \cup {None}, far : Far \cup {None}]]
  BY ConstantsAssumption DEF IInv, TypeOK
<1>2. /\ pdr' \in [Pdr -> PdrType]
      /\ \A n \in Pdr : /\ pdr'[n].st = pdr[n].st /\ pdr'[n].wait = pdr[n].wait
                        /\ pdr'[n].seid = pdr[n].seid /\ pdr'[n].id = pdr[n].id
                        /\ pdr'[n].farId = pdr[n].farId
                        /\ pdr'[n].far = IF n \in Waiting(s, i) THEN g ELSE pdr[n].far
  <2>1. pdr' = [n \in Pdr |->
                  IF n \in Waiting(s, i) THEN [pdr[n] EXCEPT !.far = g] ELSE pdr[n]]
    BY DEF PointPdrs
  <2>. SUFFICES ASSUME NEW n \in Pdr
                PROVE  /\ pdr'[n] \in PdrType
                       /\ pdr'[n].st = pdr[n].st /\ pdr'[n].wait = pdr[n].wait
                       /\ pdr'[n].seid = pdr[n].seid /\ pdr'[n].id = pdr[n].id
                       /\ pdr'[n].farId = pdr[n].farId
                       /\ pdr'[n].far = IF n \in Waiting(s, i) THEN g ELSE pdr[n].far
    BY <2>1
  <2>2. CASE n \in Waiting(s, i)
    <3>1. pdr'[n] = [pdr[n] EXCEPT !.far = g] /\ pdr[n] \in PdrType
      BY <1>1, <2>1, <2>2
    <3>. QED
      BY <2>2, <3>1 DEF PdrType
  <2>3. CASE n \notin Waiting(s, i)
    BY <1>1, <2>1, <2>3
  <2>. QED
    BY <2>2, <2>3
<1>3. Live(pdr') = Live(pdr)
  BY <1>1, <1>2 DEF Live
<1>4. far' \in [Far -> RuleType(FarId)] /\ \A h \in Far \ {f} : far'[h] = far[h]
  BY <1>1
<1>5. TypeOK'
  BY <1>2, <1>4 DEF IInv, TypeOK, tables, lists
<1>6. NodePerPdr'
  BY <1>1, <1>2, <1>3 DEF IInv, NodePerPdr, Bucket, tables, Live
<1>7. FarLinkExact'
  <2>. SUFFICES ASSUME NEW p \in Live(pdr)
                PROVE  pdr'[p].far = Find(far', pdr'[p].seid, pdr'[p].farId)
    BY <1>3 DEF FarLinkExact
  <2>1. p \in Pdr /\ p \in relFar[Bucket(pdr[p].seid, pdr[p].farId)]
    BY <1>1 DEF IInv, NodePerPdr, Live
  <2>2. p \in Waiting(s, i) <=> pdr[p].seid = s /\ pdr[p].farId = i
    BY <2>1 DEF Waiting
  <2>. QED
    BY <1>2, <2>1, <2>2 DEF Renamed
<1>8. ListsLive'
  BY <1>3 DEF IInv, ListsLive, lists
<1>9. RxHolds'
  <2>. SUFFICES ASSUME NEW c \in Cpu, rx[c].pdr # None
                PROVE  /\ Held(pdr', rx[c].pdr, c)
                       /\ pdr'[rx[c].pdr].far # None => Held(far', pdr'[rx[c].pdr].far, c)
                       /\ rx[c].far # None => Held(far', rx[c].far, c)
    BY DEF RxHolds, Held
  <2>1. rx[c].pdr \in Pdr /\ rx[c].far \in Far \cup {None}
    BY <1>1
  <2>2. \A h \in Far : Held(far, h, c) => Held(far', h, c)
    BY <1>4 DEF Held, KeepsHeld
  <2>3. Held(pdr', rx[c].pdr, c)
    BY <1>2, <2>1 DEF IInv, RxHolds, Held
  <2>4. rx[c].far # None => Held(far', rx[c].far, c)
    BY <2>1, <2>2 DEF IInv, RxHolds
  <2>5. ASSUME pdr'[rx[c].pdr].far # None PROVE Held(far', pdr'[rx[c].pdr].far, c)
    <3>1. CASE pdr'[rx[c].pdr].far = g
      BY <2>5, <3>1 DEF Held
    <3>2. CASE pdr'[rx[c].pdr].far = pdr[rx[c].pdr].far
      <4>1. pdr[rx[c].pdr].far \in Far
        BY <1>1, <2>1, <2>5, <3>2 DEF PdrType
      <4>. QED
        BY <2>2, <2>5, <3>2, <4>1 DEF IInv, RxHolds
    <3>. QED
      BY <1>2, <2>1, <3>1, <3>2
  <2>. QED
    BY <2>3, <2>4, <2>5
<1>. QED
  BY <1>5, <1>6, <1>7, <1>8, <1>9 DEF IInv

\* The walk changes no PDR's life or name.
LEMMA PointPdrsKeeps ==
  ASSUME IInv, NEW g, NEW s, NEW i, PointPdrs(s, i, g)
  PROVE  /\ Live(pdr') = Live(pdr)
         /\ \A n \in Live(pdr) : /\ pdr'[n].seid = pdr[n].seid /\ pdr'[n].id = pdr[n].id
                                 /\ pdr'[n].farId = pdr[n].farId
<1>1. pdr \in [Pdr -> PdrType]
  BY DEF IInv, TypeOK
<1>2. DOMAIN pdr = Pdr /\ DOMAIN pdr' = Pdr
  BY <1>1 DEF PointPdrs
<1>3. \A n \in Pdr : /\ pdr'[n].seid = pdr[n].seid /\ pdr'[n].id = pdr[n].id
                     /\ pdr'[n].farId = pdr[n].farId /\ pdr'[n].st = pdr[n].st
  BY <1>1 DEF PointPdrs, PdrType
<1>. QED
  BY <1>2, <1>3 DEF Live

LEMMA CreateFarStep ==
  ASSUME IInv, NEW f \in Far, NEW s \in Seid, NEW i \in FarId, CreateFar(f, s, i)
  PROVE  IInv'
<1> DEFINE rec == [st |-> "live", wait |-> {}, seid |-> s, id |-> i]
<1>1. /\ far \in [Far -> RuleType(FarId)] /\ None \notin Far
  BY ConstantsAssumption DEF IInv, TypeOK
<1>2. /\ far[f].st = "free" /\ Find(far, s, i) = None /\ PointPdrs(s, i, f)
      /\ far' = [far EXCEPT ![f] = rec]
      /\ UNCHANGED <<qer, tables, lists, rx, leaked, fault>>
  BY DEF CreateFar, FreshFar
<1>3. rec \in RuleType(FarId)
  BY DEF RuleType, Life
<1>4. /\ far'[f] = rec /\ DOMAIN far' = Far
      /\ \A h \in Far \ {f} : far'[h] = far[h]
  BY <1>1, <1>2
<1>5. Named(far, s, i) = {}
  BY <1>1, <1>2, FindTyped
<1>6. Live(far') = Live(far) \cup {f} /\ f \notin Live(far)
  BY <1>1, <1>2, <1>4 DEF Live
<1>7. Named(far', s, i) = {f}
  BY <1>4, <1>5, <1>6 DEF Named, Live
<1>8. \A t, j : ~(t = s /\ j = i) => Named(far', t, j) = Named(far, t, j)
  BY <1>1, <1>4, <1>6 DEF Named, Live
<1>. HIDE DEF rec
<1>9. Renamed(s, i, f)
  <2>. SUFFICES ASSUME NEW p \in Live(pdr)
                PROVE  Find(far', pdr[p].seid, pdr[p].farId) =
                         IF pdr[p].seid = s /\ pdr[p].farId = i THEN f ELSE pdr[p].far
    BY DEF Renamed
  <2>1. CASE pdr[p].seid = s /\ pdr[p].farId = i
    BY <1>7, <2>1, FindUnique
  <2>2. CASE ~(pdr[p].seid = s /\ pdr[p].farId = i)
    <3>1. Find(far', pdr[p].seid, pdr[p].farId) = Find(far, pdr[p].seid, pdr[p].farId)
      BY <1>8, <2>2, FindSame
    <3>. QED
      BY <2>2, <3>1 DEF IInv, FarLinkExact
  <2>. QED
    BY <2>1, <2>2
<1>10. /\ Live(pdr') = Live(pdr)
       /\ \A n \in Live(pdr) : /\ pdr'[n].seid = pdr[n].seid /\ pdr'[n].id = pdr[n].id
                               /\ pdr'[n].farId = pdr[n].farId
  BY <1>2, PointPdrsKeeps
<1>11. far'[f].seid = s /\ far'[f].id = i /\ far'[f].st = "live"
  BY <1>4 DEF rec
<1>12. NamesUnique'
  BY <1>1, <1>4, <1>5, <1>6, <1>10, <1>11 DEF IInv, NamesUnique, Named, Live
<1>13. LiveNamed'
  BY <1>1, <1>4, <1>6, <1>10, <1>11 DEF IInv, LiveNamed, Live
<1>14. KeepsHeld(f)
  BY <1>11 DEF KeepsHeld, Held
<1>. QED
  BY <1>2, <1>3, <1>9, <1>11, <1>12, <1>13, <1>14, PointStep

LEMMA FarContextDeleteStep ==
  ASSUME IInv, NEW f \in Far, FarContextDelete(f)
  PROVE  IInv'
<1> DEFINE s == far[f].seid
           i == far[f].id
           rec == Dying(far[f])
<1>1. /\ far \in [Far -> RuleType(FarId)] /\ far[f] \in RuleType(FarId)
  BY DEF IInv, TypeOK
<1>2. /\ far[f].st = "live" /\ PointPdrs(s, i, None) /\ far' = [far EXCEPT ![f] = rec]
      /\ UNCHANGED <<qer, tables, lists, rx, leaked, fault>>
  BY DEF FarContextDelete
<1>3. rec \in RuleType(FarId) /\ rec.st = "dying" /\ rec.wait = Readers
  BY <1>1, DyingRuleIs
<1>4. /\ far'[f] = rec /\ DOMAIN far' = Far
      /\ \A h \in Far \ {f} : far'[h] = far[h]
  BY <1>1, <1>2
<1>. HIDE DEF rec
<1>5. Live(far') = Live(far) \ {f} /\ f \in Live(far)
  BY <1>1, <1>2, <1>3, <1>4 DEF Live
<1>6. Named(far', s, i) = {}
  BY <1>1, <1>4, <1>5 DEF Named, Live, IInv, NamesUnique
<1>7. \A t, j : ~(t = s /\ j = i) => Named(far', t, j) = Named(far, t, j)
  BY <1>1, <1>4, <1>5 DEF Named, Live
<1>8. Renamed(s, i, None)
  <2>. SUFFICES ASSUME NEW p \in Live(pdr)
                PROVE  Find(far', pdr[p].seid, pdr[p].farId) =
                         IF pdr[p].seid = s /\ pdr[p].farId = i THEN None ELSE pdr[p].far
    BY DEF Renamed
  <2>1. CASE pdr[p].seid = s /\ pdr[p].farId = i
    BY <1>6, <2>1 DEF Find
  <2>2. CASE ~(pdr[p].seid = s /\ pdr[p].farId = i)
    <3>1. Find(far', pdr[p].seid, pdr[p].farId) = Find(far, pdr[p].seid, pdr[p].farId)
      BY <1>7, <2>2, FindSame
    <3>. QED
      BY <2>2, <3>1 DEF IInv, FarLinkExact
  <2>. QED
    BY <2>1, <2>2
<1>. HIDE DEF s, i
<1>9. /\ Live(pdr') = Live(pdr)
      /\ \A n \in Live(pdr) : /\ pdr'[n].seid = pdr[n].seid /\ pdr'[n].id = pdr[n].id
                              /\ pdr'[n].farId = pdr[n].farId
  BY <1>2, PointPdrsKeeps
<1>10. NamesUnique'
  BY <1>1, <1>4, <1>5, <1>9 DEF IInv, NamesUnique, Live
<1>11. LiveNamed'
  BY <1>1, <1>4, <1>5, <1>9 DEF IInv, LiveNamed, Live
<1>12. KeepsHeld(f)
  BY <1>3, <1>4 DEF KeepsHeld, Held, Readers
<1>13. None \in Far \cup {None}
  OBVIOUS
<1>. QED
  BY <1>2, <1>3, <1>8, <1>10, <1>11, <1>12, <1>13, PointStep

LEMMA ReplaceFarStep ==
  ASSUME IInv, NEW f \in Far, ReplaceFar(f)
  PROVE  IInv'
<1> DEFINE s == far[f].seid
           i == far[f].id
           rec == far[f]
<1>1. /\ far \in [Far -> RuleType(FarId)] /\ rec \in RuleType(FarId)
  BY DEF IInv, TypeOK
<1>2. /\ far[f].st = "live" /\ PointPdrs(s, i, f) /\ far' = far
      /\ UNCHANGED <<qer, tables, lists, rx, leaked, fault>>
  BY DEF ReplaceFar
<1>3. far' = [far EXCEPT ![f] = rec] /\ far'[f].st = "live"
  BY <1>1, <1>2
<1>4. Named(far, s, i) = {f}
  BY <1>1, <1>2 DEF Named, Live, IInv, NamesUnique
<1>5. Renamed(s, i, f)
  <2>. SUFFICES ASSUME NEW p \in Live(pdr)
                PROVE  Find(far', pdr[p].seid, pdr[p].farId) =
                         IF pdr[p].seid = s /\ pdr[p].farId = i THEN f ELSE pdr[p].far
    BY DEF Renamed
  <2>1. CASE pdr[p].seid = s /\ pdr[p].farId = i
    <3>1. Find(far, s, i) = f
      BY <1>4, FindUnique
    <3>. QED
      BY <1>2, <2>1, <3>1
  <2>2. CASE ~(pdr[p].seid = s /\ pdr[p].farId = i)
    BY <1>2, <2>2 DEF IInv, FarLinkExact
  <2>. QED
    BY <2>1, <2>2
<1>. HIDE DEF s, i, rec
<1>6. /\ Live(pdr') = Live(pdr)
      /\ \A n \in Live(pdr) : /\ pdr'[n].seid = pdr[n].seid /\ pdr'[n].id = pdr[n].id
                              /\ pdr'[n].farId = pdr[n].farId
  BY <1>2, PointPdrsKeeps
<1>7. NamesUnique'
  BY <1>2, <1>6 DEF IInv, NamesUnique
<1>8. LiveNamed'
  BY <1>2, <1>6 DEF IInv, LiveNamed
<1>9. KeepsHeld(f)
  BY <1>2 DEF KeepsHeld, Held
<1>. QED
  BY <1>1, <1>2, <1>3, <1>5, <1>7, <1>8, <1>9, PointStep

-----------------------------------------------------------------------------
\* Steps of the QER handlers, the packet handlers and the RCU callbacks

\* A step that leaves everything but the QERs and the lock alone.
LEMMA QerStep ==
  ASSUME IInv, qer' \in [Qer -> RuleType(QerId)], leaked' \in BOOLEAN,
         fault' \in {"none", "use-after-free", "null", "poison"},
         UNCHANGED <<pdr, far, tables, lists, rx>>
  PROVE  IInv'
<1>1. TypeOK'
  BY DEF IInv, TypeOK, tables, lists
<1>2. LiveNamed' /\ NamesUnique' /\ NodePerPdr' /\ FarLinkExact' /\ ListsLive' /\ RxHolds'
  BY DEF IInv, LiveNamed, NamesUnique, NodePerPdr, FarLinkExact, ListsLive, RxHolds,
         Held, Bucket, tables, lists
<1>. QED
  BY <1>1, <1>2 DEF IInv

LEMMA QerHandlerStep ==
  ASSUME IInv, NEW q \in Qer,
         \/ \E s \in Seid, i \in QerId : CreateQer(q, s, i)
         \/ ReplaceQer(q)
         \/ DelQer(q)
         \/ FreeQer(q)
  PROVE  IInv'
<1>1. qer \in [Qer -> RuleType(QerId)] /\ leaked \in BOOLEAN
      /\ fault \in {"none", "use-after-free", "null", "poison"}
  BY DEF IInv, TypeOK
<1>2. CASE \E s \in Seid, i \in QerId : CreateQer(q, s, i)
  <2>1. PICK s \in Seid, i \in QerId : CreateQer(q, s, i)
    BY <1>2
  <2>2. [st |-> "live", wait |-> {}, seid |-> s, id |-> i] \in RuleType(QerId)
    BY DEF RuleType, Life
  <2>. QED
    BY <1>1, <2>1, <2>2, QerStep DEF CreateQer
<1>3. CASE ReplaceQer(q)
  BY <1>1, <1>3, QerStep DEF ReplaceQer
<1>4. CASE DelQer(q)
  <2>1. Dying(qer[q]) \in RuleType(QerId)
    BY <1>1, DyingRuleIs
  <2>. QED
    BY <1>1, <1>4, <2>1, QerStep DEF DelQer
<1>5. CASE FreeQer(q)
  <2>1. NoRule \in RuleType(QerId)
    BY DEF NoRule, RuleType, Life
  <2>. QED
    BY <1>1, <1>5, <2>1, QerStep DEF FreeQer
<1>. QED
  BY <1>2, <1>3, <1>4, <1>5

LEMMA OopsStep ==
  ASSUME IInv, NEW kind \in {"use-after-free", "null", "poison"}, Oops(kind)
  PROVE  IInv'
<1>1. qer' \in [Qer -> RuleType(QerId)] /\ leaked' \in BOOLEAN
      /\ fault' \in {"none", "use-after-free", "null", "poison"}
  BY DEF Oops, IInv, TypeOK
<1>2. UNCHANGED <<pdr, far, tables, lists, rx>>
  BY DEF Oops, tables, lists
<1>. QED
  BY <1>1, <1>2, QerStep

LEMMA FaultStep ==
  ASSUME IInv, Fault
  PROVE  IInv'
<1>1. \E kind \in {"use-after-free", "null", "poison"} : Oops(kind)
  BY DEF Fault, CreatePdrOops, ReplacePdrOops, DelPdrOops, WalkOops, RxOops, FillOops
<1>. QED
  BY <1>1, OopsStep

LEMMA RxLookupStep ==
  ASSUME IInv, NEW c \in Cpu, NEW p \in Pdr, RxLookup(c, p)
  PROVE  IInv'
<1>1. /\ rx \in [Cpu -> [pdr : Pdr \cup {None}, far : Far \cup {None}]]
      /\ rx[c].far = None /\ rx' = [rx EXCEPT ![c].pdr = p]
      /\ UNCHANGED <<pdr, far, qer, tables, lists, leaked, fault>>
  BY DEF RxLookup, IInv, TypeOK, Idle
<1>2. p \in Live(pdr)
  BY DEF RxLookup, IInv, ListsLive
<1>3. /\ rx' \in [Cpu -> [pdr : Pdr \cup {None}, far : Far \cup {None}]]
      /\ rx'[c].pdr = p /\ rx'[c].far = None
      /\ \A d \in Cpu \ {c} : rx'[d] = rx[d]
  BY <1>1
<1>4. TypeOK'
  BY <1>1, <1>3 DEF IInv, TypeOK, tables, lists
<1>5. LiveNamed' /\ NamesUnique' /\ NodePerPdr' /\ FarLinkExact' /\ ListsLive'
  BY <1>1 DEF IInv, LiveNamed, NamesUnique, NodePerPdr, FarLinkExact, ListsLive,
              Bucket, tables, lists
<1>6. pdr[p].far # None => far[pdr[p].far].st = "live"
  BY <1>2, FindFar DEF IInv, FarLinkExact
<1>7. Held(pdr, p, c) /\ (pdr[p].far # None => Held(far, pdr[p].far, c))
  BY <1>2, <1>6 DEF Held, Live
<1>8. RxHolds'
  BY <1>1, <1>3, <1>7 DEF IInv, RxHolds, Held
<1>. QED
  BY <1>4, <1>5, <1>8 DEF IInv

LEMMA RxLoadFarStep ==
  ASSUME IInv, NEW c \in Cpu, RxLoadFar(c)
  PROVE  IInv'
<1> DEFINE g == pdr[rx[c].pdr].far
<1>1. /\ rx \in [Cpu -> [pdr : Pdr \cup {None}, far : Far \cup {None}]]
      /\ pdr \in [Pdr -> PdrType]
      /\ rx[c].pdr # None /\ g # None /\ rx' = [rx EXCEPT ![c].far = g]
      /\ UNCHANGED <<pdr, far, qer, tables, lists, leaked, fault>>
  BY DEF RxLoadFar, IInv, TypeOK
<1>2. g \in Far \cup {None}
  BY <1>1 DEF PdrType
<1>3. /\ rx' \in [Cpu -> [pdr : Pdr \cup {None}, far : Far \cup {None}]]
      /\ rx'[c].pdr = rx[c].pdr /\ rx'[c].far = g
      /\ \A d \in Cpu \ {c} : rx'[d] = rx[d]
  BY <1>1, <1>2
<1>4. TypeOK'
  BY <1>1, <1>3 DEF IInv, TypeOK, tables, lists
<1>5. LiveNamed' /\ NamesUnique' /\ NodePerPdr' /\ FarLinkExact' /\ ListsLive'
  <2>1. LiveNamed' /\ NamesUnique'
    BY <1>1 DEF IInv, LiveNamed, NamesUnique
  <2>2. NodePerPdr'
    BY <1>1 DEF IInv, NodePerPdr, Bucket, tables
  <2>3. FarLinkExact'
    <3>1. pdr' = pdr /\ far' = far
      BY <1>1
    <3>. QED
      BY <3>1 DEF IInv, FarLinkExact
  <2>4. ListsLive'
    BY <1>1 DEF IInv, ListsLive, lists
  <2>. QED
    BY <2>1, <2>2, <2>3, <2>4
<1>6. RxHolds'
  <2>1. ASSUME NEW d \in Cpu, rx[d].pdr # None
        PROVE  /\ Held(pdr, rx[d].pdr, d)
               /\ pdr[rx[d].pdr].far # None => Held(far, pdr[rx[d].pdr].far, d)
               /\ rx[d].far # None => Held(far, rx[d].far, d)
    BY <2>1 DEF IInv, RxHolds
  <2>. SUFFICES ASSUME NEW d \in Cpu, rx'[d].pdr # None
                PROVE  /\ Held(pdr, rx'[d].pdr, d)
                       /\ pdr[rx'[d].pdr].far # None => Held(far, pdr[rx'[d].pdr].far, d)
                       /\ rx'[d].far # None => Held(far, rx'[d].far, d)
    BY <1>1 DEF RxHolds, Held
  <2>2. CASE d = c
    BY <1>1, <1>3, <2>1, <2>2
  <2>3. CASE d # c
    BY <1>3, <2>1, <2>3
  <2>. QED
    BY <2>2, <2>3
<1>. QED
  BY <1>4, <1>5, <1>6 DEF IInv

\* Closing a section on c takes c, and no other CPU, off the wait sets.
LEMMA RxDoneStep ==
  ASSUME IInv, NEW c \in Cpu, RxDone(c)
  PROVE  IInv'
<1>1. /\ rx \in [Cpu -> [pdr : Pdr \cup {None}, far : Far \cup {None}]]
      /\ pdr \in [Pdr -> PdrType] /\ None \notin Pdr
      /\ far \in [Far -> RuleType(FarId)] /\ qer \in [Qer -> RuleType(QerId)]
  BY ConstantsAssumption DEF IInv, TypeOK
<1>2. /\ rx' = [rx EXCEPT ![c] = Idle]
      /\ pdr' = [p \in Pdr |-> [pdr[p] EXCEPT !.wait = @ \ {c}]]
      /\ far' = [f \in Far |-> [far[f] EXCEPT !.wait = @ \ {c}]]
      /\ qer' = [q \in Qer |-> [qer[q] EXCEPT !.wait = @ \ {c}]]
      /\ UNCHANGED <<tables, lists, leaked, fault>>
  BY <1>1 DEF RxDone
<1>3. /\ pdr' \in [Pdr -> PdrType]
      /\ \A p \in Pdr : /\ pdr'[p].st = pdr[p].st /\ pdr'[p].wait = pdr[p].wait \ {c}
                        /\ pdr'[p].seid = pdr[p].seid /\ pdr'[p].id = pdr[p].id
                        /\ pdr'[p].farId = pdr[p].farId /\ pdr'[p].far = pdr[p].far
  <2>. SUFFICES ASSUME NEW p \in Pdr
                PROVE  /\ pdr'[p] \in PdrType
                       /\ pdr'[p].st = pdr[p].st /\ pdr'[p].wait = pdr[p].wait \ {c}
                       /\ pdr'[p].seid = pdr[p].seid /\ pdr'[p].id = pdr[p].id
                       /\ pdr'[p].farId = pdr[p].farId /\ pdr'[p].far = pdr[p].far
    BY <1>2
  <2>1. pdr'[p] = [pdr[p] EXCEPT !.wait = pdr[p].wait \ {c}] /\ pdr[p] \in PdrType
    BY <1>1, <1>2
  <2>. QED
    BY <2>1 DEF PdrType
<1>4. /\ far' \in [Far -> RuleType(FarId)]
      /\ \A f \in Far : /\ far'[f].st = far[f].st /\ far'[f].wait = far[f].wait \ {c}
                        /\ far'[f].seid = far[f].seid /\ far'[f].id = far[f].id
  <2>. SUFFICES ASSUME NEW f \in Far
                PROVE  /\ far'[f] \in RuleType(FarId)
                       /\ far'[f].st = far[f].st /\ far'[f].wait = far[f].wait \ {c}
                       /\ far'[f].seid = far[f].seid /\ far'[f].id = far[f].id
    BY <1>2
  <2>1. far'[f] = [far[f] EXCEPT !.wait = far[f].wait \ {c}] /\ far[f] \in RuleType(FarId)
    BY <1>1, <1>2
  <2>. QED
    BY <2>1 DEF RuleType
<1>5. qer' \in [Qer -> RuleType(QerId)]
  <2>. SUFFICES ASSUME NEW q \in Qer PROVE qer'[q] \in RuleType(QerId)
    BY <1>2
  <2>1. qer'[q] = [qer[q] EXCEPT !.wait = qer[q].wait \ {c}] /\ qer[q] \in RuleType(QerId)
    BY <1>1, <1>2
  <2>. QED
    BY <2>1 DEF RuleType
<1>6. /\ rx' \in [Cpu -> [pdr : Pdr \cup {None}, far : Far \cup {None}]]
      /\ rx'[c].pdr = None
      /\ \A d \in Cpu \ {c} : rx'[d] = rx[d]
  BY <1>1, <1>2 DEF Idle
<1>7. Live(pdr') = Live(pdr) /\ Live(far') = Live(far)
  BY <1>1, <1>3, <1>4 DEF Live
<1>8. \A s, i : Find(far', s, i) = Find(far, s, i)
  <2>1. \A s, i : Named(far', s, i) = Named(far, s, i)
    BY <1>1, <1>4, <1>7 DEF Named, Live
  <2>. QED
    BY <2>1, FindSame
<1>9. TypeOK'
  BY <1>2, <1>3, <1>4, <1>5, <1>6 DEF IInv, TypeOK, tables, lists
<1>10. LiveNamed' /\ NamesUnique'
  <2>1. Live(pdr) \subseteq Pdr /\ Live(far) \subseteq Far
    BY <1>1 DEF Live
  <2>2. LiveNamed'
    BY <1>3, <1>4, <1>7, <2>1 DEF IInv, LiveNamed
  <2>3. NamesUnique'
    BY <1>3, <1>4, <1>7, <2>1 DEF IInv, NamesUnique
  <2>. QED
    BY <2>2, <2>3
<1>11. NodePerPdr' /\ FarLinkExact'
  <2>1. Live(pdr) \subseteq Pdr
    BY <1>1 DEF Live
  <2>2. NodePerPdr'
    BY <1>2, <1>3, <1>7, <2>1 DEF IInv, NodePerPdr, Bucket, tables
  <2>3. FarLinkExact'
    BY <1>3, <1>7, <1>8, <2>1 DEF IInv, FarLinkExact
  <2>. QED
    BY <2>2, <2>3
<1>12. ListsLive'
  BY <1>2, <1>7 DEF IInv, ListsLive, lists
<1>13. RxHolds'
  <2>. SUFFICES ASSUME NEW d \in Cpu, rx'[d].pdr # None
                PROVE  /\ Held(pdr', rx'[d].pdr, d)
                       /\ pdr'[rx'[d].pdr].far # None => Held(far', pdr'[rx'[d].pdr].far, d)
                       /\ rx'[d].far # None => Held(far', rx'[d].far, d)
    BY DEF RxHolds, Held
  <2>1. d # c /\ rx'[d] = rx[d] /\ rx[d].pdr \in Pdr /\ rx[d].far \in Far \cup {None}
    BY <1>1, <1>6
  <2>2. pdr[rx[d].pdr].far \in Far \cup {None}
    BY <1>1, <2>1 DEF PdrType
  <2>3. /\ \A p \in Pdr : Held(pdr, p, d) => Held(pdr', p, d)
        /\ \A f \in Far : Held(far, f, d) => Held(far', f, d)
    BY <1>3, <1>4, <2>1 DEF Held
  <2>. QED
    BY <1>3, <2>1, <2>2, <2>3 DEF IInv, RxHolds
<1>. QED
  BY <1>9, <1>10, <1>11, <1>12, <1>13 DEF IInv

LEMMA FreePdrStep ==
  ASSUME IInv, NEW p \in Pdr, FreePdr(p)
  PROVE  IInv'
<1>1. /\ pdr \in [Pdr -> PdrType] /\ pdi \in [Pdr -> PdiType] /\ p # None
      /\ pdr[p].st = "dying" /\ pdr[p].wait = {}
      /\ pdr' = [pdr EXCEPT ![p] = NoPdr] /\ pdi' = [pdi EXCEPT ![p] = NoPdi]
      /\ UNCHANGED <<far, qer, tables, teidHash, addrHash, rx, leaked, fault>>
  BY ConstantsAssumption DEF FreePdr, Expired, IInv, TypeOK
<1>2. p \notin Live(pdr) /\ Live(pdr') = Live(pdr)
  BY <1>1, EmptyPdr DEF Live
<1>3. \A c \in Cpu : rx[c].pdr # p
  BY <1>1 DEF IInv, RxHolds, Held
<1>4. pdi' \in [Pdr -> PdiType] /\ leaked' \in BOOLEAN
  BY <1>1, EmptyPdr DEF IInv, TypeOK
<1>5. ListTable(teidHash') /\ ListTable(addrHash')
  BY <1>1, ListsAreTables DEF ListTable, IInv
<1>6. \A b \in Buckets : /\ ToSet(teidHash'[b]) \subseteq Live(pdr')
                         /\ ToSet(addrHash'[b]) \subseteq Live(pdr')
  BY <1>1, <1>2 DEF IInv, ListsLive
<1>7. /\ relFar' \in [Buckets -> SUBSET Pdr]
      /\ relQer' \in [Buckets -> SUBSET Pdr]
      /\ relUrr' \in [Buckets -> SUBSET Pdr]
      /\ \A n \in Live(pdr) \ {p} : n \in relFar'[Bucket(pdr[n].seid, pdr[n].farId)]
  BY <1>1 DEF IInv, TypeOK, NodePerPdr, tables
<1>. QED
  BY <1>1, <1>3, <1>4, <1>5, <1>6, <1>7, EmptyPdr, OnePdrStep

LEMMA FreeFarStep ==
  ASSUME IInv, NEW f \in Far, FreeFar(f)
  PROVE  IInv'
<1>1. /\ pdr \in [Pdr -> PdrType] /\ far \in [Far -> RuleType(FarId)] /\ f # None
      /\ far[f].st = "dying" /\ far[f].wait = {}
      /\ far' = [far EXCEPT ![f] = NoRule]
      /\ UNCHANGED <<pdr, qer, tables, lists, rx, leaked, fault>>
  BY ConstantsAssumption DEF FreeFar, Expired, IInv, TypeOK
<1>2. NoRule \in RuleType(FarId) /\ NoRule.st = "free"
  BY DEF NoRule, RuleType, Life
<1>3. /\ far' \in [Far -> RuleType(FarId)] /\ far'[f].st = "free"
      /\ \A g \in Far \ {f} : far'[g] = far[g]
  BY <1>1, <1>2
<1>4. Live(far') = Live(far) /\ f \notin Live(far)
  BY <1>1, <1>3 DEF Live
<1>5. \A s, i : Find(far', s, i) = Find(far, s, i)
  <2>1. \A s, i : Named(far', s, i) = Named(far, s, i)
    BY <1>1, <1>3, <1>4 DEF Named, Live
  <2>. QED
    BY <2>1, FindSame
<1>6. TypeOK'
  BY <1>1, <1>3 DEF IInv, TypeOK, tables, lists
<1>7. LiveNamed' /\ NamesUnique'
  BY <1>1, <1>3, <1>4 DEF IInv, LiveNamed, NamesUnique, Live
<1>8. NodePerPdr' /\ FarLinkExact' /\ ListsLive'
  <2>1. NodePerPdr'
    BY <1>1 DEF IInv, NodePerPdr, Bucket, tables
  <2>2. FarLinkExact'
    <3>1. pdr' = pdr
      BY <1>1
    <3>. QED
      BY <1>5, <3>1 DEF IInv, FarLinkExact
  <2>3. ListsLive'
    BY <1>1 DEF IInv, ListsLive, lists
  <2>. QED
    BY <2>1, <2>2, <2>3
<1>9. RxHolds'
  <2>. SUFFICES ASSUME NEW c \in Cpu, rx[c].pdr # None
                PROVE  /\ Held(pdr, rx[c].pdr, c)
                       /\ pdr[rx[c].pdr].far # None => Held(far', pdr[rx[c].pdr].far, c)
                       /\ rx[c].far # None => Held(far', rx[c].far, c)
    BY <1>1 DEF RxHolds, Held
  <2>1. ~Held(far, f, c)
    BY <1>1 DEF Held
  <2>2. rx[c].pdr \in Pdr /\ rx[c].far \in Far \cup {None}
    BY DEF IInv, TypeOK
  <2>3. pdr[rx[c].pdr].far \in Far \cup {None}
    BY <1>1, <2>2 DEF PdrType
  <2>4. \A g \in Far : Held(far, g, c) => Held(far', g, c)
    BY <1>3, <2>1 DEF Held
  <2>. QED
    BY <2>2, <2>3, <2>4 DEF IInv, RxHolds
<1>. QED
  BY <1>6, <1>7, <1>8, <1>9 DEF IInv

-----------------------------------------------------------------------------
\* The theorems

LEMMA InitIInv == Init => IInv
<1>. SUFFICES ASSUME Init PROVE IInv
  OBVIOUS
<1>1. NoRule \in RuleType(FarId) /\ NoRule \in RuleType(QerId)
  BY DEF NoRule, RuleType, Life
<1>2. TypeOK
  <2>1. /\ pdr \in [Pdr -> PdrType] /\ pdi \in [Pdr -> PdiType]
        /\ far \in [Far -> RuleType(FarId)] /\ qer \in [Qer -> RuleType(QerId)]
    BY <1>1, EmptyPdr DEF Init
  <2>2. /\ relFar \in [Buckets -> SUBSET Pdr] /\ relQer \in [Buckets -> SUBSET Pdr]
        /\ relUrr \in [Buckets -> SUBSET Pdr]
    BY DEF Init
  <2>3. /\ teidHash \in [Buckets -> Seq(Pdr)] /\ addrHash \in [Buckets -> Seq(Pdr)]
    <3>1. <<>> \in Seq(Pdr)
      OBVIOUS
    <3>. QED
      BY <3>1 DEF Init
  <2>4. rx \in [Cpu -> [pdr : Pdr \cup {None}, far : Far \cup {None}]]
    BY DEF Init, Idle
  <2>5. leaked \in BOOLEAN /\ fault \in {"none", "use-after-free", "null", "poison"}
    BY DEF Init
  <2>. QED
    BY <2>1, <2>2, <2>3, <2>4, <2>5 DEF TypeOK
<1>3. Live(pdr) = {} /\ Live(far) = {}
  BY DEF Init, Live, NoPdr, NoRule
<1>4. LiveNamed /\ NamesUnique /\ NodePerPdr /\ FarLinkExact
  BY <1>3 DEF LiveNamed, NamesUnique, NodePerPdr, FarLinkExact
<1>5. ListsLive
  <2>1. NoRepeats(<<>>) /\ ToSet(<<>>) = {}
    BY DEF NoRepeats, ToSet
  <2>. QED
    BY <2>1 DEF Init, ListsLive
<1>6. RxHolds
  BY DEF Init, RxHolds, Idle
<1>. QED
  BY <1>2, <1>4, <1>5, <1>6 DEF IInv

LEMMA StepIInv == IInv /\ [Next]_vars => IInv'
<1>. SUFFICES ASSUME IInv, [Next]_vars PROVE IInv'
  OBVIOUS
<1>1. CASE PdrHandler
  BY <1>1, CreatePdrStep, CreatePdrFailsStep, ReplacePdrStep, ReplacePdrFailsStep, DelPdrStep
     DEF PdrHandler
<1>2. CASE RuleHandler
  BY <1>2, CreateFarStep, ReplaceFarStep, FarContextDeleteStep, QerHandlerStep
     DEF RuleHandler, ReplaceFarFails, DelFar
<1>3. CASE Packet
  BY <1>3, RxLookupStep, RxLoadFarStep, RxDoneStep DEF Packet
<1>4. CASE Callback
  BY <1>4, FreePdrStep, FreeFarStep, QerHandlerStep DEF Callback
<1>5. CASE Fault
  BY <1>5, FaultStep
<1>6. CASE UNCHANGED vars
  <2>1. qer' \in [Qer -> RuleType(QerId)] /\ leaked' \in BOOLEAN
        /\ fault' \in {"none", "use-after-free", "null", "poison"}
        /\ UNCHANGED <<pdr, far, tables, lists, rx>>
    BY <1>6 DEF vars, IInv, TypeOK
  <2>. QED
    BY <2>1, QerStep
<1>. QED
  BY <1>1, <1>2, <1>3, <1>4, <1>5, <1>6 DEF Next

THEOREM Invariance == Spec => []IInv
  BY InitIInv, StepIInv, PTL DEF Spec

\* Every state of every device is well typed.
THEOREM Typed == Spec => []TypeOK
<1>1. IInv => TypeOK
  BY DEF IInv
<1>. QED
  BY <1>1, Invariance, PTL

\* A (seid, id) names at most one live PDR and at most one live FAR, for any
\* number of sessions and rules and any history of netlink messages.
THEOREM RuleNamesUnique == Spec => []NamesUnique
<1>1. IInv => NamesUnique
  BY DEF IInv
<1>. QED
  BY <1>1, Invariance, PTL

\* A live PDR points to the FAR its far_id names, whichever of the two came
\* first and whatever failed on the way.
THEOREM FarLinked == Spec => []FarLinkExact
<1>1. IInv => FarLinkExact
  BY DEF IInv
<1>. QED
  BY <1>1, Invariance, PTL

\* Every live PDR is in the bucket that its FAR's handlers walk.
THEOREM FarReachesPdrs == Spec => []NodePerPdr
<1>1. IInv => NodePerPdr
  BY DEF IInv
<1>. QED
  BY <1>1, Invariance, PTL

\* No packet handler ever uses a freed PDR, or a freed FAR through one.
THEOREM RxFarSafety == Spec => []RxFarSafe
<1>1. IInv => RxFarSafe
  BY DEF IInv, RxHolds, Held, RxFarSafe, Allocated
<1>. QED
  BY <1>1, Invariance, PTL
=============================================================================
