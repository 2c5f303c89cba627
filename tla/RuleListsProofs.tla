--------------------------- MODULE RuleListsProofs ---------------------------
(***************************************************************************)
(* What a lookup finds: proofs about the detection lists and the QER nodes *)
(* of the rule tables, for every set of rules, keys and messages and every *)
(* hash function.                                                          *)
(***************************************************************************)
EXTENDS RuleTablesProofs

-----------------------------------------------------------------------------
\* The inductive invariant

\* The live PDRs whose place is on bucket b of i_teid_hash, of addr_hash.
OnTeid(b) == {p \in Live(pdr) : pdi[p].teid # None /\ AddrHash[pdi[p].teid] = b}
OnAddr(b) ==
  {p \in Live(pdr) : pdi[p].teid = None /\ pdi[p].ue # None /\ AddrHash[pdi[p].ue] = b}

PrecOf == [x \in Pdr |-> pdi[x].prec]

\* The lists hold just those PDRs, by ascending precedence.
TeidExact ==
  \A b \in Buckets : ToSet(teidHash[b]) = OnTeid(b) /\ Ascending(teidHash[b], PrecOf)
AddrExact ==
  \A b \in Buckets : ToSet(addrHash[b]) = OnAddr(b) /\ Ascending(addrHash[b], PrecOf)
ListsExact == TeidExact /\ AddrExact

-----------------------------------------------------------------------------
\* Order

\* The order of a list depends on the precedence of its entries only.
LEMMA AscendingAgree ==
  ASSUME NEW S, NEW s \in Seq(S), NEW prec, NEW other, Ascending(s, prec),
         \A x \in ToSet(s) : other[x] = prec[x]
  PROVE  Ascending(s, other)
<1>1. \A k \in 1..Len(s) : s[k] \in ToSet(s)
  BY ToSetIs
<1>. QED
  BY <1>1 DEF Ascending

Sorted(hash, prec) == \A b \in Buckets : Ascending(hash[b], prec)

\* Two precedences that differ in one PDR at most.
Agree(prec, old, p) == \A x \in Pdr \ {p} : prec[x] = old[x]

\* Taking a PDR off every list of a table leaves the rest in order, and the
\* order then no longer depends on that PDR's precedence.
LEMMA UnlistedOrder ==
  ASSUME NEW hash, ListTable(hash), NEW p, NEW prec, NEW other,
         Sorted(hash, prec), Agree(other, prec, p)
  PROVE  Sorted(Unlisted(hash, p), other)
<1>. SUFFICES ASSUME NEW b \in Buckets
              PROVE  Ascending(Unlisted(hash, p)[b], other)
  BY DEF Sorted
<1>1. hash[b] \in Seq(Pdr) /\ NoRepeats(hash[b]) /\ Ascending(hash[b], prec)
  BY DEF ListTable, Sorted
<1>2. Unlisted(hash, p)[b] = Unlist(hash[b], p)
  BY DEF Unlisted
<1> DEFINE t == Unlist(hash[b], p)
<1>3. t \in Seq(Pdr) /\ ToSet(t) = ToSet(hash[b]) \ {p} /\ Ascending(t, prec)
  BY <1>1, UnlistIs
<1>. HIDE DEF t
<1>4. ToSet(t) \subseteq Pdr
  <2>1. \A k \in 1..Len(t) : t[k] \in Pdr
    BY <1>3
  <2>. QED
    BY <1>3, <2>1, ToSetIs
<1>5. \A x \in ToSet(t) : other[x] = prec[x]
  BY <1>3, <1>4 DEF Agree
<1>6. Ascending(t, other)
  BY <1>3, <1>5, AscendingAgree
<1>. QED
  BY <1>2, <1>6 DEF t

\* PDR p, and no other, has moved to the list of bucket h.
Moved(t, hash, p, h) ==
  /\ ToSet(t[h]) = ToSet(hash[h]) \cup {p}
  /\ \A b \in Buckets \ {h} : ToSet(t[b]) = ToSet(hash[b]) \ {p}

\* A PDR moves to the list of key: its place, and the order of every list.
LEMMA RelistedOrder ==
  ASSUME NEW hash, ListTable(hash), NEW p \in Pdr, NEW key \in Teid \cup UeAddr,
         NEW prec \in [Pdr -> Nat], Sorted(Unlisted(hash, p), prec)
  PROVE  LET t == Listed(Unlisted(hash, p), p, key, prec)
         IN  ListTable(t) /\ Sorted(t, prec) /\ Moved(t, hash, p, AddrHash[key])
<1> DEFINE rest == Unlisted(hash, p)
           t == Listed(rest, p, key, prec)
           h == AddrHash[key]
<1>1. Sorted(rest, prec)
  OBVIOUS
<1>2. ListTable(rest)
  BY UnlistedIs
<1>3. \A b \in Buckets : ToSet(rest[b]) = ToSet(hash[b]) \ {p}
  BY UnlistedIs
<1>4. Absent(rest, p)
  BY <1>3 DEF Absent
<1>. HIDE DEF rest
<1>9. /\ ListTable(t)
      /\ ToSet(t[h]) = ToSet(rest[h]) \cup {p}
      /\ \A b \in Buckets \ {h} : t[b] = rest[b]
  BY <1>2, <1>4, ListedIs
<1>10. h \in Buckets /\ rest[h] \in Seq(Pdr) /\ rest \in [Buckets -> Seq(Pdr)]
  BY <1>2, ConstantsAssumption DEF ListTable
<1>5. t[h] = SortedInsert(rest[h], p, prec)
  BY <1>10 DEF Listed
<1>. HIDE DEF t, h
<1>6. Ascending(t[h], prec)
  BY <1>1, <1>5, <1>10, SortedInsertIs DEF Sorted
<1>7. ASSUME NEW b \in Buckets
      PROVE  /\ Ascending(t[b], prec)
             /\ ToSet(t[b]) = IF b = h THEN ToSet(hash[b]) \cup {p} ELSE ToSet(hash[b]) \ {p}
  <2>1. CASE b = h
    BY <1>3, <1>6, <1>9, <2>1
  <2>2. CASE b # h
    BY <1>1, <1>3, <1>9, <2>2 DEF Sorted
  <2>. QED
    BY <2>1, <2>2
<1>. QED
  BY <1>3, <1>7, <1>9, <1>10 DEF Sorted, Moved, t, rest, h

-----------------------------------------------------------------------------
\* What the handlers do to the lists

\* No PDR enters or leaves the lists, and no live PDR's data changes.
LEMMA KeepExact ==
  ASSUME IInv, ListsExact, Live(pdr') = Live(pdr), UNCHANGED <<teidHash, addrHash>>,
         \A x \in Live(pdr) : pdi'[x] = pdi[x]
  PROVE  ListsExact'
<1>1. Live(pdr) \subseteq Pdr
  BY DEF IInv, TypeOK, Live
<1>2. \A b \in Buckets : OnTeid(b)' = OnTeid(b) /\ OnAddr(b)' = OnAddr(b)
  BY DEF OnTeid, OnAddr
<1>3. \A x \in Live(pdr) : PrecOf'[x] = PrecOf[x]
  BY <1>1 DEF PrecOf
<1>4. ASSUME NEW b \in Buckets
      PROVE  ToSet(teidHash[b]) \subseteq Live(pdr) /\ ToSet(addrHash[b]) \subseteq Live(pdr)
  BY DEF IInv, ListsLive
<1>5. TeidExact'
  <2>. SUFFICES ASSUME NEW b \in Buckets
                PROVE  ToSet(teidHash[b]) = OnTeid(b) /\ Ascending(teidHash[b], PrecOf')
    BY <1>2 DEF TeidExact
  <2>1. teidHash[b] \in Seq(Pdr) /\ Ascending(teidHash[b], PrecOf)
        /\ ToSet(teidHash[b]) = OnTeid(b)
    BY DEF IInv, TypeOK, ListsExact, TeidExact
  <2>2. \A x \in ToSet(teidHash[b]) : PrecOf'[x] = PrecOf[x]
    BY <1>3, <1>4
  <2>3. Ascending(teidHash[b], PrecOf')
    BY <2>1, <2>2, AscendingAgree
  <2>. QED
    BY <2>1, <2>3
<1>6. AddrExact'
  <2>. SUFFICES ASSUME NEW b \in Buckets
                PROVE  ToSet(addrHash[b]) = OnAddr(b) /\ Ascending(addrHash[b], PrecOf')
    BY <1>2 DEF AddrExact
  <2>1. addrHash[b] \in Seq(Pdr) /\ Ascending(addrHash[b], PrecOf)
        /\ ToSet(addrHash[b]) = OnAddr(b)
    BY DEF IInv, TypeOK, ListsExact, AddrExact
  <2>2. \A x \in ToSet(addrHash[b]) : PrecOf'[x] = PrecOf[x]
    BY <1>3, <1>4
  <2>3. Ascending(addrHash[b], PrecOf')
    BY <2>1, <2>2, AscendingAgree
  <2>. QED
    BY <2>1, <2>3
<1>. QED
  BY <1>5, <1>6 DEF ListsExact

\* A deleted PDR leaves the lists, and they keep their order.
LEMMA UnhashExact ==
  ASSUME IInv, ListsExact, NEW p \in Pdr, UnhashLists(p),
         Live(pdr') = Live(pdr) \ {p}
  PROVE  ListsExact'
<1>1. pdi \in [Pdr -> PdiType] /\ Live(pdr) \subseteq Pdr
  BY DEF IInv, TypeOK, Live
<1>2. \A x \in Pdr : pdi'[x].prec = pdi[x].prec /\ pdi'[x].teid = pdi[x].teid
                     /\ pdi'[x].ue = pdi[x].ue
  BY <1>1 DEF UnhashLists, PdiType
<1>3. ListTable(teidHash) /\ ListTable(addrHash)
  BY ListsAreTables DEF IInv
<1>4. teidHash' = Unlisted(teidHash, p) /\ addrHash' = Unlisted(addrHash, p)
  BY DEF UnhashLists
<1>5. PrecOf' = PrecOf
  BY <1>2 DEF PrecOf
<1>6. Sorted(teidHash, PrecOf) /\ Sorted(addrHash, PrecOf)
  BY DEF ListsExact, TeidExact, AddrExact, Sorted
<1>7. Sorted(teidHash', PrecOf) /\ Sorted(addrHash', PrecOf)
  <2>1. Agree(PrecOf, PrecOf, p)
    BY DEF Agree
  <2>. QED
    BY <1>3, <1>4, <1>6, <2>1, UnlistedOrder
<1>8. \A b \in Buckets : OnTeid(b)' = OnTeid(b) \ {p} /\ OnAddr(b)' = OnAddr(b) \ {p}
  BY <1>1, <1>2 DEF OnTeid, OnAddr
<1>9. \A b \in Buckets : /\ ToSet(teidHash'[b]) = ToSet(teidHash[b]) \ {p}
                         /\ ToSet(addrHash'[b]) = ToSet(addrHash[b]) \ {p}
  BY <1>3, <1>4, UnlistedIs
<1>10. TeidExact'
  BY <1>5, <1>7, <1>8, <1>9 DEF ListsExact, TeidExact, Sorted
<1>11. AddrExact'
  BY <1>5, <1>7, <1>8, <1>9 DEF ListsExact, AddrExact, Sorted
<1>. QED
  BY <1>10, <1>11 DEF ListsExact

\* An added or replaced PDR is on the list of its F-TEID if it has one, else
\* on the list of its UE address if it has one, and on no other; the lists are
\* in the order of the precedences as they are now.
LEMMA UpdateExact ==
  ASSUME IInv, ListsExact, NEW p \in Pdr, NEW a \in PdrMsg, UpdateLists(p, a),
         Live(pdr') = Live(pdr) \cup {p}
  PROVE  ListsExact'
<1> DEFINE old == pdi[p]
           teid == Given(a.teid, old.teid)
           ue == Given(a.ue, old.ue)
           prec == Given(a.prec, old.prec)
           byTeid == teid # None
           byAddr == teid = None /\ ue # None
           precOf == [x \in Pdr |-> IF x = p THEN prec ELSE pdi[x].prec]
           node == [prec |-> prec, teid |-> teid, ue |-> ue,
                    teidNode |-> IF byTeid THEN "hashed" ELSE AfterDel(old.teidNode),
                    addrNode |-> IF byAddr THEN "hashed" ELSE AfterDel(old.addrNode)]
<1>1. a \in PdrMsgs /\ Prec \subseteq Nat
  BY ConstantsAssumption
<1>2. pdi \in [Pdr -> PdiType] /\ old \in PdiType /\ Live(pdr) \subseteq Pdr
  BY DEF IInv, TypeOK, Live
<1>3. /\ teid \in Teid \cup {None} /\ ue \in UeAddr \cup {None} /\ prec \in Nat
  BY <1>1, <1>2 DEF Given, PdrMsgs, PdiType
<1>4. precOf \in [Pdr -> Nat]
  BY <1>2, <1>3 DEF PdiType
<1>5. /\ pdi' = [pdi EXCEPT ![p] = node]
      /\ teidHash' = IF byTeid THEN Listed(Unlisted(teidHash, p), p, teid, precOf)
                     ELSE Unlisted(teidHash, p)
      /\ addrHash' = IF byAddr THEN Listed(Unlisted(addrHash, p), p, ue, precOf)
                     ELSE Unlisted(addrHash, p)
  BY DEF UpdateLists
<1>6. node.prec = prec /\ node.teid = teid /\ node.ue = ue
  OBVIOUS
<1>. HIDE DEF node
<1>7. /\ pdi'[p].prec = prec /\ pdi'[p].teid = teid /\ pdi'[p].ue = ue
      /\ \A x \in Pdr \ {p} : pdi'[x] = pdi[x]
  BY <1>2, <1>5, <1>6
<1>8. PrecOf' = precOf
  BY <1>7 DEF PrecOf
<1>9. Agree(precOf, PrecOf, p)
  BY DEF PrecOf, Agree
<1>. HIDE DEF teid, ue, prec, precOf
<1>10. ListTable(teidHash) /\ ListTable(addrHash)
  BY ListsAreTables DEF IInv
<1>11. Sorted(Unlisted(teidHash, p), precOf) /\ Sorted(Unlisted(addrHash, p), precOf)
  <2>1. Sorted(teidHash, PrecOf) /\ Sorted(addrHash, PrecOf)
    BY DEF ListsExact, TeidExact, AddrExact, Sorted
  <2>. QED
    BY <1>9, <1>10, <2>1, UnlistedOrder
<1>12. ASSUME NEW b \in Buckets
       PROVE  /\ OnTeid(b)' = IF byTeid /\ b = AddrHash[teid] THEN OnTeid(b) \cup {p}
                              ELSE OnTeid(b) \ {p}
              /\ OnAddr(b)' = IF byAddr /\ b = AddrHash[ue] THEN OnAddr(b) \cup {p}
                              ELSE OnAddr(b) \ {p}
  BY <1>2, <1>7 DEF OnTeid, OnAddr
<1>13. TeidExact'
  <2>1. CASE byTeid
    <3>1. teid \in Teid \cup UeAddr
      BY <1>3, <2>1
    <3>2. Sorted(teidHash', precOf) /\ Moved(teidHash', teidHash, p, AddrHash[teid])
      <4> DEFINE t == Listed(Unlisted(teidHash, p), p, teid, precOf)
      <4>1. Sorted(t, precOf) /\ Moved(t, teidHash, p, AddrHash[teid])
        BY <1>4, <1>10, <1>11, <3>1, RelistedOrder
      <4>2. teidHash' = t
        BY <1>5, <2>1
      <4>. HIDE DEF t
      <4>. QED
        BY <4>1, <4>2
    <3>. QED
      BY <1>8, <1>12, <2>1, <3>2 DEF ListsExact, TeidExact, Sorted, Moved
  <2>2. CASE ~byTeid
    <3>1. \A b \in Buckets : ToSet(teidHash'[b]) = ToSet(teidHash[b]) \ {p}
      BY <1>5, <1>10, <2>2, UnlistedIs
    <3>2. Sorted(teidHash', precOf)
      BY <1>5, <1>11, <2>2
    <3>. QED
      BY <1>8, <1>12, <2>2, <3>1, <3>2 DEF ListsExact, TeidExact, Sorted
  <2>. QED
    BY <2>1, <2>2
<1>14. AddrExact'
  <2>1. CASE byAddr
    <3>1. ue \in Teid \cup UeAddr
      BY <1>3, <2>1
    <3>2. Sorted(addrHash', precOf) /\ Moved(addrHash', addrHash, p, AddrHash[ue])
      <4> DEFINE t == Listed(Unlisted(addrHash, p), p, ue, precOf)
      <4>1. Sorted(t, precOf) /\ Moved(t, addrHash, p, AddrHash[ue])
        BY <1>4, <1>10, <1>11, <3>1, RelistedOrder
      <4>2. addrHash' = t
        BY <1>5, <2>1
      <4>. HIDE DEF t
      <4>. QED
        BY <4>1, <4>2
    <3>. QED
      BY <1>8, <1>12, <2>1, <3>2 DEF ListsExact, AddrExact, Sorted, Moved
  <2>2. CASE ~byAddr
    <3>1. \A b \in Buckets : ToSet(addrHash'[b]) = ToSet(addrHash[b]) \ {p}
      BY <1>5, <1>10, <2>2, UnlistedIs
    <3>2. Sorted(addrHash', precOf)
      BY <1>5, <1>11, <2>2
    <3>. QED
      BY <1>8, <1>12, <2>2, <3>1, <3>2 DEF ListsExact, AddrExact, Sorted
  <2>. QED
    BY <2>1, <2>2
<1>. QED
  BY <1>13, <1>14 DEF ListsExact

-----------------------------------------------------------------------------
\* Steps

\* A PDR record is written: who is live afterwards.
LEMMA LiveAfter ==
  ASSUME IInv, NEW p \in Pdr, NEW r, pdr' = [pdr EXCEPT ![p] = r]
  PROVE  Live(pdr') = IF r.st = "live" THEN Live(pdr) \cup {p} ELSE Live(pdr) \ {p}
<1>1. pdr \in [Pdr -> PdrType]
  BY DEF IInv, TypeOK
<1>2. DOMAIN pdr' = Pdr /\ DOMAIN pdr = Pdr /\ pdr'[p] = r
      /\ \A x \in Pdr \ {p} : pdr'[x] = pdr[x]
  BY <1>1
<1>. QED
  BY <1>2 DEF Live

LEMMA PdrHandlerLists ==
  ASSUME IInv, ListsExact, PdrHandler
  PROVE  ListsExact'
<1>1. pdr \in [Pdr -> PdrType]
  BY DEF IInv, TypeOK
<1>2. ASSUME NEW p \in Pdr, NEW s \in Seid, NEW i \in PdrId, NEW a \in PdrMsg,
             NEW last \in LastQers(NoPdr, a), CreatePdr(p, s, i, a, last)
      PROVE  ListsExact'
  <2> DEFINE base == Pointers(Parsed(NoPdr, s, i, a, last), 4)
             r == [base EXCEPT !.st = "live"]
  <2>1. base \in PdrType
    BY EmptyPdr, LastQersIs, ParsedIs DEF IInv
  <2>2. pdr' = [pdr EXCEPT ![p] = r] /\ UpdateLists(p, a)
    BY <1>2 DEF CreatePdr
  <2>. HIDE DEF base
  <2>3. r.st = "live"
    BY <2>1 DEF PdrType
  <2>. HIDE DEF r
  <2>4. Live(pdr') = Live(pdr) \cup {p}
    BY <2>2, <2>3, LiveAfter
  <2>. QED
    BY <2>2, <2>4, UpdateExact
<1>3. ASSUME NEW p \in Pdr, NEW s \in Seid, NEW i \in PdrId, NEW a \in PdrMsg,
             NEW last \in LastQers(NoPdr, a), NEW at \in Steps,
             CreatePdrFails(p, s, i, a, last, at)
      PROVE  ListsExact'
  <2> DEFINE r == Pointers(Parsed(NoPdr, s, i, a, last), at)
  <2>1. r \in PdrType
    <3>1. at \in Nat
      BY DEF Steps
    <3>. QED
      BY <3>1, EmptyPdr, LastQersIs, ParsedIs DEF IInv
  <2>2. pdr' = [pdr EXCEPT ![p] = Dying(r)] /\ FreshPdr(p) /\ UNCHANGED lists
    BY <1>3 DEF CreatePdrFails
  <2>. HIDE DEF r
  <2>3. Dying(r).st # "live"
    BY <2>1, DyingIs
  <2>4. Live(pdr') = Live(pdr)
    <3>1. p \notin Live(pdr)
      BY <2>2, FreshIsFree
    <3>2. Live(pdr') = Live(pdr) \ {p}
      BY <2>2, <2>3, LiveAfter
    <3>. QED
      BY <3>1, <3>2
  <2>. QED
    BY <2>2, <2>4, KeepExact DEF lists
<1>4. ASSUME NEW p \in Pdr, NEW a \in PdrMsg, NEW last \in LastQers(pdr[p], a),
             ReplacePdr(p, a, last)
      PROVE  ListsExact'
  <2> DEFINE r == Pointers(Parsed(pdr[p], pdr[p].seid, pdr[p].id, a, last), 4)
  <2>1. pdr[p] \in PdrType /\ pdr[p].st = "live" /\ p \in Live(pdr)
    BY <1>1, <1>4 DEF ReplacePdr, Live
  <2>2. r.st = "live"
    <3>1. pdr[p].seid \in Seid /\ pdr[p].id \in PdrId
      BY <2>1 DEF IInv, LiveNamed
    <3>. QED
      BY <2>1, <3>1, LastQersIs, ParsedIs DEF IInv
  <2>3. pdr' = [pdr EXCEPT ![p] = r] /\ UpdateLists(p, a)
    BY <1>4 DEF ReplacePdr
  <2>. HIDE DEF r
  <2>4. Live(pdr') = Live(pdr) \cup {p}
    BY <2>2, <2>3, LiveAfter
  <2>. QED
    BY <2>3, <2>4, UpdateExact
<1>5. ASSUME NEW p \in Pdr, NEW a \in PdrMsg, NEW last \in LastQers(pdr[p], a),
             NEW at \in Steps \cup {0}, ReplacePdrFails(p, a, last, at)
      PROVE  ListsExact'
  <2> DEFINE r == Pointers(Parsed(pdr[p], pdr[p].seid, pdr[p].id, a, last), at)
  <2>1. pdr[p] \in PdrType /\ p \in Live(pdr)
    BY <1>1, <1>5 DEF ReplacePdrFails, Live
  <2>2. r \in PdrType
    <3>1. at \in Nat
      BY DEF Steps
    <3>2. pdr[p].seid \in Seid /\ pdr[p].id \in PdrId
      BY <2>1 DEF IInv, LiveNamed
    <3>. QED
      BY <2>1, <3>1, <3>2, LastQersIs, ParsedIs DEF IInv
  <2>3. pdr' = [pdr EXCEPT ![p] = Dying(r)] /\ UnhashLists(p)
    BY <1>5 DEF ReplacePdrFails
  <2>. HIDE DEF r
  <2>4. Dying(r).st # "live"
    BY <2>2, DyingIs
  <2>5. Live(pdr') = Live(pdr) \ {p}
    BY <2>3, <2>4, LiveAfter
  <2>. QED
    BY <2>3, <2>5, UnhashExact
<1>6. ASSUME NEW p \in Pdr, DelPdr(p)
      PROVE  ListsExact'
  <2>1. pdr' = [pdr EXCEPT ![p] = Dying(pdr[p])] /\ UnhashLists(p)
    BY <1>1, <1>6 DEF DelPdr
  <2>2. Dying(pdr[p]).st # "live"
    BY <1>1, DyingIs
  <2>3. Live(pdr') = Live(pdr) \ {p}
    BY <2>1, <2>2, LiveAfter
  <2>. QED
    BY <2>1, <2>3, UnhashExact
<1>. QED
  BY <1>2, <1>3, <1>4, <1>5, <1>6 DEF PdrHandler

\* The FAR walk writes far pointers only.
LEMMA RuleHandlerLists ==
  ASSUME IInv, ListsExact, RuleHandler
  PROVE  ListsExact'
<1>1. UNCHANGED lists
  BY DEF RuleHandler, CreateFar, ReplaceFar, ReplaceFarFails, DelFar, FarContextDelete,
         CreateQer, ReplaceQer, DelQer
<1>2. Live(pdr') = Live(pdr)
  <2>1. CASE \E f \in Far, s \in Seid, i \in FarId : CreateFar(f, s, i)
    BY <2>1, PointPdrsKeeps DEF CreateFar
  <2>2. CASE \E f \in Far : ReplaceFar(f) \/ ReplaceFarFails(f) \/ DelFar(f)
    BY <2>2, PointPdrsKeeps DEF ReplaceFar, ReplaceFarFails, DelFar, FarContextDelete
  <2>3. CASE \/ \E q \in Qer, s \in Seid, i \in QerId : CreateQer(q, s, i)
             \/ \E q \in Qer : ReplaceQer(q) \/ DelQer(q)
    BY <2>3 DEF CreateQer, ReplaceQer, DelQer
  <2>. QED
    BY <2>1, <2>2, <2>3 DEF RuleHandler
<1>. QED
  BY <1>1, <1>2, KeepExact DEF lists

LEMMA OtherLists ==
  ASSUME IInv, ListsExact, Packet \/ Callback \/ Fault \/ UNCHANGED vars
  PROVE  ListsExact'
<1>1. /\ pdr \in [Pdr -> PdrType] /\ pdi \in [Pdr -> PdiType]
      /\ far \in [Far -> RuleType(FarId)] /\ qer \in [Qer -> RuleType(QerId)]
  BY DEF IInv, TypeOK
<1>2. CASE \/ \E c \in Cpu : \/ \E p \in Pdr : RxLookup(c, p)
                             \/ RxLoadFar(c)
           \/ \E f \in Far : FreeFar(f)
           \/ \E q \in Qer : FreeQer(q)
           \/ UNCHANGED vars
  <2>1. pdr' = pdr /\ UNCHANGED lists
    BY <1>2 DEF RxLookup, RxLoadFar, FreeFar, FreeQer, vars
  <2>. QED
    BY <2>1, KeepExact DEF lists
<1>3. CASE Fault
  <2>1. pdr' = pdr /\ UNCHANGED lists
    BY <1>3 DEF Fault, CreatePdrOops, ReplacePdrOops, DelPdrOops, WalkOops, RxOops,
                FillOops, Oops, lists
  <2>. QED
    BY <2>1, KeepExact DEF lists
<1>4. ASSUME NEW c \in Cpu, RxDone(c)
      PROVE  ListsExact'
  <2>1. pdr' = [x \in Pdr |-> [pdr[x] EXCEPT !.wait = @ \ {c}]] /\ UNCHANGED lists
    BY <1>1, <1>4 DEF RxDone
  <2>2. \A x \in Pdr : pdr'[x].st = pdr[x].st
    BY <1>1, <2>1 DEF PdrType
  <2>3. Live(pdr') = Live(pdr)
    BY <1>1, <2>1, <2>2 DEF Live
  <2>. QED
    BY <2>1, <2>3, KeepExact DEF lists
<1>5. ASSUME NEW p \in Pdr, FreePdr(p)
      PROVE  ListsExact'
  <2>1. /\ pdr[p].st # "live" /\ pdr' = [pdr EXCEPT ![p] = NoPdr]
        /\ pdi' = [pdi EXCEPT ![p] = NoPdi] /\ UNCHANGED <<teidHash, addrHash>>
    BY <1>5 DEF FreePdr, Expired
  <2>2. NoPdr.st # "live" /\ p \notin Live(pdr)
    BY <2>1, EmptyPdr DEF Live
  <2>3. Live(pdr') = Live(pdr)
    BY <2>1, <2>2, LiveAfter
  <2>4. \A x \in Live(pdr) : pdi'[x] = pdi[x]
    BY <1>1, <2>1, <2>2 DEF Live
  <2>. QED
    BY <2>1, <2>3, <2>4, KeepExact
<1>. QED
  BY <1>2, <1>3, <1>4, <1>5 DEF Packet, Callback

LEMMA InitLists == Init => ListsExact
<1>. SUFFICES ASSUME Init PROVE ListsExact
  OBVIOUS
<1>1. Live(pdr) = {}
  BY DEF Init, Live, NoPdr
<1>2. ToSet(<<>>) = {} /\ \A prec : Ascending(<<>>, prec)
  BY DEF ToSet, Ascending
<1>. QED
  BY <1>1, <1>2 DEF Init, ListsExact, TeidExact, AddrExact, OnTeid, OnAddr

\* At any moment every list holds just the live PDRs whose place it is, in
\* ascending order of their precedence.
THEOREM ListsInvariance == Spec => [](IInv /\ ListsExact)
<1>1. IInv /\ ListsExact /\ [Next]_vars => ListsExact'
  BY PdrHandlerLists, RuleHandlerLists, OtherLists DEF Next
<1>. QED
  BY <1>1, InitIInv, InitLists, StepIInv, PTL DEF Spec

-----------------------------------------------------------------------------
\* What the lists promise

\* A list holds live PDRs only, each once, and no PDR is on two lists: a
\* replaced PDR never stays where its old F-TEID or UE address had put it.
THEOREM ListsAreDisjoint == Spec => []ListsDisjoint
<1>. SUFFICES ASSUME IInv, ListsExact PROVE ListsDisjoint
  BY ListsInvariance, PTL
<1> DEFINE at(l) == IF l[1] = "teid" THEN OnTeid(l[2]) ELSE OnAddr(l[2])
           dom == {"teid", "addr"} \X Buckets
           all == [l \in dom |-> IF l[1] = "teid" THEN teidHash[l[2]] ELSE addrHash[l[2]]]
<1>1. ASSUME NEW l \in dom
      PROVE  ToSet(all[l]) = at(l) /\ NoRepeats(all[l])
  <2>1. l[2] \in Buckets
    OBVIOUS
  <2>. QED
    BY <2>1 DEF ListsExact, TeidExact, AddrExact, IInv, ListsLive
<1>2. ASSUME NEW l \in dom, NEW m \in dom, m # l
      PROVE  at(l) \cap at(m) = {}
  <2>1. l[1] # m[1] \/ l[2] # m[2]
    BY <1>2
  <2>2. l[1] \in {"teid", "addr"} /\ m[1] \in {"teid", "addr"}
    OBVIOUS
  <2>. QED
    BY <2>1, <2>2 DEF OnTeid, OnAddr
<1>3. ASSUME NEW l \in dom
      PROVE  at(l) \subseteq Live(pdr)
  BY DEF OnTeid, OnAddr
<1>. HIDE DEF at
<1>4. ASSUME NEW l \in dom
      PROVE  /\ NoRepeats(all[l])
             /\ ToSet(all[l]) \subseteq Live(pdr)
             /\ \A m \in dom : m # l => ToSet(all[l]) \cap ToSet(all[m]) = {}
  BY <1>1, <1>2, <1>3
<1>. QED
  BY <1>4 DEF ListsDisjoint

\* The first entry of an ordered list that a lookup accepts.
LEMMA FirstIsLeast ==
  ASSUME NEW S, NEW s \in Seq(S), NEW prec, Ascending(s, prec),
         \A x \in S : prec[x] \in Nat,
         NEW from, from \subseteq ToSet(s), NEW none
  PROVE  LET hit == FirstMatch(s, from, none)
         IN  IF from = {} THEN hit = none
             ELSE hit \in from /\ \A x \in from : prec[hit] <= prec[x]
<1> DEFINE hits == {k \in 1..Len(s) : s[k] \in from}
<1>1. \A x \in from : \E k \in hits : s[k] = x
  BY ToSetIs
<1>2. CASE from = {}
  <2>1. hits = {}
    BY <1>2
  <2>. QED
    BY <1>2, <2>1 DEF FirstMatch
<1>3. CASE from # {}
  <2>1. hits # {} /\ hits \in SUBSET Nat
    BY <1>1, <1>3
  <2>2. Min(hits) \in hits /\ \A k \in hits : Min(hits) <= k
    BY <2>1, MinIsLeast
  <2>3. FirstMatch(s, from, none) = s[Min(hits)]
    BY <2>1 DEF FirstMatch
  <2> DEFINE m == Min(hits)
  <2>. HIDE DEF m
  <2>4. m \in 1..Len(s) /\ s[m] \in from /\ \A k \in hits : m <= k
    BY <2>2 DEF m
  <2>5. ASSUME NEW x \in from PROVE prec[s[m]] <= prec[x]
    <3>1. PICK k \in hits : s[k] = x
      BY <1>1
    <3>2. k \in 1..Len(s) /\ (m = k \/ m < k)
      BY <2>4
    <3>3. prec[s[m]] \in Nat
      BY <2>4
    <3>. QED
      BY <2>4, <3>1, <3>2, <3>3 DEF Ascending
  <2>. QED
    BY <1>3, <2>3, <2>4, <2>5 DEF m
<1>. QED
  BY <1>2, <1>3

\* A lookup returns a PDR of the least precedence among the live PDRs that
\* have the TEID (or the UE address and no F-TEID), and finds one whenever
\* there is one, for any number of PDRs in a bucket.
THEOREM LookupsFindPrecedent == Spec => []FindsPrecedent
<1>. SUFFICES ASSUME IInv, ListsExact PROVE FindsPrecedent
  BY ListsInvariance, PTL
<1>1. pdi \in [Pdr -> PdiType] /\ Live(pdr) \subseteq Pdr
  BY DEF IInv, TypeOK, Live
<1>2. \A x \in Pdr : PrecOf[x] = pdi[x].prec /\ PrecOf[x] \in Nat
  BY <1>1 DEF PrecOf, PdiType
<1>3. ASSUME NEW list \in Seq(Pdr), NEW from, from \subseteq ToSet(list), from \subseteq Pdr,
             Ascending(list, PrecOf)
      PROVE  LET hit == FirstMatch(list, from, None)
             IN  IF from = {} THEN hit = None
                 ELSE hit \in from /\ \A p \in from : pdi[hit].prec <= pdi[p].prec
  <2> DEFINE hit == FirstMatch(list, from, None)
  <2>1. IF from = {} THEN hit = None
        ELSE hit \in from /\ \A p \in from : PrecOf[hit] <= PrecOf[p]
    BY <1>2, <1>3, FirstIsLeast
  <2>. HIDE DEF hit
  <2>2. IF from = {} THEN hit = None
        ELSE hit \in from /\ \A p \in from : pdi[hit].prec <= pdi[p].prec
    BY <1>2, <1>3, <2>1
  <2>. QED
    BY <2>2 DEF hit
<1>4. ASSUME NEW t \in Teid
      PROVE  LET from == ByTeid(t)
                 hit == FirstMatch(teidHash[AddrHash[t]], from, None)
             IN  IF from = {} THEN hit = None
                 ELSE hit \in from /\ \A p \in from : pdi[hit].prec <= pdi[p].prec
  <2>1. AddrHash[t] \in Buckets /\ t # None
    BY ConstantsAssumption
  <2>2. ByTeid(t) \subseteq ToSet(teidHash[AddrHash[t]])
    BY <2>1 DEF ListsExact, TeidExact, OnTeid, ByTeid
  <2>3. ByTeid(t) \subseteq Pdr
    BY <1>1 DEF ByTeid
  <2>4. teidHash[AddrHash[t]] \in Seq(Pdr)
    BY <2>1 DEF IInv, TypeOK
  <2>5. Ascending(teidHash[AddrHash[t]], PrecOf)
    BY <2>1 DEF ListsExact, TeidExact
  <2>. QED
    BY <1>3, <2>2, <2>3, <2>4, <2>5
<1>5. ASSUME NEW u \in UeAddr
      PROVE  LET from == ByAddr(u)
                 hit == FirstMatch(addrHash[AddrHash[u]], from, None)
             IN  IF from = {} THEN hit = None
                 ELSE hit \in from /\ \A p \in from : pdi[hit].prec <= pdi[p].prec
  <2>1. AddrHash[u] \in Buckets /\ u # None
    BY ConstantsAssumption
  <2>2. ByAddr(u) \subseteq ToSet(addrHash[AddrHash[u]])
    BY <2>1 DEF ListsExact, AddrExact, OnAddr, ByAddr
  <2>3. ByAddr(u) \subseteq Pdr
    BY <1>1 DEF ByAddr
  <2>4. addrHash[AddrHash[u]] \in Seq(Pdr)
    BY <2>1 DEF IInv, TypeOK
  <2>5. Ascending(addrHash[AddrHash[u]], PrecOf)
    BY <2>1 DEF ListsExact, AddrExact
  <2>. QED
    BY <1>3, <2>2, <2>3, <2>4, <2>5
<1>. QED
  BY <1>4, <1>5 DEF FindsPrecedent

-----------------------------------------------------------------------------
\* The QER nodes

\* del_related_qer_hash for a rule that no other live PDR is: its own node
\* leaves the buckets of the ids it names.
LEMMA DelQerNode ==
  ASSUME IInv, QerNodesExact, NEW p \in Pdr, NEW r, NEW ids,
         \A n \in Live(pdr) \ {p} : ~SameRule(n, r),
         p \in Live(pdr) => SameRule(p, r)
  PROVE  \A b \in Buckets :
           DelRelated(relQer, r, ids)[b] =
             IF b \in BucketsOf(r, ids) THEN relQer[b] \ {p} ELSE relQer[b]
<1>1. \A n \in Live(pdr) : pdr[n].st # "free"
  BY DEF Live
<1>2. \A b \in Buckets : relQer[b] \subseteq Live(pdr)
  BY DEF QerNodesExact
<1>. QED
  BY <1>1, <1>2 DEF DelRelated

\* The step that links p to the QERs of r makes its nodes exact.
LEMMA SetQerNodes ==
  ASSUME IInv, QerNodesExact, NEW p \in Pdr, NEW r \in PdrType,
         \A n \in Live(pdr) \ {p} : ~SameRule(n, r),
         p \in Live(pdr) =>
           SameRule(p, r) /\ r.seid = pdr[p].seid /\ pdr[p].qers \subseteq r.qers,
         r.st = "live", pdr' = [pdr EXCEPT ![p] = r], LinkPdr(p, r, 4, {})
  PROVE  QerNodesExact'
<1>1. relQer' = SetPdr(relQer, p, r, r.qers, r.qers)
  BY DEF LinkPdr, LinkUpTo
<1>2. ASSUME NEW b \in Buckets
      PROVE  relQer'[b] = IF b \in BucketsOf(r, r.qers) THEN relQer[b] \cup {p} ELSE relQer[b]
  <2>1. DelRelated(relQer, r, r.qers)[b] =
          IF b \in BucketsOf(r, r.qers) THEN relQer[b] \ {p} ELSE relQer[b]
    BY DelQerNode
  <2>. QED
    BY <1>1, <2>1 DEF SetPdr
<1>3. Live(pdr') = Live(pdr) \cup {p}
  BY LiveAfter
<1>4. /\ pdr \in [Pdr -> PdrType] /\ Live(pdr) \subseteq Pdr
      /\ pdr'[p] = r /\ \A x \in Pdr \ {p} : pdr'[x] = pdr[x]
  BY DEF IInv, TypeOK, Live
<1>5. \A x \in Pdr \ {p} : BucketsOf(pdr'[x], pdr'[x].qers) = BucketsOf(pdr[x], pdr[x].qers)
  BY <1>4
<1>6. p \in Live(pdr) => BucketsOf(pdr[p], pdr[p].qers) \subseteq BucketsOf(r, r.qers)
  BY DEF BucketsOf
<1>7. BucketsOf(pdr'[p], pdr'[p].qers) = BucketsOf(r, r.qers)
  BY <1>4
<1>. QED
  <2> DEFINE B(x) == BucketsOf(pdr[x], pdr[x].qers)
             C(x) == BucketsOf(pdr'[x], pdr'[x].qers)
             D == BucketsOf(r, r.qers)
  <2>1. /\ \A x \in Pdr \ {p} : C(x) = B(x)
        /\ p \in Live(pdr) => B(p) \subseteq D
        /\ C(p) = D
    BY <1>5, <1>6, <1>7
  <2>2. \A b \in Buckets : relQer[b] = {x \in Live(pdr) : b \in B(x)}
    BY DEF QerNodesExact
  <2>3. \A b \in Buckets : relQer'[b] = IF b \in D THEN relQer[b] \cup {p} ELSE relQer[b]
    BY <1>2
  <2>. SUFFICES ASSUME NEW b \in Buckets
                PROVE  relQer'[b] = {x \in Live(pdr') : b \in C(x)}
    BY DEF QerNodesExact
  <2>. HIDE DEF B, C, D
  <2>4. \A x : x \in relQer'[b] <=> x \in Live(pdr') /\ b \in C(x)
    <3>. SUFFICES ASSUME NEW x
                  PROVE  x \in relQer'[b] <=> x \in Live(pdr') /\ b \in C(x)
      OBVIOUS
    <3>1. x \in relQer[b] <=> x \in Live(pdr) /\ b \in B(x)
      BY <2>2
    <3>2. x \in relQer'[b] <=> x \in relQer[b] \/ (b \in D /\ x = p)
      BY <2>3
    <3>3. x \in Live(pdr') <=> x \in Live(pdr) \/ x = p
      BY <1>3
    <3>4. CASE x = p
      BY <2>1, <3>1, <3>2, <3>3, <3>4
    <3>5. CASE x # p
      BY <1>4, <2>1, <3>1, <3>2, <3>3, <3>5
    <3>. QED
      BY <3>4, <3>5
  <2>5. relQer'[b] = {x \in Live(pdr') : b \in C(x)}
    BY <2>4
  <2>. QED
    BY <2>5

\* The nodes stay exact while no live PDR changes its session or its QERs.
LEMMA KeepQerNodes ==
  ASSUME IInv, QerNodesExact, Live(pdr') = Live(pdr), relQer' = relQer,
         \A x \in Live(pdr) : pdr'[x].seid = pdr[x].seid /\ pdr'[x].qers = pdr[x].qers
  PROVE  QerNodesExact'
<1>1. \A x \in Live(pdr) : BucketsOf(pdr'[x], pdr'[x].qers) = BucketsOf(pdr[x], pdr[x].qers)
  BY DEF BucketsOf
<1>. QED
  BY <1>1 DEF QerNodesExact

\* A handler of a PDR whose every step succeeds.
LEMMA PdrHandlerQerNodes ==
  ASSUME IInv, QerNodesExact, ~MayFail, PdrHandler
  PROVE  QerNodesExact'
<1>1. pdr \in [Pdr -> PdrType]
  BY DEF IInv, TypeOK
<1>2. ASSUME NEW p \in Pdr, NEW s \in Seid, NEW i \in PdrId, NEW a \in PdrMsg,
             NEW last \in LastQers(NoPdr, a), CreatePdr(p, s, i, a, last)
      PROVE  QerNodesExact'
  <2> DEFINE base == Pointers(Parsed(NoPdr, s, i, a, last), 4)
             r == [base EXCEPT !.st = "live"]
  <2>1. base \in PdrType /\ base.seid = s /\ base.id = i
    BY EmptyPdr, LastQersIs, ParsedIs DEF IInv
  <2>2. /\ pdr' = [pdr EXCEPT ![p] = r] /\ LinkPdr(p, r, 4, {})
        /\ FreshPdr(p) /\ Find(pdr, s, i) = None
    BY <1>2 DEF CreatePdr
  <2>. HIDE DEF base
  <2>3. r \in PdrType /\ r.st = "live" /\ r.seid = s /\ r.id = i
    BY <2>1 DEF PdrType, Life
  <2>. HIDE DEF r
  <2>4. p \notin Live(pdr)
    BY <2>2, FreshIsFree
  <2>5. \A n \in Live(pdr) \ {p} : ~SameRule(n, r)
    BY <2>2, <2>3, NameIsNew DEF SameRule
  <2>. QED
    BY <2>2, <2>3, <2>4, <2>5, SetQerNodes
<1>3. ASSUME NEW p \in Pdr, NEW a \in PdrMsg, NEW last \in LastQers(pdr[p], a),
             ReplacePdr(p, a, last)
      PROVE  QerNodesExact'
  <2> DEFINE q == Parsed(pdr[p], pdr[p].seid, pdr[p].id, a, last)
             r == Pointers(q, 4)
  <2>1. pdr[p] \in PdrType /\ pdr[p].st = "live" /\ p \in Live(pdr)
    BY <1>1, <1>3 DEF ReplacePdr, Live
  <2>2. r \in PdrType /\ r.st = "live" /\ r.seid = pdr[p].seid /\ r.id = pdr[p].id
    <3>1. pdr[p].seid \in Seid /\ pdr[p].id \in PdrId
      BY <2>1 DEF IInv, LiveNamed
    <3>. QED
      BY <2>1, <3>1, LastQersIs, ParsedIs DEF IInv
  <2>3. pdr[p].qers \subseteq r.qers
    <3>1. pdr[p].qers \subseteq q.qers
      BY <2>1 DEF Parsed, PdrType
    <3>2. q \in PdrType
      <4>1. a \in PdrMsgs
        BY ConstantsAssumption
      <4>2. last \in QerId \cup {None}
        BY <2>1, LastQersIs
      <4>3. pdr[p].seid \in Seid /\ pdr[p].id \in PdrId
        BY <2>1 DEF IInv, LiveNamed
      <4>4. Given(a.farId, pdr[p].farId) \in FarId \cup {None}
        BY <2>1, <4>1 DEF Given, PdrMsgs, PdrType
      <4>5. /\ pdr[p].qers \cup a.qers \in SUBSET QerId
            /\ pdr[p].urrs \cup a.urrs \in SUBSET UrrId
        BY <2>1, <4>1 DEF PdrMsgs, PdrType
      <4>. QED
        BY <2>1, <4>2, <4>3, <4>4, <4>5 DEF Parsed, PdrType
    <3>. HIDE DEF q
    <3>3. r.qers = q.qers
      BY <3>2 DEF Pointers, PdrType
    <3>. QED
      BY <3>1, <3>3
  <2>4. pdr' = [pdr EXCEPT ![p] = r] /\ LinkPdr(p, r, 4, {})
    BY <1>3 DEF ReplacePdr
  <2>. HIDE DEF q, r
  <2>5. SameRule(p, r) /\ \A n \in Live(pdr) \ {p} : ~SameRule(n, r)
    BY <2>1, <2>2 DEF SameRule, IInv, NamesUnique
  <2>. QED
    BY <2>1, <2>2, <2>3, <2>4, <2>5, SetQerNodes
<1>4. ASSUME NEW p \in Pdr, DelPdr(p)
      PROVE  QerNodesExact'
  <2>1. /\ pdr[p] \in PdrType /\ p \in Live(pdr)
        /\ pdr' = [pdr EXCEPT ![p] = Dying(pdr[p])]
        /\ relQer' = DelRelated(relQer, pdr[p], pdr[p].qers)
    BY <1>1, <1>4 DEF DelPdr, Live
  <2>2. Live(pdr') = Live(pdr) \ {p}
    BY <2>1, DyingIs, LiveAfter
  <2>3. /\ SameRule(p, pdr[p])
        /\ \A n \in Live(pdr) \ {p} : ~SameRule(n, pdr[p])
    BY <2>1 DEF SameRule, IInv, NamesUnique
  <2>4. ASSUME NEW b \in Buckets
        PROVE  relQer'[b] = IF b \in BucketsOf(pdr[p], pdr[p].qers) THEN relQer[b] \ {p}
                            ELSE relQer[b]
    BY <2>1, <2>3, DelQerNode
  <2>5. \A x \in Live(pdr) \ {p} : pdr'[x] = pdr[x]
    BY <1>1, <2>1 DEF Live
  <2>. QED
    <3> DEFINE B(x) == BucketsOf(pdr[x], pdr[x].qers)
               C(x) == BucketsOf(pdr'[x], pdr'[x].qers)
    <3>1. \A x \in Live(pdr) \ {p} : C(x) = B(x)
      BY <2>5
    <3>2. \A b \in Buckets : relQer[b] = {x \in Live(pdr) : b \in B(x)}
      BY DEF QerNodesExact
    <3>3. \A b \in Buckets : relQer'[b] = IF b \in B(p) THEN relQer[b] \ {p} ELSE relQer[b]
      BY <2>4
    <3>. SUFFICES ASSUME NEW b \in Buckets
                  PROVE  relQer'[b] = {x \in Live(pdr') : b \in C(x)}
      BY DEF QerNodesExact
    <3>. HIDE DEF B, C
    <3>4. ASSUME NEW x
          PROVE  x \in relQer'[b] <=> x \in Live(pdr') /\ b \in C(x)
      <4>1. x \in relQer[b] <=> x \in Live(pdr) /\ b \in B(x)
        BY <3>2
      <4>2. x \in relQer'[b] <=> x \in relQer[b] /\ ~(b \in B(p) /\ x = p)
        BY <3>3
      <4>3. CASE x = p
        BY <2>2, <4>1, <4>2, <4>3
      <4>4. CASE x # p
        BY <2>2, <3>1, <4>1, <4>2, <4>4
      <4>. QED
        BY <4>3, <4>4
    <3>. QED
      BY <3>4
<1>5. ASSUME NEW p, NEW s, NEW i, NEW a, NEW last, NEW at
      PROVE  ~CreatePdrFails(p, s, i, a, last, at) /\ ~ReplacePdrFails(p, a, last, at)
  BY DEF CreatePdrFails, ReplacePdrFails
<1>. QED
  BY <1>2, <1>3, <1>4, <1>5 DEF PdrHandler

LEMMA OtherQerNodes ==
  ASSUME IInv, QerNodesExact, RuleHandler \/ Packet \/ Callback \/ Fault \/ UNCHANGED vars
  PROVE  QerNodesExact'
<1>1. pdr \in [Pdr -> PdrType]
  BY DEF IInv, TypeOK
<1>2. relQer' = relQer
  BY DEF RuleHandler, CreateFar, ReplaceFar, ReplaceFarFails, DelFar, FarContextDelete,
         CreateQer, ReplaceQer, DelQer, Packet, RxLookup, RxLoadFar, RxDone,
         Callback, FreePdr, FreeFar, FreeQer, Fault, CreatePdrOops, ReplacePdrOops,
         DelPdrOops, WalkOops, RxOops, FillOops, Oops, vars, tables
<1>3. CASE pdr' = pdr
  BY <1>2, <1>3, KeepQerNodes
<1>4. ASSUME NEW s, NEW i, NEW g, PointPdrs(s, i, g)
      PROVE  QerNodesExact'
  <2>1. \A x \in Pdr : pdr'[x].seid = pdr[x].seid /\ pdr'[x].qers = pdr[x].qers
    BY <1>1, <1>4 DEF PointPdrs, PdrType
  <2>2. Live(pdr') = Live(pdr) /\ Live(pdr) \subseteq Pdr
    BY <1>1, <1>4, PointPdrsKeeps DEF Live
  <2>. QED
    BY <1>2, <2>1, <2>2, KeepQerNodes
<1>5. ASSUME NEW c \in Cpu, RxDone(c)
      PROVE  QerNodesExact'
  <2>1. pdr' = [x \in Pdr |-> [pdr[x] EXCEPT !.wait = @ \ {c}]]
    BY <1>1, <1>5 DEF RxDone
  <2>2. \A x \in Pdr : /\ pdr'[x].st = pdr[x].st /\ pdr'[x].seid = pdr[x].seid
                       /\ pdr'[x].qers = pdr[x].qers
    BY <1>1, <2>1 DEF PdrType
  <2>3. Live(pdr') = Live(pdr) /\ Live(pdr) \subseteq Pdr
    BY <1>1, <2>1, <2>2 DEF Live
  <2>. QED
    BY <1>2, <2>2, <2>3, KeepQerNodes
<1>6. ASSUME NEW p \in Pdr, FreePdr(p)
      PROVE  QerNodesExact'
  <2>1. pdr[p].st # "live" /\ pdr' = [pdr EXCEPT ![p] = NoPdr]
    BY <1>6 DEF FreePdr, Expired
  <2>2. p \notin Live(pdr) /\ Live(pdr') = Live(pdr) \ {p}
    BY <2>1, EmptyPdr, LiveAfter DEF Live
  <2>3. \A x \in Live(pdr) : pdr'[x] = pdr[x]
    BY <1>1, <2>1, <2>2 DEF Live
  <2>. QED
    BY <1>2, <2>2, <2>3, KeepQerNodes
<1>7. CASE RuleHandler
  <2>1. CASE pdr' = pdr
    BY <1>3, <2>1
  <2>2. CASE \E s, i, g : PointPdrs(s, i, g)
    BY <1>4, <2>2
  <2>3. pdr' = pdr \/ \E s, i, g : PointPdrs(s, i, g)
    BY <1>7 DEF RuleHandler, CreateFar, ReplaceFar, ReplaceFarFails, DelFar,
                FarContextDelete, CreateQer, ReplaceQer, DelQer
  <2>. QED
    BY <2>1, <2>2, <2>3
<1>8. CASE Packet
  <2>1. pdr' = pdr \/ \E c \in Cpu : RxDone(c)
    BY <1>8 DEF Packet, RxLookup, RxLoadFar
  <2>. QED
    BY <1>3, <1>5, <2>1
<1>9. CASE Callback
  <2>1. pdr' = pdr \/ \E p \in Pdr : FreePdr(p)
    BY <1>9 DEF Callback, FreeFar, FreeQer
  <2>. QED
    BY <1>3, <1>6, <2>1
<1>10. CASE Fault \/ UNCHANGED vars
  <2>1. pdr' = pdr
    BY <1>10 DEF Fault, CreatePdrOops, ReplacePdrOops, DelPdrOops, WalkOops, RxOops,
                 FillOops, Oops, vars
  <2>. QED
    BY <1>3, <2>1
<1>. QED
  BY <1>7, <1>8, <1>9, <1>10

\* While no step of pdr_fill fails, the nodes of the QER table are the live
\* PDRs that name a QER of the bucket, whatever ids later messages add to a
\* PDR and whichever ids share a bucket.
THEOREM QerNodesAreExact == ~MayFail => (Spec => []QerNodesExact)
<1>. SUFFICES ASSUME ~MayFail PROVE Spec => []QerNodesExact
  OBVIOUS
<1>1. Init => QerNodesExact
  BY DEF Init, QerNodesExact, Live, NoPdr
<1>2. IInv /\ QerNodesExact /\ [Next]_vars => QerNodesExact'
  BY PdrHandlerQerNodes, OtherQerNodes DEF Next
<1>. QED
  BY <1>1, <1>2, InitIInv, StepIInv, PTL DEF Spec

=============================================================================
