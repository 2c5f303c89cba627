----------------------------- MODULE RuleTables -----------------------------
(***************************************************************************)
(* The rule tables of one gtp5g device: PDRs, FARs and QERs, the hash      *)
(* tables and pointers that connect them, and the life of their memory     *)
(* under RCU.                                                              *)
(*                                                                         *)
(* Three kinds of actor touch the tables.  Netlink handlers add, replace   *)
(* and delete rules; genl_mutex serialises them, so a handler is one       *)
(* action.  Packet handlers run on every CPU at the same time, inside an   *)
(* RCU read-side section, and follow PDR -> QER and PDR -> FAR pointers    *)
(* one load at a time.  RCU callbacks free a deleted object once every     *)
(* section that was open at its call_rcu has closed.                       *)
(*                                                                         *)
(* An object is an address.  Dereferencing an address that is not          *)
(* allocated, or unlinking a list node twice, is a kernel fault: fault     *)
(* records it and the model goes no further.                               *)
(***************************************************************************)
EXTENDS Naturals, FiniteSets, PdrLists

CONSTANTS
  Pdr, Far, Qer,                  \* addresses of struct pdr, far, qer
  Cpu,                            \* CPUs that handle packets
  Seid, PdrId, FarId, QerId, UrrId,
  Prec, Teid, UeAddr,
  Buckets,                        \* 0 .. hash_size - 1
  KeyHash,                        \* str_hashfn of "seid" + "id", mod hash_size
  AddrHash,                       \* u32_hashfn of a TEID or address, mod hash_size
  PdrMsg,                         \* the attributes an add-PDR message may carry
  MayFail,                        \* whether allocation, parsing and sockets can fail
  None

PdrMsgs ==
  [farId : FarId \cup {None}, qers : SUBSET QerId, urrs : SUBSET UrrId,
   prec : Prec \cup {None}, teid : Teid \cup {None}, ue : UeAddr \cup {None}]

RuleIds == FarId \cup QerId \cup UrrId

ASSUME ConstantsAssumption ==
  /\ None \notin Pdr \cup Far \cup Qer \cup Seid \cup PdrId \cup RuleIds
  /\ None \notin Prec \cup Teid \cup UeAddr
  /\ Prec \subseteq Nat
  /\ KeyHash \in [Seid \X RuleIds -> Buckets]
  /\ AddrHash \in [Teid \cup UeAddr -> Buckets]
  /\ PdrMsg \subseteq PdrMsgs
  /\ MayFail \in BOOLEAN

VARIABLES
  pdr,        \* address -> identity, rule references and RCU state
  pdi,        \* address -> precedence, PDI and the two list nodes
  far, qer,   \* address -> identity and RCU state
  relFar, relQer, relUrr,         \* bucket -> PDRs that have a pdr_node in it
  teidHash, addrHash,             \* bucket -> list of PDRs
  rx,         \* CPU -> what the packet handler holds
  leaked,     \* a handler has returned holding rtnl_lock
  fault       \* the first kernel fault, or "none"

tables == <<relFar, relQer, relUrr>>
lists == <<pdi, teidHash, addrHash>>
vars == <<pdr, far, qer, tables, lists, rx, leaked, fault>>

\* An object is "free" (not allocated), "live" (linked in its id hash) or
\* "dying" (unlinked, its RCU callback pending).
Life == {"free", "live", "dying"}

NoPdr == [st |-> "free", wait |-> {}, seid |-> None, id |-> None,
          farId |-> None, far |-> None, qers |-> {}, last |-> None,
          qer |-> None, urrs |-> {}]
NoPdi == [prec |-> 0, teid |-> None, ue |-> None,
          teidNode |-> "unhashed", addrNode |-> "unhashed"]
NoRule == [st |-> "free", wait |-> {}, seid |-> None, id |-> None]
Idle == [pdr |-> None, far |-> None]

PdrType ==
  [st : Life, wait : SUBSET Cpu, seid : Seid \cup {None}, id : PdrId \cup {None},
   farId : FarId \cup {None}, far : Far \cup {None}, qers : SUBSET QerId,
   last : QerId \cup {None}, qer : Qer \cup {None}, urrs : SUBSET UrrId]
NodeState == {"unhashed", "hashed", "poisoned"}
PdiType ==
  [prec : Nat, teid : Teid \cup {None}, ue : UeAddr \cup {None},
   teidNode : NodeState, addrNode : NodeState]
RuleType(ids) ==
  [st : Life, wait : SUBSET Cpu, seid : Seid \cup {None}, id : ids \cup {None}]

TypeOK ==
  /\ pdr \in [Pdr -> PdrType]
  /\ pdi \in [Pdr -> PdiType]
  /\ far \in [Far -> RuleType(FarId)]
  /\ qer \in [Qer -> RuleType(QerId)]
  /\ relFar \in [Buckets -> SUBSET Pdr]
  /\ relQer \in [Buckets -> SUBSET Pdr]
  /\ relUrr \in [Buckets -> SUBSET Pdr]
  /\ teidHash \in [Buckets -> Seq(Pdr)]
  /\ addrHash \in [Buckets -> Seq(Pdr)]
  /\ rx \in [Cpu -> [pdr : Pdr \cup {None}, far : Far \cup {None}]]
  /\ leaked \in BOOLEAN
  /\ fault \in {"none", "use-after-free", "null", "poison"}

Init ==
  /\ pdr = [p \in Pdr |-> NoPdr]
  /\ pdi = [p \in Pdr |-> NoPdi]
  /\ far = [f \in Far |-> NoRule]
  /\ qer = [q \in Qer |-> NoRule]
  /\ relFar = [b \in Buckets |-> {}]
  /\ relQer = [b \in Buckets |-> {}]
  /\ relUrr = [b \in Buckets |-> {}]
  /\ teidHash = [b \in Buckets |-> <<>>]
  /\ addrHash = [b \in Buckets |-> <<>>]
  /\ rx = [c \in Cpu |-> Idle]
  /\ leaked = FALSE
  /\ fault = "none"

-----------------------------------------------------------------------------
\* Identity and lookup

Live(table) == {x \in DOMAIN table : table[x].st = "live"}
Named(table, s, i) == {x \in Live(table) : table[x].seid = s /\ table[x].id = i}

\* find_pdr_by_id, find_far_by_id, find_qer_by_id.
Find(table, s, i) ==
  IF Named(table, s, i) = {} THEN None ELSE CHOOSE x \in Named(table, s, i) : TRUE

\* The CPUs that call_rcu has to wait for.
Readers == {c \in Cpu : rx[c].pdr # None}

\* kfree where call_rcu belongs.
Mut_Dying(r) == [r EXCEPT !.st = "dying", !.wait = {}]

\* call_rcu: the object stays allocated until these readers are done.
Dying(r) == [r EXCEPT !.st = "dying", !.wait = Readers]

\* kzalloc returns memory that nothing refers to.  Real memory may be handed
\* out while a stale reference to it survives; keeping such an address out
\* of use keeps the stale reference recognisable.
FreshPdr(p) ==
  /\ pdr[p].st = "free"
  /\ \A b \in Buckets : p \notin relFar[b] \cup relQer[b] \cup relUrr[b]
FreshFar(f) ==
  /\ far[f].st = "free"
  /\ \A p \in Pdr : pdr[p].far # f
FreshQer(q) ==
  /\ qer[q].st = "free"
  /\ \A p \in Pdr : pdr[p].qer # q

-----------------------------------------------------------------------------
\* The related tables: bucket -> pdr_nodes, as sets of PDRs.  A PDR has one
\* FAR id, so a bucket never holds two nodes of one (seid, id); when several
\* QER or URR ids of a PDR share a bucket it has a node there for each, which
\* are added and dropped together and here are one member.

Bucket(s, i) == KeyHash[s, i]
BucketsOf(r, ids) == {Bucket(r.seid, i) : i \in ids}
SameRule(n, r) == pdr[n].seid = r.seid /\ pdr[n].id = r.id

\* A node whose PDR has been freed.  Walking over it is a use after free.
Dangling(rel, b) == \E n \in rel[b] : pdr[n].st = "free"

\* del_related_*_hash for rule r: in the bucket of each id that r names NOW,
\* the node of r's (seid, id) is removed.
DelRelated(rel, r, ids) ==
  [b \in Buckets |->
     IF b \in BucketsOf(r, ids)
     THEN {n \in rel[b] : pdr[n].st = "free" \/ ~SameRule(n, r)}
     ELSE rel[b]]

\* The search in del_related_*_hash stops at the node it looks for, and the
\* order of a bucket is abstracted: a dangling node behind it is not read.
MayWalkFreed(rel, r, ids) == \E b \in BucketsOf(r, ids) : Dangling(rel, b)
MustWalkFreed(rel, r, ids) ==
  \E b \in BucketsOf(r, ids) :
    /\ Dangling(rel, b)
    /\ \A n \in rel[b] : pdr[n].st = "free" \/ ~SameRule(n, r)

\* The new nodes go in before the old ones are dropped.
Mut_SetPdr(rel, p, r, ids, added) ==
  DelRelated([b \in Buckets |->
                IF b \in BucketsOf(r, added) THEN rel[b] \cup {p} ELSE rel[b]], r, ids)

\* far_set_pdr, qer_set_pdr, urr_set_pdr: drop the old nodes, add new ones.
\* added = ids unless an allocation fails on the way.
SetPdr(rel, p, r, ids, added) ==
  LET cleaned == DelRelated(rel, r, ids)
  IN  [b \in Buckets |->
         IF b \in BucketsOf(r, added) THEN cleaned[b] \cup {p} ELSE cleaned[b]]

-----------------------------------------------------------------------------
\* Detection lists

AfterDel(node) == IF node = "unhashed" THEN node ELSE "poisoned"
Given(new, old) == IF new = None THEN old ELSE new

\* An update that does not take the PDR off its old list.
Mut_Unlisted(hash, p) == hash

Unlisted(hash, p) == [b \in Buckets |-> Unlist(hash[b], p)]
Listed(hash, p, key, prec) ==
  [hash EXCEPT ![AddrHash[key]] = SortedInsert(@, p, prec)]

\* pdr_context_delete's part: both nodes off their lists.
UnhashLists(p) ==
  /\ teidHash' = Unlisted(teidHash, p)
  /\ addrHash' = Unlisted(addrHash, p)
  /\ pdi' = [pdi EXCEPT ![p].teidNode = AfterDel(@), ![p].addrNode = AfterDel(@)]

\* pdr_update_hlist_table: both nodes off their lists, then onto the list of
\* the F-TEID if there is one, else onto the list of the UE address.
UpdateLists(p, a) ==
  LET old == pdi[p]
      teid == Given(a.teid, old.teid)
      ue == Given(a.ue, old.ue)
      prec == Given(a.prec, old.prec)
      byTeid == teid # None
      byAddr == teid = None /\ ue # None
      precOf == [x \in Pdr |-> IF x = p THEN prec ELSE pdi[x].prec]
      teidRest == Unlisted(teidHash, p)
      addrRest == Unlisted(addrHash, p)
  IN  /\ pdi' = [pdi EXCEPT ![p] =
                   [prec |-> prec, teid |-> teid, ue |-> ue,
                    teidNode |-> IF byTeid THEN "hashed" ELSE AfterDel(old.teidNode),
                    addrNode |-> IF byAddr THEN "hashed" ELSE AfterDel(old.addrNode)]]
      /\ teidHash' = IF byTeid THEN Listed(teidRest, p, teid, precOf) ELSE teidRest
      /\ addrHash' = IF byAddr THEN Listed(addrRest, p, ue, precOf) ELSE addrRest

\* hlist_unhashed is false of a node that hlist_del_rcu has poisoned, so the
\* next unlink of that node writes through the poison.
Poisoned(p) == "poisoned" \in {pdi[p].teidNode, pdi[p].addrNode}

-----------------------------------------------------------------------------
\* PDR handlers

\* The attribute loop of pdr_fill.  Rule ids accumulate; last is the QER id
\* that ends up at the end of qer_ids.
Parsed(old, s, i, a, last) ==
  [old EXCEPT !.seid = s, !.id = i, !.farId = Given(a.farId, @),
              !.qers = @ \cup a.qers, !.last = last, !.urrs = @ \cup a.urrs]

LastQers(old, a) ==
  IF a.qers \subseteq old.qers THEN {old.last} ELSE a.qers \ old.qers

\* The steps of pdr_fill that can fail, in their order; 4 is the socket,
\* after every table.  Pointers(r, at): which pointers are set by then.
Steps == 1..4
Pointers(r, at) ==
  [r EXCEPT !.far = IF at >= 1 THEN Find(far, r.seid, r.farId) ELSE @,
            !.qer = IF at = 4 THEN Find(qer, r.seid, r.last) ELSE @]

LinkUpTo(rel, p, r, ids, step, at, part) ==
  IF at < step THEN rel
  ELSE SetPdr(rel, p, r, ids, IF at = step THEN part ELSE ids)

\* The three related tables when pdr_fill gets as far as step at, whose own
\* loop has added the nodes of part.
LinkPdr(p, r, at, part) ==
  /\ relFar' = LinkUpTo(relFar, p, r, {r.farId}, 1, at, part)
  /\ relUrr' = LinkUpTo(relUrr, p, r, r.urrs, 2, at, part)
  /\ relQer' = LinkUpTo(relQer, p, r, r.qers, 3, at, part)

\* The ids whose nodes may have been added when step at fails.
Partial(r, at) ==
  CASE at = 2 -> SUBSET r.urrs \ {r.urrs}
    [] at = 3 -> SUBSET r.qers \ {r.qers}
    [] OTHER -> {{}}

WalksFreed(r) ==
  \/ MustWalkFreed(relFar, r, {r.farId})
  \/ MustWalkFreed(relUrr, r, r.urrs)
  \/ MustWalkFreed(relQer, r, r.qers)
CanWalkFreed(r) ==
  \/ MayWalkFreed(relFar, r, {r.farId})
  \/ MayWalkFreed(relUrr, r, r.urrs)
  \/ MayWalkFreed(relQer, r, r.qers)

Running == fault = "none"
\* The add handlers take rtnl_lock.
AddReady == Running /\ ~leaked

CreatePdr(p, s, i, a, last) ==
  /\ AddReady
  /\ Find(pdr, s, i) = None
  /\ a.prec # None
  /\ FreshPdr(p)
  /\ LET r == [Pointers(Parsed(NoPdr, s, i, a, last), 4) EXCEPT !.st = "live"]
     IN  /\ r.farId # None
         /\ r.qers # {}
         /\ ~WalksFreed(r)
         /\ pdr' = [pdr EXCEPT ![p] = r]
         /\ LinkPdr(p, r, 4, {})
  /\ UpdateLists(p, a)
  /\ UNCHANGED <<far, qer, rx, leaked, fault>>

\* An error after the attribute loop: pdr_context_delete frees the new PDR
\* and leaves the nodes it already has.  (An error in the loop leaves none.)
CreatePdrFails(p, s, i, a, last, at) ==
  /\ MayFail
  /\ AddReady
  /\ Find(pdr, s, i) = None
  /\ a.prec # None
  /\ FreshPdr(p)
  /\ LET r == Pointers(Parsed(NoPdr, s, i, a, last), at)
     IN  /\ r.farId # None
         /\ at = 4 => r.qers # {}
         /\ ~WalksFreed(r)
         /\ pdr' = [pdr EXCEPT ![p] = Dying(r)]
         /\ \E part \in Partial(r, at) :
              LinkPdr(p, r, at, part)
  /\ UNCHANGED <<lists, far, qer, rx, leaked, fault>>

ReplacePdr(p, a, last) ==
  /\ AddReady
  /\ pdr[p].st = "live"
  /\ ~Poisoned(p)
  /\ LET r == Pointers(Parsed(pdr[p], pdr[p].seid, pdr[p].id, a, last), 4)
     IN  /\ ~WalksFreed(r)
         /\ pdr' = [pdr EXCEPT ![p] = r]
         /\ LinkPdr(p, r, 4, {})
  /\ UpdateLists(p, a)
  /\ UNCHANGED <<far, qer, rx, leaked, fault>>

\* On this path the handler returns without rcu_read_unlock and rtnl_unlock.
\* at = 0 is an error in the attribute loop, a being what it had applied.
ReplacePdrFails(p, a, last, at) ==
  /\ MayFail
  /\ AddReady
  /\ pdr[p].st = "live"
  /\ ~Poisoned(p)
  /\ LET r == Pointers(Parsed(pdr[p], pdr[p].seid, pdr[p].id, a, last), at)
     IN  /\ at > 0 => ~WalksFreed(r)
         /\ pdr' = [pdr EXCEPT ![p] = Dying(r)]
         /\ \E part \in Partial(r, at) :
              LinkPdr(p, r, at, part)
  /\ UnhashLists(p)
  /\ leaked' = TRUE
  /\ UNCHANGED <<far, qer, rx, fault>>

\* A delete that forgets the QER nodes.
Mut_DelPdr(p) ==
  /\ Running
  /\ pdr[p].st = "live"
  /\ ~Poisoned(p)
  /\ ~WalksFreed(pdr[p])
  /\ relUrr' = DelRelated(relUrr, pdr[p], pdr[p].urrs)
  /\ relFar' = DelRelated(relFar, pdr[p], {pdr[p].farId})
  /\ pdr' = [pdr EXCEPT ![p] = Dying(@)]
  /\ UnhashLists(p)
  /\ UNCHANGED <<relQer, far, qer, rx, leaked, fault>>

DelPdr(p) ==
  /\ Running
  /\ pdr[p].st = "live"
  /\ ~Poisoned(p)
  /\ ~WalksFreed(pdr[p])
  /\ relUrr' = DelRelated(relUrr, pdr[p], pdr[p].urrs)
  /\ relQer' = DelRelated(relQer, pdr[p], pdr[p].qers)
  /\ relFar' = DelRelated(relFar, pdr[p], {pdr[p].farId})
  /\ pdr' = [pdr EXCEPT ![p] = Dying(@)]
  /\ UnhashLists(p)
  /\ UNCHANGED <<far, qer, rx, leaked, fault>>

-----------------------------------------------------------------------------
\* FAR and QER handlers

\* The PDRs in a FAR's bucket that name it.
Waiting(s, i) == {n \in relFar[Bucket(s, i)] : pdr[n].seid = s /\ pdr[n].farId = i}

\* The walk of far_update and far_context_delete.
PointPdrs(s, i, f) ==
  /\ ~Dangling(relFar, Bucket(s, i))
  /\ pdr' = [n \in Pdr |->
               IF n \in Waiting(s, i) THEN [pdr[n] EXCEPT !.far = f] ELSE pdr[n]]

\* An add that does not look for a FAR of the same id.
Mut_CreateFar(f, s, i) ==
  /\ AddReady
  /\ FreshFar(f)
  /\ PointPdrs(s, i, f)
  /\ far' = [far EXCEPT ![f] = [st |-> "live", wait |-> {}, seid |-> s, id |-> i]]
  /\ UNCHANGED <<qer, tables, lists, rx, leaked, fault>>

\* far_fill ends with far_update, before far_append.  (An error in far_fill
\* leaves the tables as they are: nothing points to the new FAR yet.)
CreateFar(f, s, i) ==
  /\ AddReady
  /\ Find(far, s, i) = None
  /\ FreshFar(f)
  /\ PointPdrs(s, i, f)
  /\ far' = [far EXCEPT ![f] = [st |-> "live", wait |-> {}, seid |-> s, id |-> i]]
  /\ UNCHANGED <<qer, tables, lists, rx, leaked, fault>>

ReplaceFar(f) ==
  /\ AddReady
  /\ far[f].st = "live"
  /\ PointPdrs(far[f].seid, far[f].id, f)
  /\ UNCHANGED <<far, qer, tables, lists, rx, leaked, fault>>

\* A delete that leaves the far pointers of the PDRs.
Mut_FarContextDelete(f) ==
  /\ far[f].st = "live"
  /\ far' = [far EXCEPT ![f] = Dying(@)]
  /\ UNCHANGED <<pdr, qer, tables, lists, rx, leaked, fault>>

FarContextDelete(f) ==
  /\ far[f].st = "live"
  /\ PointPdrs(far[f].seid, far[f].id, None)
  /\ far' = [far EXCEPT ![f] = Dying(@)]
  /\ UNCHANGED <<qer, tables, lists, rx, leaked, fault>>

DelFar(f) == Running /\ FarContextDelete(f)
ReplaceFarFails(f) == MayFail /\ AddReady /\ FarContextDelete(f)

\* qer_fill ends with qer_update, which refreshes the buffering sockets of
\* the PDRs in the bucket and no pointer.
CreateQer(q, s, i) ==
  /\ AddReady
  /\ Find(qer, s, i) = None
  /\ FreshQer(q)
  /\ ~Dangling(relQer, Bucket(s, i))
  /\ qer' = [qer EXCEPT ![q] = [st |-> "live", wait |-> {}, seid |-> s, id |-> i]]
  /\ UNCHANGED <<pdr, far, tables, lists, rx, leaked, fault>>

\* Returns without rcu_read_unlock and rtnl_unlock.
ReplaceQer(q) ==
  /\ AddReady
  /\ qer[q].st = "live"
  /\ ~Dangling(relQer, Bucket(qer[q].seid, qer[q].id))
  /\ leaked' = TRUE
  /\ UNCHANGED <<pdr, far, qer, tables, lists, rx, fault>>

DelQer(q) ==
  /\ Running
  /\ qer[q].st = "live"
  /\ ~Dangling(relQer, Bucket(qer[q].seid, qer[q].id))
  /\ qer' = [qer EXCEPT ![q] = Dying(@)]
  /\ UNCHANGED <<pdr, far, tables, lists, rx, leaked, fault>>

-----------------------------------------------------------------------------
\* Packet handlers: a lookup, then loads through the PDR, under RCU

Allocated(table, x) == x # None => table[x].st # "free"

\* pdr_find_by_gtp1u or pdr_find_by_ipv4.  An SDF filter may turn down any
\* entry, so every listed PDR can be the result.
RxLookup(c, p) ==
  /\ Running
  /\ rx[c] = Idle
  /\ \E b \in Buckets : p \in ToSet(teidHash[b]) \cup ToSet(addrHash[b])
  /\ rx' = [rx EXCEPT ![c].pdr = p]
  /\ UNCHANGED <<pdr, far, qer, tables, lists, leaked, fault>>

\* The handler takes the id for the pointer.
Mut_RxLoadFar(c) ==
  /\ Running
  /\ rx[c].pdr # None
  /\ rx[c].far = None
  /\ pdr[rx[c].pdr].st # "free"
  /\ rx' = [rx EXCEPT ![c].far = pdr[rx[c].pdr].farId]
  /\ UNCHANGED <<pdr, far, qer, tables, lists, leaked, fault>>

\* rcu_dereference(pdr->far); the FAR is used until the handler returns.
RxLoadFar(c) ==
  /\ Running
  /\ rx[c].pdr # None
  /\ rx[c].far = None
  /\ pdr[rx[c].pdr].st # "free"
  /\ pdr[rx[c].pdr].far # None
  /\ rx' = [rx EXCEPT ![c].far = pdr[rx[c].pdr].far]
  /\ UNCHANGED <<pdr, far, qer, tables, lists, leaked, fault>>

\* End of the read-side section.
RxDone(c) ==
  LET Released(table) == [x \in DOMAIN table |-> [table[x] EXCEPT !.wait = @ \ {c}]]
  IN  /\ Running
      /\ rx[c].pdr # None
      /\ rx' = [rx EXCEPT ![c] = Idle]
      /\ pdr' = Released(pdr)
      /\ far' = Released(far)
      /\ qer' = Released(qer)
      /\ UNCHANGED <<tables, lists, leaked, fault>>

\* RCU callbacks.
Expired(r) == r.st = "dying" /\ r.wait = {}

FreePdr(p) ==
  /\ Running
  /\ Expired(pdr[p])
  /\ pdr' = [pdr EXCEPT ![p] = NoPdr]
  /\ pdi' = [pdi EXCEPT ![p] = NoPdi]
  /\ UNCHANGED <<far, qer, tables, teidHash, addrHash, rx, leaked, fault>>

FreeFar(f) ==
  /\ Running
  /\ Expired(far[f])
  /\ far' = [far EXCEPT ![f] = NoRule]
  /\ UNCHANGED <<pdr, qer, tables, lists, rx, leaked, fault>>

FreeQer(q) ==
  /\ Running
  /\ Expired(qer[q])
  /\ qer' = [qer EXCEPT ![q] = NoRule]
  /\ UNCHANGED <<pdr, far, tables, lists, rx, leaked, fault>>

-----------------------------------------------------------------------------
\* Faults

Oops(kind) ==
  /\ Running
  /\ fault' = kind
  /\ UNCHANGED <<pdr, pdi, far, qer, tables, teidHash, addrHash, rx, leaked>>

\* pdr_fill dereferences far_id, walks the related tables, then reads
\* qer_ids[qer_num - 1]; a PDR message without a FAR id or a QER id faults.
FillOops(r) ==
  \/ r.farId = None /\ Oops("null")
  \/ r.farId # None /\ CanWalkFreed(r) /\ Oops("use-after-free")
  \/ r.farId # None /\ ~WalksFreed(r) /\ r.qers = {} /\ Oops("null")

CreatePdrOops(s, i, a) ==
  /\ AddReady
  /\ Find(pdr, s, i) = None
  /\ a.prec # None
  /\ FillOops(Parsed(NoPdr, s, i, a, None))

ReplacePdrOops(p, a) ==
  LET r == Parsed(pdr[p], pdr[p].seid, pdr[p].id, a, None)
  IN  /\ AddReady
      /\ pdr[p].st = "live"
      /\ \/ FillOops(r)
         \/ ~WalksFreed(r) /\ Poisoned(p) /\ Oops("poison")

DelPdrOops(p) ==
  /\ pdr[p].st = "live"
  /\ \/ CanWalkFreed(pdr[p]) /\ Oops("use-after-free")
     \/ ~WalksFreed(pdr[p]) /\ Poisoned(p) /\ Oops("poison")

\* The FAR, QER and URR handlers walk one bucket from end to end.
WalkOops(s) ==
  /\ AddReady
  /\ \/ \E i \in FarId : Dangling(relFar, Bucket(s, i))
     \/ \E i \in QerId : Dangling(relQer, Bucket(s, i))
     \/ \E i \in UrrId : Dangling(relUrr, Bucket(s, i))
  /\ Oops("use-after-free")

\* A packet handler reads its PDR, then the PDR's FAR or QER.
RxOops(c) ==
  /\ rx[c].pdr # None
  /\ \/ ~Allocated(pdr, rx[c].pdr)
     \/ ~Allocated(far, pdr[rx[c].pdr].far)
     \/ ~Allocated(far, rx[c].far)
     \/ ~Allocated(qer, pdr[rx[c].pdr].qer)
  /\ Oops("use-after-free")

-----------------------------------------------------------------------------
PdrHandler ==
  \/ \E p \in Pdr, s \in Seid, i \in PdrId, a \in PdrMsg :
       \E last \in LastQers(NoPdr, a) :
         \/ CreatePdr(p, s, i, a, last)
         \/ \E at \in Steps : CreatePdrFails(p, s, i, a, last, at)
  \/ \E p \in Pdr, a \in PdrMsg :
       \E last \in LastQers(pdr[p], a) :
         \/ ReplacePdr(p, a, last)
         \/ \E at \in Steps \cup {0} : ReplacePdrFails(p, a, last, at)
  \/ \E p \in Pdr : DelPdr(p)

RuleHandler ==
  \/ \E f \in Far, s \in Seid, i \in FarId : CreateFar(f, s, i)
  \/ \E f \in Far : ReplaceFar(f) \/ ReplaceFarFails(f) \/ DelFar(f)
  \/ \E q \in Qer, s \in Seid, i \in QerId : CreateQer(q, s, i)
  \/ \E q \in Qer : ReplaceQer(q) \/ DelQer(q)

Packet ==
  \E c \in Cpu :
    \/ \E p \in Pdr : RxLookup(c, p)
    \/ RxLoadFar(c)
    \/ RxDone(c)

Callback ==
  \/ \E p \in Pdr : FreePdr(p)
  \/ \E f \in Far : FreeFar(f)
  \/ \E q \in Qer : FreeQer(q)

Fault ==
  \/ \E s \in Seid, i \in PdrId, a \in PdrMsg : CreatePdrOops(s, i, a)
  \/ \E p \in Pdr, a \in PdrMsg : ReplacePdrOops(p, a)
  \/ \E p \in Pdr : DelPdrOops(p)
  \/ \E s \in Seid : WalkOops(s)
  \/ \E c \in Cpu : RxOops(c)

Next == PdrHandler \/ RuleHandler \/ Packet \/ Callback \/ Fault

Spec == Init /\ [][Next]_vars

-----------------------------------------------------------------------------
\* Properties

\* Find is a function of the name: the id hash never holds two rules of one
\* (seid, id), so get, delete and the far pointers all mean the same rule.
NamesUnique ==
  /\ \A p, o \in Live(pdr) : pdr[p].seid = pdr[o].seid /\ pdr[p].id = pdr[o].id => p = o
  /\ \A f, g \in Live(far) : far[f].seid = far[g].seid /\ far[f].id = far[g].id => f = g

\* Whatever order FARs and PDRs are added, replaced and deleted in, a live
\* PDR points to the live FAR that its far_id names, and to no FAR when
\* there is none (far_update, far_context_delete and pdr_fill together).
FarLinkExact ==
  \A p \in Live(pdr) : pdr[p].far = Find(far, pdr[p].seid, pdr[p].farId)

\* Every live PDR has a node in the bucket of the FAR it names now, so the
\* next add or delete of that FAR reaches it (far_set_pdr).
NodePerPdr == \A p \in Live(pdr) : p \in relFar[Bucket(pdr[p].seid, pdr[p].farId)]

\* A packet handler that holds a PDR can load its FAR at any moment, however
\* the handlers interleave, and keep using it: neither has been freed.
RxFarSafe ==
  \A c \in Cpu : rx[c].pdr # None =>
    /\ Allocated(pdr, rx[c].pdr)
    /\ Allocated(far, pdr[rx[c].pdr].far)
    /\ Allocated(far, rx[c].far)

\* The live PDRs that lookups by TEID and by UE address are meant to find.
ByTeid(t) == {p \in Live(pdr) : pdi[p].teid = t}
ByAddr(u) == {p \in Live(pdr) : pdi[p].teid = None /\ pdi[p].ue = u}

\* A lookup returns a PDR of the least precedence value among all live PDRs
\* that have the TEID (or the UE address and no F-TEID), and finds one
\* whenever there is one (pdr_update_hlist_table with the two lookups).
FindsPrecedent ==
  LET Best(list, from) ==
        LET hit == FirstMatch(list, from, None)
        IN  IF from = {} THEN hit = None
            ELSE hit \in from /\ \A p \in from : pdi[hit].prec <= pdi[p].prec
  IN  /\ \A t \in Teid : Best(teidHash[AddrHash[t]], ByTeid(t))
      /\ \A u \in UeAddr : Best(addrHash[AddrHash[u]], ByAddr(u))

\* A list holds live PDRs only, each once, and no PDR is on two lists.
ListsDisjoint ==
  LET all == [l \in {"teid", "addr"} \X Buckets |->
                IF l[1] = "teid" THEN teidHash[l[2]] ELSE addrHash[l[2]]]
  IN  \A l \in DOMAIN all :
        /\ NoRepeats(all[l])
        /\ ToSet(all[l]) \subseteq Live(pdr)
        /\ \A m \in DOMAIN all : m # l => ToSet(all[l]) \cap ToSet(all[m]) = {}

\* The nodes of the QER table are exactly the live PDRs that name a QER of
\* the bucket: ids are only ever added to a PDR, so del_related_qer_hash
\* finds every node.  Holds while no step of pdr_fill fails.
QerNodesExact ==
  \A b \in Buckets :
    relQer[b] = {p \in Live(pdr) : b \in BucketsOf(pdr[p], pdr[p].qers)}

\* "PDR list waiting the FAR to handle" (include/dev.h:29): what waits for a
\* FAR in related_far_hash is a PDR, not memory that used to be one.
NodesWaitForFar == \A b \in Buckets : ~Dangling(relFar, b)

\* "Update PDRs which has not linked to this QER" (genl_qer.c:343): once the
\* QER that ends a live PDR's qer_ids exists, the PDR is linked to it.
QerLinked ==
  \A p \in Live(pdr) :
    LET q == Find(qer, pdr[p].seid, pdr[p].last) IN q # None => pdr[p].qer = q
=============================================================================
