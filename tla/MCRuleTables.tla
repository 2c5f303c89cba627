---------------------------- MODULE MCRuleTables ----------------------------
(***************************************************************************)
(* Small devices for TLC.  Two buckets make collisions and moves between   *)
(* buckets happen; a second PDR address lets a stale node outlive its PDR  *)
(* while the same (seid, id) is created anew.                              *)
(***************************************************************************)
EXTENDS RuleTables, TLC

MCBuckets == {0, 1}

\* Ids 1 and 2 fall into different buckets, ids 1 and 3 into the same one.
MCKeyHash == [k \in Seid \X RuleIds |-> (k[1] + k[2]) % 2]
MCAddrHash == [v \in Teid \cup UeAddr |-> v % 2]

Msg(f, qs, us, prec, teid, ue) ==
  [farId |-> f, qers |-> qs, urrs |-> us, prec |-> prec, teid |-> teid, ue |-> ue]

\* FAR linkage: every message selects one of two FARs.
FarMsgs == {Msg(f, {1}, UrrId, 1, 1, None) : f \in FarId}

\* QER lists that grow, alone and together.
QerMsgs == {Msg(1, qs, us, 1, 1, None) :
              qs \in {s \in SUBSET QerId : Cardinality(s) \in 1..2}, us \in SUBSET UrrId}

\* Detection lists: a message sets the precedence and at most one of F-TEID
\* and UE address, so a PDR gets both, or a new one, from a later message.
\* One message uses a second TEID of the same bucket, one sets neither, and
\* two more lack the ids that pdr_fill relies on.
ListMsgs ==
  {Msg(1, {1}, {}, prec, 1, None) : prec \in Prec}
  \cup {Msg(1, {1}, {}, prec, None, ue) : prec \in Prec, ue \in UeAddr}
  \cup {Msg(1, {1}, {}, 1, 3, None), Msg(1, {1}, {}, 2, None, None)}
  \cup {Msg(None, {1}, {}, 1, 1, None), Msg(1, {}, {}, 1, 1, None)}

\* One instance checks the lists and the QER nodes.
TableMsgs == ListMsgs \cup QerMsgs

\* Its bound: QERs, and QER ids other than 1, come with at most two PDRs, all
\* on one list; three PDRs on changing lists all name QER 1, which is absent.
InUse(table) == {x \in DOMAIN table : table[x].st # "free"}
ListsOrQers ==
  \/ /\ InUse(qer) = {} /\ \A p \in Pdr : pdr[p].qers \subseteq {1}
     /\ \A c \in Cpu : rx[c] = Idle
  \/ /\ Cardinality(InUse(pdr)) <= 2
     /\ \A p \in InUse(pdr) : pdi[p].prec = 1 /\ pdi[p].teid = 1 /\ pdi[p].ue = None
     /\ \A c \in Cpu : rx[c] # Idle => Cardinality(InUse(pdr)) = 1 /\ pdr[rx[c].pdr].qers = {1}

Symmetric ==
  Permutations(Pdr) \cup Permutations(Far) \cup Permutations(Qer) \cup Permutations(PdrId)
=============================================================================
