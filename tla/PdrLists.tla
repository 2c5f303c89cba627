------------------------------ MODULE PdrLists ------------------------------
(***************************************************************************)
(* The packet-detection lists of a gtp5g device, as pure operators.        *)
(*                                                                         *)
(* A bucket of i_teid_hash or addr_hash is an hlist of PDRs.  The code     *)
(* keeps each bucket in ascending order of precedence, so that the first   *)
(* entry a lookup accepts is the one that precedence selects.  Here a      *)
(* bucket is a sequence of PDR addresses, and prec gives the precedence    *)
(* stored in each PDR.                                                     *)
(***************************************************************************)
EXTENDS Naturals, Sequences, SequencesExt, FiniteSetsExt

\* The entries the insertion loop has to pass: those of strictly smaller
\* precedence.  It stops at the first entry that is not one of them.
Stops(s, p, prec) == {k \in 1..Len(s) : prec[p] <= prec[s[k]]}

\* The loop with its comparison the wrong way round.
Mut_InsertDescending(s, p, prec) ==
  LET stops == {k \in 1..Len(s) : prec[s[k]] <= prec[p]}
  IN  InsertAt(s, IF stops = {} THEN Len(s) + 1 ELSE Min(stops), p)

\* A bucket after hlist_add_head_rcu (no entry passed) or
\* hlist_add_behind_rcu (behind the last entry passed).
SortedInsert(s, p, prec) ==
  LET stops == Stops(s, p, prec)
  IN  InsertAt(s, IF stops = {} THEN Len(s) + 1 ELSE Min(stops), p)

\* hlist_del_rcu: the list without p.
Unlist(s, p) == RemoveFirst(s, p)

\* The first entry of a bucket that a lookup accepts, none if it runs off
\* the end.
FirstMatch(s, accept, none) ==
  LET hits == {k \in 1..Len(s) : s[k] \in accept}
  IN  IF hits = {} THEN none ELSE s[Min(hits)]

Ascending(s, prec) == \A j, k \in 1..Len(s) : j < k => prec[s[j]] <= prec[s[k]]

NoRepeats(s) == \A j, k \in 1..Len(s) : s[j] = s[k] => j = k
=============================================================================
