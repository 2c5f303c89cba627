---------------------------- MODULE MCGenlRules ----------------------------
EXTENDS GenlRules

\* Up to three rules in a bucket, one in the other, an id in both.
MCName == {<<1, 1>>, <<1, 2>>, <<1, 3>>, <<2, 2>>}
MCKeyHash == [name \in Name |-> name[1] - 1]

\* Three FARs, but no dump of them while the link is deleted; of the other kinds
\* two rules at a time, in one bucket or in two and then perhaps of one id.
KindHasItsRules ==
  IF kind = "far"
  THEN link.dev = "up" \/ dump.at = "off"
  ELSE /\ \A n \in Rule : rule[n].name # <<1, 3>>
       /\ \E n \in Rule : rule[n] = NoRule
=============================================================================
