--------------------------- MODULE GenlRulesProofs ---------------------------
(***************************************************************************)
(* Proofs about netlink requests on the rules of one kind, for every set   *)
(* of rules, names and buckets, every hash and every message size: the id  *)
(* hash is exact, handlers use memory that is allocated, and dumps report  *)
(* each rule once.                                                         *)
(***************************************************************************)
EXTENDS GenlRules, TLAPS

-----------------------------------------------------------------------------
\* The inductive invariant: the buckets

Named == \A n \in Rule : rule[n].st # "free" => rule[n].name \in Name

\* Links and heads lead to live rules, of their own bucket.
Linked ==
  /\ \A n \in Live : rule[n].next # None =>
       rule[n].next \in Live /\ Bucket(rule[n].next) = Bucket(n)
  /\ \A b \in Buckets : head[b] # None => head[b] \in Live /\ Bucket(head[b]) = b

\* At most one link or head leads to a rule.
LedToOnce ==
  /\ \A m, n \in Live : m # n => rule[m].next = None \/ rule[m].next # rule[n].next
  /\ \A n \in Live, b \in Buckets : rule[n].next # None => rule[n].next # head[b]

\* A walk from its head comes to each live rule of a bucket.
Reached == \A n \in Live : n \in Chain(head[Bucket(n)])

NamesUnique == \A m, n \in Live : m # n => rule[m].name # rule[n].name

TableInv == Named /\ Linked /\ LedToOnce /\ Reached /\ NamesUnique

-----------------------------------------------------------------------------
\* The inductive invariant: what handlers and the teardown hold

\* Only a teardown leaves rules to their callbacks.
NoneDying == link.dev = "up" => \A n \in Rule : rule[n].st # "dying"

\* The callback of a rule that a handler has found waits for the handler.
SectionHolds ==
  InSection => /\ req.rule \in Rule
               /\ \/ rule[req.rule].st \in {"live", "out"}
                  \/ rule[req.rule].st = "dying" /\ rule[req.rule].wait

\* Without a teardown a dump stands on a live rule of its bucket.
WalkHolds ==
  link.dev = "up" /\ req.op = "dump" /\ req.rule # None =>
    req.rule \in Live /\ Bucket(req.rule) = req.bucket

FaultStops == fault # "none" => link.dev # "up" /\ req = NoReq /\ dump = NoDump
CutStands == link.cut # "no" => link.dev = "sweep" /\ link.rule # None

\* An unlink works on a rule that is on its bucket until it takes it out, and
\* two that overlap on different rules.
WindowsHold ==
  /\ req.cut # "no" => req.op = "del"
  /\ req.cut = "loaded" => req.rule \in Live
  /\ req.cut = "out" => req.rule \in Rule /\ rule[req.rule].st = "out"
  /\ link.cut = "loaded" => link.rule \in Live
  /\ link.cut = "out" => link.rule \in Rule /\ rule[link.rule].st = "out"
  /\ req.cut \in Open /\ link.cut \in Open => req.rule # link.rule

HoldInv == NoneDying /\ SectionHolds /\ WalkHolds /\ FaultStops /\ CutStands /\ WindowsHold

-----------------------------------------------------------------------------
\* The inductive invariant: how far a dump is

Followed == dump.at = "open" /\ dump.sound

DumpOff == dump.at = "off" => dump = [NoDump EXCEPT !.wrong = dump.wrong] /\ req.op # "dump"

\* As long as a dump is followed the link stays and ids tell rules apart.
FollowedHolds ==
  /\ Followed => link.dev = "up" /\ Apart
  /\ dump.due # None => Followed /\ dump.due \in Live

\* Between its calls the dump has a rule to go on with, which its bucket and
\* id denote; a call that looks for that rule has not passed it.
ResumeHolds ==
  Followed =>
    /\ req.op # "dump" => dump.last # None
    /\ req.op = "dump" /\ req.skip # 0 =>
         /\ dump.last # None /\ req.skip = dump.id /\ req.bucket = dump.bucket
         /\ dump.last \in Chain(req.rule)
    /\ dump.last # None =>
         dump.last \in Live /\ Bucket(dump.last) = dump.bucket /\ IdOf(dump.last) = dump.id

\* The bucket and the rule that the dump reports next.
AtBucket == IF req.op = "dump" THEN req.bucket ELSE dump.bucket
AtRule == IF req.op = "dump" /\ req.skip = 0 THEN req.rule ELSE dump.last

\* A rule has been reported if and only if the dump is past it.
ReportedIsPast ==
  dump.due # None =>
    (dump.times = 1 <=> \/ Bucket(dump.due) < AtBucket
                        \/ Bucket(dump.due) = AtBucket /\ dump.due \notin Chain(AtRule))

DumpInv == DumpOff /\ FollowedHolds /\ ResumeHolds /\ ReportedIsPast /\ DumpExact

IInv == TypeOK /\ TableInv /\ HoldInv /\ DumpInv

-----------------------------------------------------------------------------
\* Walks

\* What a walk along the links r comes to from n.
ClosedIn(r, S) == \A m \in S : r[m].next \in S \cup {None}
ChainIn(r, n) == {m \in Rule : \A S \in SUBSET Rule : n \in S \cup {None} /\ ClosedIn(r, S) => m \in S}

LEMMA ChainIs ==
  /\ \A n : Chain(n) = ChainIn(rule, n)
  /\ \A n : Chain(n)' = ChainIn(rule', n)
  BY DEF Chain, Closed, ChainIn, ClosedIn

LEMMA ChainLeast ==
  ASSUME NEW r, NEW n, NEW S \in SUBSET Rule, n \in S \cup {None}, ClosedIn(r, S)
  PROVE  ChainIn(r, n) \subseteq S
  BY DEF ChainIn

\* A walk comes to where it begins, and goes on from wherever it comes to.
LEMMA ChainClosed ==
  ASSUME NEW r \in [Rule -> RuleType], NEW n \in Rule \cup {None}
  PROVE  /\ ChainIn(r, n) \in SUBSET Rule
         /\ ClosedIn(r, ChainIn(r, n))
         /\ n # None => n \in ChainIn(r, n)
<1>1. ChainIn(r, n) \in SUBSET Rule
  BY DEF ChainIn
<1>2. n # None => n \in ChainIn(r, n)
  BY DEF ChainIn
<1>3. ASSUME NEW m \in ChainIn(r, n), r[m].next # None
      PROVE  r[m].next \in ChainIn(r, n)
  <2>1. m \in Rule
    BY DEF ChainIn
  <2>2. r[m].next \in Rule
    BY <1>3, <2>1 DEF RuleType
  <2>3. ASSUME NEW S \in SUBSET Rule, n \in S \cup {None}, ClosedIn(r, S)
        PROVE  r[m].next \in S
    <3>1. m \in S
      BY <2>3 DEF ChainIn
    <3>. QED
      BY <1>3, <2>3, <3>1 DEF ClosedIn
  <2>. QED
    BY <2>2, <2>3 DEF ChainIn
<1>. QED
  BY <1>1, <1>2, <1>3 DEF ClosedIn

LEMMA ChainOfNone == ASSUME NEW r PROVE ChainIn(r, None) = {}
<1>1. ClosedIn(r, {})
  BY DEF ClosedIn
<1>. QED
  BY <1>1, ChainLeast

\* One step of a walk.
LEMMA ChainStep ==
  ASSUME NEW r \in [Rule -> RuleType], NEW n \in Rule
  PROVE  ChainIn(r, n) = {n} \cup ChainIn(r, r[n].next)
<1> DEFINE x == r[n].next
           C == ChainIn(r, x)
<1>0. x \in Rule \cup {None} /\ n # None
  BY GenlAssumption DEF RuleType
<1>1. C \in SUBSET Rule /\ ClosedIn(r, C) /\ (x # None => x \in C)
  BY <1>0, ChainClosed
<1>2. ChainIn(r, n) \in SUBSET Rule /\ ClosedIn(r, ChainIn(r, n)) /\ n \in ChainIn(r, n)
  BY <1>0, ChainClosed
<1>3. ChainIn(r, n) \subseteq {n} \cup C
  <2>1. ClosedIn(r, {n} \cup C)
    BY <1>1 DEF ClosedIn
  <2>. QED
    BY <1>1, <2>1, ChainLeast
<1>4. C \subseteq ChainIn(r, n)
  <2>1. x \in ChainIn(r, n) \cup {None}
    BY <1>2 DEF ClosedIn
  <2>. QED
    BY <1>2, <2>1, ChainLeast
<1>. QED
  BY <1>2, <1>3, <1>4

\* A walk comes to a rule by a link, or begins there.
LEMMA ChainComesBy ==
  ASSUME NEW r \in [Rule -> RuleType], NEW n \in Rule \cup {None},
         NEW m \in ChainIn(r, n), m # n
  PROVE  \E k \in ChainIn(r, n) : r[k].next = m
<1> DEFINE C == ChainIn(r, n)
<1>1. SUFFICES ASSUME \A k \in C : r[k].next # m PROVE FALSE
  OBVIOUS
<1>2. C \in SUBSET Rule /\ ClosedIn(r, C) /\ (n # None => n \in C)
  BY ChainClosed
<1>3. ClosedIn(r, C \ {m})
  BY <1>1, <1>2 DEF ClosedIn
<1>4. n \in (C \ {m}) \cup {None} /\ C \ {m} \in SUBSET Rule
  BY <1>2
<1>5. C \subseteq C \ {m}
  BY <1>3, <1>4, ChainLeast
<1>. QED
  BY <1>5

\* From a live rule, and from a head, a walk stays on live rules of the bucket.
LEMMA ChainInBucket ==
  ASSUME TypeOK, Linked
  PROVE  /\ \A n \in Live : Chain(n) \subseteq {m \in Live : Bucket(m) = Bucket(n)}
         /\ \A b \in Buckets : Chain(head[b]) \subseteq {m \in Live : Bucket(m) = b}
<1> DEFINE In(b) == {m \in Live : Bucket(m) = b}
<1>1. ASSUME NEW b PROVE In(b) \in SUBSET Rule /\ ClosedIn(rule, In(b))
  BY DEF Linked, Live, ClosedIn
<1>2. ASSUME NEW n \in Live PROVE Chain(n) \subseteq In(Bucket(n))
  <2>1. n \in In(Bucket(n)) \cup {None}
    OBVIOUS
  <2>. HIDE DEF In
  <2>. QED
    BY <1>1, <2>1, ChainLeast, ChainIs
<1>3. ASSUME NEW b \in Buckets PROVE Chain(head[b]) \subseteq In(b)
  <2>1. head[b] \in In(b) \cup {None}
    BY DEF Linked
  <2>. HIDE DEF In
  <2>. QED
    BY <1>1, <2>1, ChainLeast, ChainIs
<1>. QED
  BY <1>2, <1>3

\* The live rules of a bucket are what a walk from its head comes to.
LEMMA BucketIsChain ==
  ASSUME TypeOK, TableInv
  PROVE  \A b \in Buckets : Chain(head[b]) = {n \in Live : Bucket(n) = b}
<1>1. \A n \in Live : n \in Chain(head[Bucket(n)])
  BY DEF TableInv, Reached
<1>. QED
  BY <1>1, ChainInBucket DEF TableInv

\* Walks do not come back.
LEMMA NoCycle ==
  ASSUME TypeOK, TableInv, NEW n \in Live
  PROVE  n \notin Chain(rule[n].next)
<1> DEFINE x == rule[n].next
           C == Chain(x)
           b == Bucket(n)
           R == {m \in Live : Bucket(m) = b} \ C
<1>0. /\ rule \in [Rule -> RuleType] /\ n \in Rule /\ None \notin Rule
      /\ x \in Rule \cup {None} /\ b \in Buckets
  <2>1. rule \in [Rule -> RuleType] /\ n \in Rule /\ None \notin Rule
    BY GenlAssumption DEF TypeOK, Live
  <2>2. x \in Rule \cup {None}
    BY <2>1 DEF RuleType
  <2>3. rule[n].name \in Name
    BY DEF TableInv, Named, Live
  <2>. QED
    BY <2>1, <2>2, <2>3, GenlAssumption DEF Bucket
<1>1. SUFFICES ASSUME n \in C PROVE FALSE
  OBVIOUS
<1>2. C = ChainIn(rule, x) /\ C \in SUBSET Rule /\ ClosedIn(rule, C)
  BY <1>0, ChainIs, ChainClosed
<1>3. C \subseteq {m \in Live : Bucket(m) = b}
  <2>1. Chain(n) = {n} \cup C
    BY <1>0, ChainStep, ChainIs
  <2>2. Chain(n) \subseteq {m \in Live : Bucket(m) = b}
    BY ChainInBucket DEF TableInv
  <2>. QED
    BY <2>1, <2>2
<1>4. \A m \in C : \E k \in C : rule[k].next = m
  BY <1>0, <1>1, <1>2, ChainComesBy
<1>5. head[b] \in R \cup {None}
  <2>1. head[b] \notin C
    BY <1>0, <1>3, <1>4 DEF TableInv, LedToOnce, Linked, Live
  <2>2. head[b] # None => head[b] \in Live /\ Bucket(head[b]) = b
    BY <1>0 DEF TableInv, Linked
  <2>. QED
    BY <2>1, <2>2
<1>6. ClosedIn(rule, R)
  <2>1. SUFFICES ASSUME NEW m \in R, rule[m].next # None PROVE rule[m].next \in R
    BY DEF ClosedIn
  <2>2. rule[m].next \in Live /\ Bucket(rule[m].next) = b
    BY <2>1 DEF TableInv, Linked
  <2>3. rule[m].next \notin C
    BY <1>3, <1>4, <2>1, <2>2 DEF TableInv, LedToOnce
  <2>. QED
    BY <2>2, <2>3
<1>7. R \in SUBSET Rule
  BY DEF Live
<1>8. Chain(head[b]) \subseteq R
  <2>. HIDE DEF R
  <2>. QED
    BY <1>5, <1>6, <1>7, ChainLeast, ChainIs
<1>9. n \in Chain(head[b])
  BY DEF TableInv, Reached
<1>. QED
  BY <1>1, <1>8, <1>9

-----------------------------------------------------------------------------
\* What the operations do to the buckets

\* Live rules stay as they are, and no other comes.
SameLive ==
  /\ rule' \in [Rule -> RuleType]
  /\ head' = head
  /\ \A m \in Rule :
       /\ rule'[m].st = "live" <=> rule[m].st = "live"
       /\ rule[m].st = "live" => rule'[m].name = rule[m].name /\ rule'[m].next = rule[m].next
       /\ rule'[m].st # "free" => rule[m].st # "free" /\ rule'[m].name = rule[m].name

\* hlist_add_head_rcu of n under name.
Added(n, name) ==
  /\ n \in Rule /\ rule[n].st = "free"
  /\ rule' \in [Rule -> RuleType]
  /\ rule'[n].st = "live" /\ rule'[n].name = name /\ rule'[n].next = head[KeyHash[name]]
  /\ \A m \in Rule : m # n => rule'[m] = rule[m]
  /\ head'[KeyHash[name]] = n
  /\ \A b \in Buckets : b # KeyHash[name] => head'[b] = head[b]

\* hlist_del_rcu of n.
Removed(n) ==
  /\ n \in Live
  /\ rule' \in [Rule -> RuleType]
  /\ rule'[n].st # "live"
  /\ rule'[n].st # "free" => rule'[n].name = rule[n].name
  /\ \A m \in Rule : m # n =>
       /\ rule'[m].st = rule[m].st /\ rule'[m].name = rule[m].name
       /\ rule[m].st = "live" =>
            rule'[m].next = IF rule[m].next = n THEN rule[n].next ELSE rule[m].next
  /\ head'[Bucket(n)] = IF head[Bucket(n)] = n THEN rule[n].next ELSE head[Bucket(n)]
  /\ \A b \in Buckets : b # Bucket(n) => head'[b] = head[b]

\* Typing facts the lemmas share.
LEMMA TableTypes ==
  ASSUME TypeOK, TableInv
  PROVE  /\ rule \in [Rule -> RuleType] /\ None \notin Rule
         /\ \A n \in Live : n \in Rule /\ rule[n].name \in Name /\ Bucket(n) \in Buckets
                            /\ rule[n].next \in Rule \cup {None}
         /\ \A b \in Buckets : head[b] \in Rule \cup {None}
         /\ \A name \in Name : KeyHash[name] \in Buckets
<1>1. rule \in [Rule -> RuleType] /\ None \notin Rule
  BY GenlAssumption DEF TypeOK
<1>2. \A n \in Rule : rule[n].next \in Rule \cup {None}
  BY <1>1 DEF RuleType
<1>3. \A n \in Live : n \in Rule /\ rule[n].name \in Name
  BY DEF Live, TableInv, Named
<1>4. \A name \in Name : KeyHash[name] \in Buckets
  BY GenlAssumption
<1>. QED
  BY <1>1, <1>2, <1>3, <1>4 DEF Bucket, TypeOK

\* A walk that stays on live rules is the same where these are.
LEMMA SameWalk ==
  ASSUME NEW r \in [Rule -> RuleType], NEW q \in [Rule -> RuleType],
         NEW n \in Rule \cup {None},
         \A m \in ChainIn(r, n) : q[m].next = r[m].next
  PROVE  ChainIn(q, n) = ChainIn(r, n)
<1>1. ChainIn(r, n) \in SUBSET Rule /\ ClosedIn(r, ChainIn(r, n)) /\ n \in ChainIn(r, n) \cup {None}
  BY ChainClosed
<1>2. ChainIn(q, n) \in SUBSET Rule /\ ClosedIn(q, ChainIn(q, n)) /\ n \in ChainIn(q, n) \cup {None}
  BY ChainClosed
<1>3. ClosedIn(q, ChainIn(r, n))
  BY <1>1 DEF ClosedIn
<1>4. ChainIn(q, n) \subseteq ChainIn(r, n)
  BY <1>1, <1>3, ChainLeast
<1>5. ClosedIn(r, ChainIn(q, n))
  BY <1>2, <1>4 DEF ClosedIn
<1>6. ChainIn(r, n) \subseteq ChainIn(q, n)
  BY <1>2, <1>5, ChainLeast
<1>. QED
  BY <1>4, <1>6

LEMMA SameLiveStep ==
  ASSUME TypeOK, TableInv, SameLive
  PROVE  /\ TableInv'
         /\ Live' = Live
         /\ \A n \in Live \cup {None} : Chain(n)' = Chain(n)
<1>0. rule \in [Rule -> RuleType] /\ rule' \in [Rule -> RuleType]
  BY TableTypes DEF SameLive
<1>1. Live' = Live
  BY DEF SameLive, Live
<1>2. \A n \in Live : /\ rule'[n].name = rule[n].name /\ rule'[n].next = rule[n].next
                      /\ Bucket(n)' = Bucket(n)
  BY DEF SameLive, Live, Bucket
<1>3. ASSUME NEW n \in Live \cup {None} PROVE Chain(n)' = Chain(n)
  <2>1. CASE n = None
    BY <2>1, ChainOfNone, ChainIs
  <2>2. CASE n \in Live
    <3>1. n \in Rule \cup {None} /\ Chain(n) \subseteq Live
      BY <2>2, ChainInBucket DEF TableInv, Live
    <3>2. \A m \in ChainIn(rule, n) : rule'[m].next = rule[m].next
      BY <1>2, <3>1, ChainIs
    <3>. QED
      BY <1>0, <3>1, <3>2, SameWalk, ChainIs
  <2>. QED
    BY <2>1, <2>2
<1>4. Named'
  BY DEF TableInv, Named, SameLive
<1>5. Linked'
  BY <1>1, <1>2 DEF TableInv, Linked, SameLive
<1>6. LedToOnce'
  BY <1>1, <1>2 DEF TableInv, LedToOnce, SameLive
<1>7. Reached'
  <2>1. ASSUME NEW n \in Live PROVE (n \in Chain(head[Bucket(n)]))'
    <3>1. head[Bucket(n)] \in Live \cup {None}
      BY TableTypes DEF TableInv, Linked
    <3>2. n \in Chain(head[Bucket(n)])
      BY DEF TableInv, Reached
    <3>3. head'[Bucket(n)'] = head[Bucket(n)]
      BY <1>2 DEF SameLive
    <3>. QED
      BY <1>3, <3>1, <3>2, <3>3, ChainIs
  <2>. QED
    BY <1>1, <2>1 DEF Reached
<1>8. NamesUnique'
  BY <1>1, <1>2 DEF TableInv, NamesUnique
<1>. QED
  BY <1>1, <1>3, <1>4, <1>5, <1>6, <1>7, <1>8 DEF TableInv

\* A new rule in front of its bucket.
LEMMA AddedStep ==
  ASSUME TypeOK, TableInv, NEW n, NEW name \in Name, Added(n, name),
         \A m \in Live : rule[m].name # name
  PROVE  /\ TableInv'
         /\ Live' = Live \cup {n}
         /\ n \notin Live
         /\ Bucket(n)' = KeyHash[name] /\ IdOf(n)' = name[2]
         /\ \A m \in Live : Bucket(m)' = Bucket(m) /\ IdOf(m)' = IdOf(m)
         /\ \A m \in Live \cup {None} : Chain(m)' = Chain(m)
<1> DEFINE b == KeyHash[name]
<1>0. /\ rule \in [Rule -> RuleType] /\ rule' \in [Rule -> RuleType] /\ n \in Rule
      /\ b \in Buckets /\ None \notin Rule
  BY TableTypes DEF Added
<1>1. Live' = Live \cup {n} /\ n \notin Live
  BY DEF Added, Live
<1>2. \A m \in Live : rule'[m] = rule[m] /\ Bucket(m)' = Bucket(m) /\ IdOf(m)' = IdOf(m)
  BY <1>1 DEF Added, Live, Bucket, IdOf
<1>3. Bucket(n)' = b /\ rule'[n].next = head[b] /\ head'[b] = n /\ rule'[n].name = name
      /\ IdOf(n)' = name[2]
  BY DEF Added, Bucket, IdOf
<1>4. \A c \in Buckets : c # b => head'[c] = head[c]
  BY DEF Added
<1>5. \A m \in Live : m \in Rule /\ Bucket(m) \in Buckets /\ rule[m].name \in Name
  BY TableTypes
<1>6. ASSUME NEW m \in Live \cup {None} PROVE Chain(m)' = Chain(m)
  <2>1. CASE m = None
    BY <2>1, ChainOfNone, ChainIs
  <2>2. CASE m \in Live
    <3>1. m \in Rule \cup {None} /\ Chain(m) \subseteq Live
      BY <2>2, ChainInBucket DEF TableInv, Live
    <3>2. \A k \in ChainIn(rule, m) : rule'[k].next = rule[k].next
      BY <1>2, <3>1, ChainIs
    <3>. QED
      BY <1>0, <3>1, <3>2, SameWalk, ChainIs
  <2>. QED
    BY <2>1, <2>2
<1>7. Named'
  BY <1>3 DEF TableInv, Named, Added
<1>8. head[b] # None => head[b] \in Live /\ Bucket(head[b]) = b
  BY <1>0 DEF TableInv, Linked
<1>9. Linked'
  <2>1. ASSUME NEW m \in Live, rule'[m].next # None
        PROVE  rule'[m].next \in Live /\ Bucket(rule'[m].next) = Bucket(m)
    BY <1>2, <2>1 DEF TableInv, Linked
  <2>2. ASSUME NEW m \in Live', rule'[m].next # None
        PROVE  (rule[m].next \in Live /\ Bucket(rule[m].next) = Bucket(m))'
    <3>1. CASE m = n
      BY <1>1, <1>2, <1>3, <1>8, <2>2, <3>1
    <3>2. CASE m # n
      BY <1>1, <1>2, <2>1, <2>2, <3>2
    <3>. QED
      BY <3>1, <3>2
  <2>3. ASSUME NEW c \in Buckets, head'[c] # None
        PROVE  (head[c] \in Live /\ Bucket(head[c]) = c)'
    <3>1. CASE c = b
      BY <1>1, <1>3, <3>1
    <3>2. CASE c # b
      <4>1. head[c] \in Live /\ Bucket(head[c]) = c
        BY <1>4, <2>3, <3>2 DEF TableInv, Linked
      <4>. QED
        BY <1>1, <1>2, <1>4, <3>2, <4>1
    <3>. QED
      BY <3>1, <3>2
  <2>. QED
    BY <2>2, <2>3 DEF Linked
<1>10. LedToOnce'
  <2>1. \A m \in Live, c \in Buckets : rule[m].next # None => rule[m].next # head[c] /\ rule[m].next \in Live
    BY DEF TableInv, LedToOnce, Linked
  <2>2. ASSUME NEW m \in Live', NEW k \in Live', m # k, rule'[m].next # None
        PROVE  rule'[m].next # rule'[k].next
    <3>1. CASE m # n /\ k # n
      BY <1>1, <1>2, <2>2, <3>1 DEF TableInv, LedToOnce
    <3>2. CASE m = n
      BY <1>0, <1>1, <1>2, <1>3, <2>1, <2>2, <3>2
    <3>3. CASE k = n
      BY <1>0, <1>1, <1>2, <1>3, <2>1, <2>2, <3>3
    <3>. QED
      BY <3>1, <3>2, <3>3
  <2>3. ASSUME NEW m \in Live', NEW c \in Buckets, rule'[m].next # None
        PROVE  rule'[m].next # head'[c]
    <3>1. CASE m = n
      <4>1. rule'[m].next = head[b] /\ head[b] \in Live
        BY <1>3, <1>8, <2>3, <3>1
      <4>2. CASE c = b
        BY <1>1, <1>3, <4>1, <4>2
      <4>3. CASE c # b
        BY <1>0, <1>4, <1>5, <1>8, <4>1, <4>3 DEF TableInv, Linked
      <4>. QED
        BY <4>2, <4>3
    <3>2. CASE m # n
      BY <1>1, <1>2, <1>3, <1>4, <2>1, <2>3, <3>2
    <3>. QED
      BY <3>1, <3>2
  <2>. QED
    BY <2>2, <2>3 DEF LedToOnce
<1>11. Reached'
  <2>1. ASSUME NEW c \in Buckets, c # b PROVE Chain(head[c])' = Chain(head[c])
    <3>1. head[c] \in Live \cup {None} /\ head'[c] = head[c]
      BY <1>4, <2>1 DEF TableInv, Linked
    <3>. QED
      BY <1>6, <3>1, ChainIs
  <2>2. Chain(head[b])' = {n} \cup Chain(head[b])
    <3>1. ChainIn(rule', n) = {n} \cup ChainIn(rule', head[b])
      BY <1>0, <1>3, ChainStep
    <3>2. ChainIn(rule', head[b]) = ChainIn(rule, head[b])
      BY <1>6, <1>8, ChainIs
    <3>. QED
      BY <1>3, <3>1, <3>2, ChainIs
  <2>3. ASSUME NEW m \in Live' PROVE (m \in Chain(head[Bucket(m)]))'
    <3>1. CASE m = n
      BY <1>3, <2>2, <3>1
    <3>2. CASE m # n
      <4>1. m \in Chain(head[Bucket(m)]) /\ Bucket(m)' = Bucket(m) /\ Bucket(m) \in Buckets
        BY <1>1, <1>2, <1>5, <3>2 DEF TableInv, Reached
      <4>. QED
        BY <2>1, <2>2, <4>1
    <3>. QED
      BY <3>1, <3>2
  <2>. QED
    BY <2>3 DEF Reached
<1>12. NamesUnique'
  BY <1>1, <1>2, <1>3 DEF TableInv, NamesUnique
<1>. QED
  BY <1>1, <1>2, <1>3, <1>6, <1>7, <1>9, <1>10, <1>11, <1>12 DEF TableInv

\* A rule that leaves its bucket.
LEMMA RemovedStep ==
  ASSUME TypeOK, TableInv, NEW n, Removed(n)
  PROVE  /\ TableInv'
         /\ Live' = Live \ {n}
         /\ \A m \in Live' : Bucket(m)' = Bucket(m) /\ IdOf(m)' = IdOf(m)
         /\ \A m \in Live' : Chain(m)' = Chain(m) \ {n}
         /\ Chain(None)' = {}
<1> DEFINE b == Bucket(n)
           x == rule[n].next
<1>0. /\ rule \in [Rule -> RuleType] /\ rule' \in [Rule -> RuleType] /\ n \in Rule /\ n \in Live
      /\ b \in Buckets /\ None \notin Rule
  BY TableTypes DEF Removed
<1>1. Live' = Live \ {n}
  BY DEF Removed, Live
<1>2. \A m \in Live' : /\ m \in Live /\ m # n /\ m \in Rule
                       /\ rule'[m].name = rule[m].name
                       /\ rule'[m].next = IF rule[m].next = n THEN x ELSE rule[m].next
                       /\ Bucket(m)' = Bucket(m) /\ IdOf(m)' = IdOf(m)
  BY DEF Removed, Live, Bucket, IdOf
<1>3. \A c \in Buckets : head'[c] = IF head[c] = n THEN x ELSE head[c]
  <2>1. \A c \in Buckets : head[c] = n => c = b
    BY <1>0 DEF TableInv, Linked
  <2>. QED
    BY <2>1 DEF Removed
<1>4. x # n /\ (x # None => x \in Live' /\ Bucket(x) = b)
  <2>1. n \notin Chain(x)
    BY <1>0, NoCycle
  <2>2. x # n
    BY <1>0, <2>1, ChainClosed, ChainIs
  <2>. QED
    BY <1>0, <1>1, <2>2 DEF TableInv, Linked
<1>5. \A m \in Live' : rule[m].next # None => rule[m].next \in Live /\ Bucket(rule[m].next) = Bucket(m)
  BY <1>2 DEF TableInv, Linked
<1>6. ASSUME NEW m \in Live' PROVE Chain(m)' = Chain(m) \ {n}
  <2> DEFINE C == ChainIn(rule, m)
             D == ChainIn(rule', m)
  <2>0. m \in Live /\ m \in Rule \cup {None} /\ m # None /\ m # n
    BY <1>0, <1>2
  <2>1. C \subseteq Live
    BY <2>0, ChainInBucket, ChainIs DEF TableInv
  <2>2. C \in SUBSET Rule /\ ClosedIn(rule, C) /\ m \in C
    BY <1>0, <2>0, ChainClosed
  <2>3. D \in SUBSET Rule /\ ClosedIn(rule', D) /\ m \in D
    BY <1>0, <2>0, ChainClosed
  <2>4. D \subseteq C \ {n}
    <3>1. \A k \in C \ {n} : k \in Live' /\ rule[k].next \in C \cup {None}
      BY <1>1, <2>1, <2>2 DEF ClosedIn
    <3>2. n \in C => x \in C \cup {None}
      BY <2>2 DEF ClosedIn
    <3>3. ClosedIn(rule', C \ {n})
      <4>. HIDE DEF C, x
      <4>. QED
        BY <1>0, <1>2, <1>4, <3>1, <3>2 DEF ClosedIn
    <3>4. m \in (C \ {n}) \cup {None} /\ C \ {n} \in SUBSET Rule
      BY <2>0, <2>2
    <3>. QED
      BY <3>3, <3>4, ChainLeast
  <2>5. C \ {n} \subseteq D
    <3> DEFINE T == D \cup {k \in {n} : \E p \in D : rule[p].next = n}
    <3>1. \A k \in D : k \in Live' /\ rule'[k].next \in D \cup {None}
      BY <1>1, <2>1, <2>3, <2>4 DEF ClosedIn
    <3>2. ASSUME NEW k \in T PROVE rule[k].next \in T \cup {None}
      <4>1. CASE k \in D
        <5>1. CASE rule[k].next = n
          BY <4>1, <5>1
        <5>2. CASE rule[k].next # n
          BY <1>2, <3>1, <4>1, <5>2
        <5>. QED
          BY <5>1, <5>2
      <4>2. CASE k = n /\ k \notin D
        <5>1. PICK p \in D : rule[p].next = n
          BY <4>2
        <5>2. rule'[p].next = x
          BY <1>2, <3>1, <5>1
        <5>. QED
          BY <3>1, <4>2, <5>2
      <4>. QED
        BY <4>1, <4>2
    <3>3. T \in SUBSET Rule /\ m \in T \cup {None}
      BY <1>0, <2>3
    <3>4. C \subseteq T
      <4>. HIDE DEF T
      <4>. QED
        BY <3>2, <3>3, ChainLeast DEF ClosedIn
    <3>. QED
      BY <3>4
  <2>. QED
    BY <2>4, <2>5, ChainIs
<1>7. Named'
  BY DEF TableInv, Named, Removed, Live
<1>8. Linked'
  <2>1. ASSUME NEW m \in Live', rule'[m].next # None
        PROVE  (rule[m].next \in Live /\ Bucket(rule[m].next) = Bucket(m))'
    <3>1. CASE rule[m].next = n
      <4>1. rule'[m].next = x /\ x \in Live' /\ Bucket(x) = b /\ Bucket(m) = b
        BY <1>0, <1>2, <1>4, <1>5, <2>1, <3>1
      <4>. QED
        BY <1>2, <4>1
    <3>2. CASE rule[m].next # n
      <4>1. rule'[m].next = rule[m].next /\ rule[m].next \in Live'
            /\ Bucket(rule[m].next) = Bucket(m)
        BY <1>1, <1>2, <1>5, <2>1, <3>2
      <4>. QED
        BY <1>2, <4>1
    <3>. QED
      BY <3>1, <3>2
  <2>2. ASSUME NEW c \in Buckets, head'[c] # None
        PROVE  (head[c] \in Live /\ Bucket(head[c]) = c)'
    <3>1. CASE head[c] = n
      <4>1. head'[c] = x /\ x \in Live' /\ Bucket(x) = b /\ c = b
        BY <1>0, <1>3, <1>4, <2>2, <3>1 DEF TableInv, Linked
      <4>. QED
        BY <1>2, <4>1
    <3>2. CASE head[c] # n
      <4>1. head'[c] = head[c] /\ head[c] \in Live' /\ Bucket(head[c]) = c
        BY <1>1, <1>3, <2>2, <3>2 DEF TableInv, Linked
      <4>. QED
        BY <1>2, <4>1
    <3>. QED
      BY <3>1, <3>2
  <2>. QED
    BY <2>1, <2>2 DEF Linked
<1>9. LedToOnce'
  <2>1. ASSUME NEW m \in Live', NEW k \in Live', m # k, rule'[m].next # None
        PROVE  rule'[m].next # rule'[k].next
    BY <1>0, <1>2, <2>1 DEF TableInv, LedToOnce
  <2>2. ASSUME NEW m \in Live', NEW c \in Buckets, rule'[m].next # None
        PROVE  rule'[m].next # head'[c]
    BY <1>0, <1>2, <1>3, <2>2 DEF TableInv, LedToOnce
  <2>. QED
    BY <2>1, <2>2 DEF LedToOnce
<1>10. Reached'
  <2>1. ASSUME NEW m \in Live' PROVE (m \in Chain(head[Bucket(m)]))'
    <3> DEFINE c == Bucket(m)
    <3>1. m \in Chain(head[c]) /\ c \in Buckets /\ Bucket(m)' = c /\ m # n
      BY <1>2, TableTypes DEF TableInv, Reached
    <3>2. head[c] \in Live
      <4>1. head[c] # None
        BY <3>1, ChainOfNone, ChainIs
      <4>. QED
        BY <3>1, <4>1 DEF TableInv, Linked
    <3>3. CASE head[c] = n
      <4>1. Chain(n) = {n} \cup Chain(x)
        BY <1>0, ChainStep, ChainIs
      <4>2. m \in Chain(x)
        BY <3>1, <3>3, <4>1
      <4>3. x \in Live'
        BY <1>4, <4>2, ChainOfNone, ChainIs
      <4>4. m \in ChainIn(rule', x)
        <5>. HIDE DEF x
        <5>. QED
          BY <1>6, <3>1, <4>2, <4>3, ChainIs
      <4>5. head'[c] = x
        BY <1>3, <3>1, <3>3
      <4>. QED
        BY <3>1, <4>4, <4>5, ChainIs
    <3>4. CASE head[c] # n
      <4>1. head'[c] = head[c] /\ head[c] \in Live'
        BY <1>1, <1>3, <3>1, <3>2, <3>4
      <4>2. m \in Chain(head[c])'
        BY <1>6, <3>1, <4>1, ChainIs
      <4>. QED
        BY <3>1, <4>1, <4>2, ChainIs
    <3>. QED
      BY <3>3, <3>4
  <2>. QED
    BY <2>1 DEF Reached
<1>11. NamesUnique'
  BY <1>2 DEF TableInv, NamesUnique
<1>. QED
  BY <1>1, <1>2, <1>6, <1>7, <1>8, <1>9, <1>10, <1>11, ChainOfNone, ChainIs DEF TableInv

-----------------------------------------------------------------------------
\* What the handlers find and change

LEMMA FoundIs ==
  ASSUME TypeOK, TableInv, NEW name \in Name
  PROVE  /\ Found(name) # None => Found(name) \in Live /\ rule[Found(name)].name = name
         /\ Found(name) = None => \A m \in Live : rule[m].name # name
<1> DEFINE named == {n \in Chain(head[KeyHash[name]]) : rule[n].name = name}
<1>1. Chain(head[KeyHash[name]]) = {n \in Live : Bucket(n) = KeyHash[name]}
  BY TableTypes, BucketIsChain
<1>2. named = {n \in Live : rule[n].name = name}
  BY <1>1 DEF Bucket
<1>3. Found(name) = IF named = {} THEN None ELSE CHOOSE n \in named : TRUE
  BY DEF Found
<1>4. None \notin named
  BY <1>2, GenlAssumption DEF Live
<1>. HIDE DEF named
<1>5. CASE named = {}
  BY <1>2, <1>3, <1>5
<1>6. CASE named # {}
  <2>1. Found(name) \in named
    BY <1>3, <1>6
  <2>. QED
    BY <1>2, <1>4, <2>1
<1>. QED
  BY <1>5, <1>6

LEMMA SectionEndedIs ==
  ASSUME NEW r \in [Rule -> RuleType]
  PROVE  /\ SectionEnded(r) \in [Rule -> RuleType]
         /\ \A m \in Rule : /\ SectionEnded(r)[m].st = r[m].st
                            /\ SectionEnded(r)[m].name = r[m].name
                            /\ SectionEnded(r)[m].next = r[m].next
  BY DEF SectionEnded, RuleType

LEMMA NoRuleIs ==
  NoRule \in RuleType /\ NoRule.st = "free" /\ NoRule.name = None /\ NoRule.next = None
  BY DEF NoRule, RuleType

\* The store of an unlink takes one rule out, and leaves it as it says.
LEMMA UnlinkIs ==
  ASSUME TypeOK, TableInv, NEW n \in Live, NEW as \in RuleType, Unlink(n, as),
         as.st # "live", as.st # "free" => as.name = rule[n].name
  PROVE  /\ Removed(n)
         /\ head' \in [Buckets -> Rule \cup {None}]
         /\ rule'[n] = as
         /\ \A m \in Rule : m # n => rule'[m].wait = rule[m].wait
<1> DEFINE U == Unlinked(n)
<1>0. /\ rule \in [Rule -> RuleType] /\ n \in Rule /\ n \in Live /\ None \notin Rule
      /\ rule[n].next \in Rule \cup {None} /\ Bucket(n) \in Buckets
  BY TableTypes
<1>1. rule' = [U EXCEPT ![n] = as]
  BY DEF Unlink
<1>2. /\ U \in [Rule -> RuleType]
      /\ \A m \in Rule : /\ U[m].st = rule[m].st /\ U[m].name = rule[m].name
                         /\ U[m].wait = rule[m].wait
                         /\ rule[m].st = "live" =>
                              U[m].next = IF rule[m].next = n THEN rule[n].next ELSE rule[m].next
  BY <1>0 DEF Unlinked, RuleType
<1>. HIDE DEF U
<1>3. rule' \in [Rule -> RuleType] /\ rule'[n] = as /\ \A m \in Rule : m # n => rule'[m] = U[m]
  BY <1>0, <1>1, <1>2
<1>4. head' = [head EXCEPT ![Bucket(n)] = IF head[Bucket(n)] = n THEN rule[n].next ELSE head[Bucket(n)]]
  BY DEF Unlink
<1>5. head' \in [Buckets -> Rule \cup {None}]
  BY <1>0, <1>4 DEF TypeOK
<1>6. Removed(n)
  <2>1. \A m \in Rule : m # n =>
       /\ rule'[m].st = rule[m].st /\ rule'[m].name = rule[m].name
       /\ rule[m].st = "live" =>
            rule'[m].next = IF rule[m].next = n THEN rule[n].next ELSE rule[m].next
    BY <1>2, <1>3
  <2>2. /\ head'[Bucket(n)] = IF head[Bucket(n)] = n THEN rule[n].next ELSE head[Bucket(n)]
        /\ \A b \in Buckets : b # Bucket(n) => head'[b] = head[b]
    BY <1>0, <1>4 DEF TypeOK
  <2>. QED
    BY <1>0, <1>3, <2>1, <2>2 DEF Removed
<1>. QED
  BY <1>2, <1>3, <1>5, <1>6

\* A delete and the sweep take a rule out; an add that failed frees it.
LEMMA TakeOutIs ==
  ASSUME TypeOK, TableInv, NEW n \in Live, TakeOut(n)
  PROVE  /\ Removed(n)
         /\ head' \in [Buckets -> Rule \cup {None}]
         /\ rule'[n].st = "out"
         /\ \A m \in Rule : m # n => rule'[m].wait = rule[m].wait
<1> DEFINE as == [rule[n] EXCEPT !.st = "out"]
<1>1. rule[n] \in RuleType
  BY TableTypes
<1>2. as \in RuleType /\ as.st = "out" /\ as.name = rule[n].name
  BY <1>1 DEF RuleType
<1>3. Unlink(n, as)
  BY DEF TakeOut
<1>. HIDE DEF as
<1>. QED
  BY <1>2, <1>3, UnlinkIs

LEMMA ContextDeleteIs ==
  ASSUME TypeOK, TableInv, NEW n \in Live, ContextDelete(n)
  PROVE  /\ Removed(n)
         /\ head' \in [Buckets -> Rule \cup {None}]
         /\ rule'[n].st = "free"
  BY NoRuleIs, UnlinkIs DEF ContextDelete

\* A rule that is out is left to its callback, or free at once.
LEMMA DeadIs ==
  ASSUME TypeOK, NEW n \in Rule, NEW section \in BOOLEAN
  PROVE  /\ Dead(n, section) \in RuleType
         /\ Dead(n, section).st = IF link.dev = "sweep" THEN "dying" ELSE "free"
         /\ link.dev = "sweep" => /\ Dead(n, section).wait = section
                                  /\ Dead(n, section).name = rule[n].name
<1>1. rule[n] \in RuleType
  BY DEF TypeOK
<1>2. CASE link.dev = "sweep"
  BY <1>1, <1>2 DEF Dead, RuleType
<1>3. CASE link.dev # "sweep"
  BY <1>3, NoRuleIs DEF Dead
<1>. QED
  BY <1>2, <1>3

\* No rule on a bucket changes when one that is out goes.
LEMMA DeadStep ==
  ASSUME TypeOK, NEW n \in Rule, rule[n].st = "out", NEW section \in BOOLEAN,
         NEW r, r = [rule EXCEPT ![n] = Dead(n, section)],
         rule' = r \/ rule' = SectionEnded(r), head' = head
  PROVE  /\ SameLive
         /\ rule'[n].st = IF link.dev = "sweep" THEN "dying" ELSE "free"
         /\ rule' = r /\ link.dev = "sweep" => rule'[n].wait = section
         /\ \A m \in Rule \ {n} : /\ rule'[m].st = rule[m].st
                                  /\ rule' = r => rule'[m].wait = rule[m].wait
<1>0. rule \in [Rule -> RuleType]
  BY DEF TypeOK
<1>1. /\ Dead(n, section) \in RuleType
      /\ Dead(n, section).st = IF link.dev = "sweep" THEN "dying" ELSE "free"
      /\ link.dev = "sweep" => /\ Dead(n, section).wait = section
                               /\ Dead(n, section).name = rule[n].name
  BY DeadIs
<1>2. r \in [Rule -> RuleType] /\ r[n] = Dead(n, section) /\ \A m \in Rule : m # n => r[m] = rule[m]
  BY <1>0, <1>1
<1>3. /\ rule' \in [Rule -> RuleType]
      /\ \A m \in Rule : rule'[m].st = r[m].st /\ rule'[m].name = r[m].name /\ rule'[m].next = r[m].next
  <2>1. CASE rule' = r
    BY <1>2, <2>1
  <2>2. CASE rule' = SectionEnded(r)
    <3>. QED
      BY <1>2, <2>2, SectionEndedIs
  <2>. QED
    BY <2>1, <2>2
<1>4. SameLive
  <2>1. \A m \in Rule : m # n => /\ rule'[m].st = rule[m].st /\ rule'[m].name = rule[m].name
                                 /\ rule'[m].next = rule[m].next
    BY <1>2, <1>3
  <2>2. rule'[n].st # "live" /\ (rule'[n].st # "free" => rule'[n].name = rule[n].name)
    BY <1>1, <1>2, <1>3
  <2>. QED
    BY <1>3, <2>1, <2>2 DEF SameLive
<1>. QED
  BY <1>1, <1>2, <1>3, <1>4

\* A new rule goes to an address that is free.
LEMMA AppendIs ==
  ASSUME TypeOK, TableInv, NEW name \in Name, Fresh # {}, Append(name)
  PROVE  /\ \E n \in Rule : Added(n, name)
         /\ head' \in [Buckets -> Rule \cup {None}]
<1> DEFINE n == CHOOSE m \in Fresh : TRUE
           b == KeyHash[name]
           new == [NoRule EXCEPT !.st = "live", !.name = name, !.next = head[b]]
<1>0. /\ rule \in [Rule -> RuleType] /\ b \in Buckets /\ head[b] \in Rule \cup {None}
      /\ head \in [Buckets -> Rule \cup {None}]
  BY TableTypes DEF TypeOK
<1>1. n \in Rule /\ rule[n].st = "free"
  BY DEF Fresh
<1>2. rule' = [rule EXCEPT ![n] = new] /\ head' = [head EXCEPT ![b] = n]
  BY DEF Append
<1>3. new \in RuleType /\ new.st = "live" /\ new.name = name /\ new.next = head[b]
  BY <1>0 DEF NoRule, RuleType
<1>. HIDE DEF n, new
<1>4. Added(n, name)
  BY <1>0, <1>1, <1>2, <1>3 DEF Added
<1>. QED
  BY <1>0, <1>1, <1>2, <1>4

-----------------------------------------------------------------------------
\* The steps

\* The ends of an add, whatever becomes of the lock.
AddEnds ==
  /\ Adding
  /\ req' = NoReq /\ rtnl' \in {"none", "leaked"} /\ badReplace' \in BOOLEAN
  /\ UNCHANGED <<kind, link, fault>>
AddKeeps == AddEnds /\ UNCHANGED <<table, dump>>
AddPuts(name) ==
  AddEnds /\ link.dev = "up" /\ Found(name) = None /\ Fresh # {} /\ Append(name)
AddTakes(name) ==
  AddEnds /\ link.dev = "up" /\ Found(name) # None /\ ContextDelete(Found(name))

\* A section that ends with nothing deleted.
SectionDone ==
  /\ Running /\ InSection
  /\ rule' = SectionEnded(rule)
  /\ req' = NoReq
  /\ UNCHANGED <<kind, head, dump, locks, link, fault>>

\* The faults: none comes before the teardown.
Faulted ==
  /\ link.dev # "up" /\ fault' \in {"use-after-free", "poison", "torn"}
  /\ rule' = [n \in Rule |-> NoRule] /\ head' = [b \in Buckets |-> None]
  /\ req' = NoReq /\ dump' = NoDump
  /\ link' = [NoLink EXCEPT !.dev = link.dev]
  /\ UNCHANGED <<kind, locks>>

AddStep == BeginAdd \/ AddKeeps \/ \E name \in Name : AddPuts(name) \/ AddTakes(name)
SectionStep ==
  \/ \E op \in {"del", "get"}, name \in Name : FindRule(op, name)
  \/ SectionDone \/ DeleteLoads \/ DeleteUnlinks \/ DeleteEnds
DumpStep ==
  \/ \E due \in Live \cup {None} : OpenDump(due)
  \/ ContinueDump \/ PassRule \/ FillRule \/ MessageFull \/ NextBucket
LinkStep ==
  \/ BeginDellink \/ SweepLoads \/ SweepUnlinks \/ SweepRule
  \/ SweepNext \/ SweepBucket \/ FreeArrays \/ EndDellink
  \/ \E n \in Rule : FreeRule(n)

LEMMA OopsIs ==
  ASSUME link.dev # "up", NEW f \in {"use-after-free", "poison", "torn"}, Oops(f)
  PROVE  Faulted
  BY DEF Oops, Faulted

LEMMA AddIs == ASSUME TypeOK, Add PROVE AddStep
<1>1. PICK name \in Name :
        AddPdr(name) \/ AddFar(name) \/ AddQer(name) \/ AddUrr(name) \/ AddBar(name)
  BY DEF Add
<1>2. UNCHANGED <<kind, link, fault>> /\ badReplace \in BOOLEAN
  BY DEF Add, TypeOK
<1>3. CASE Refuse
  BY <1>2, <1>3 DEF Refuse, Release, locks, AddEnds, AddKeeps, AddStep, Adding
<1>4. CASE Create(name)
  BY <1>2, <1>4 DEF Create, Release, locks, AddEnds, AddPuts, AddStep, Adding
<1>5. CASE Replacing(name) /\ Release /\ UNCHANGED <<table, dump>>
  BY <1>2, <1>5 DEF Replacing, Release, locks, AddEnds, AddKeeps, AddStep, Adding
<1>6. CASE Replacing(name) /\ Leak /\ UNCHANGED <<table, dump>>
  BY <1>2, <1>6 DEF Replacing, Leak, AddEnds, AddKeeps, AddStep, Adding
<1>7. CASE Replacing(name) /\ ContextDelete(Found(name)) /\ (Leak \/ Release)
  BY <1>2, <1>7 DEF Replacing, Leak, Release, locks, AddEnds, AddTakes, AddStep, Adding
<1>. QED
  BY <1>1, <1>3, <1>4, <1>5, <1>6, <1>7 DEF AddPdr, AddFar, AddQer, AddUrr, AddBar

LEMMA NextIs ==
  ASSUME TypeOK, HoldInv, Next
  PROVE  AddStep \/ SectionStep \/ DumpStep \/ LinkStep \/ Faulted
<1>1. CASE Request
  <2>1. CASE FindOops
    BY <2>1, OopsIs DEF FindOops
  <2>2. CASE BeginAdd
    BY <2>2 DEF AddStep
  <2>3. CASE \E op \in {"del", "get"}, name \in Name : FindRule(op, name)
    BY <2>3 DEF SectionStep
  <2>4. CASE ContinueDump \/ \E due \in IF Live = {} THEN {None} ELSE Live : OpenDump(due)
    BY <2>4 DEF DumpStep
  <2>. QED
    BY <1>1, <2>1, <2>2, <2>3, <2>4 DEF Request
<1>2. CASE Handler
  <2>1. CASE Add
    BY <2>1, AddIs
  <2>2. CASE Get \/ DeleteFails
    BY <2>2 DEF Get, DeleteFails, Deleting, Using, InSection, SectionDone, SectionStep
  <2>3. CASE DeleteLoads \/ DeleteUnlinks \/ DeleteEnds
    BY <2>3 DEF SectionStep
  <2>4. CASE DeleteOops
    <3>1. link.dev # "up"
      BY <2>4 DEF DeleteOops, Deleting, Using, HoldInv, NoneDying, SectionHolds, InSection
    <3>. QED
      BY <2>4, <3>1, OopsIs DEF DeleteOops
  <2>7. CASE DeleteTears
    <3>1. link.dev # "up"
      BY <2>7 DEF DeleteTears, HoldInv, CutStands, Open
    <3>. QED
      BY <2>7, <3>1, OopsIs DEF DeleteTears
  <2>5. CASE PassRule \/ FillRule \/ MessageFull \/ NextBucket
    BY <2>5 DEF DumpStep
  <2>6. CASE WalkOops
    <3>1. link.dev # "up"
      BY <2>6 DEF WalkOops, Walking, HoldInv, WalkHolds, Live
    <3>. QED
      BY <2>6, <3>1, OopsIs DEF WalkOops
  <2>. QED
    BY <1>2, <2>1, <2>2, <2>3, <2>4, <2>5, <2>6, <2>7
    DEF Handler, Delete, GetPdr, GetFar, GetQer, GetUrr, GetBar, DelPdr, DelFar, DelQer, DelUrr, DelBar,
        DumpPdr, DumpFar, DumpQer, DumpUrr, DumpBar, DumpCall
<1>3. CASE SweepOops
  <2>1. link.dev # "up"
    BY <1>3 DEF SweepOops, Sweeping
  <2>. QED
    BY <1>3, <2>1, OopsIs DEF SweepOops
<1>4. CASE BeginDellink \/ \E n \in Rule : FreeRule(n)
  BY <1>4 DEF LinkStep
<1>5. CASE Dellink /\ ~SweepOops
  BY <1>5 DEF Dellink, LinkStep
<1>. QED
  BY <1>1, <1>2, <1>3, <1>4, <1>5 DEF Next

\* The ends of the two unlinks.
LEMMA DeleteEndsIs ==
  ASSUME TypeOK, HoldInv, DeleteEnds
  PROVE  /\ SameLive /\ req.rule \in Rule
         /\ rule'[req.rule].st = IF link.dev = "sweep" THEN "dying" ELSE "free"
         /\ \A m \in Rule : m # req.rule => rule'[m].st = rule[m].st
<1>1. req.rule \in Rule /\ rule[req.rule].st = "out" /\ FALSE \in BOOLEAN
  BY DEF DeleteEnds, Deleting, HoldInv, WindowsHold
<1> DEFINE r == [rule EXCEPT ![req.rule] = Dead(req.rule, FALSE)]
<1>2. rule' = SectionEnded(r) /\ head' = head
  BY DEF DeleteEnds
<1>3. r = [rule EXCEPT ![req.rule] = Dead(req.rule, FALSE)]
  OBVIOUS
<1>. HIDE DEF r
<1>. QED
  BY <1>1, <1>2, <1>3, DeadStep

LEMMA SweepRuleIs ==
  ASSUME TypeOK, HoldInv, SweepRule
  PROVE  /\ SameLive /\ link.rule \in Rule /\ link.dev = "sweep"
         /\ rule'[link.rule].st = "dying" /\ rule'[link.rule].wait = InSection
         /\ \A m \in Rule \ {link.rule} : rule'[m].st = rule[m].st /\ rule'[m].wait = rule[m].wait
<1>1. link.rule \in Rule /\ rule[link.rule].st = "out" /\ link.dev = "sweep" /\ InSection \in BOOLEAN
  BY DEF SweepRule, SweepingRule, Sweeping, InSection, HoldInv, WindowsHold
<1>2. rule' = [rule EXCEPT ![link.rule] = Dead(link.rule, InSection)] /\ head' = head
  BY DEF SweepRule
<1>. QED
  BY <1>1, <1>2, DeadStep

\* The buckets in any step.
LEMMA TableNext ==
  ASSUME TypeOK, TableInv, HoldInv, [Next]_vars
  PROVE  /\ TableInv'
         /\ rule' \in [Rule -> RuleType]
         /\ head' \in [Buckets -> Rule \cup {None}]
<1>0. rule \in [Rule -> RuleType] /\ head \in [Buckets -> Rule \cup {None}]
  BY DEF TypeOK
<1>1. CASE UNCHANGED table
  <2>1. SameLive
    BY <1>0, <1>1 DEF SameLive, table
  <2>. QED
    BY <1>0, <1>1, <2>1, SameLiveStep DEF table
<1>2. CASE SameLive
  BY <1>0, <1>2, SameLiveStep DEF SameLive
<1>3. ASSUME NEW name \in Name, AddPuts(name)
      PROVE  TableInv' /\ rule' \in [Rule -> RuleType] /\ head' \in [Buckets -> Rule \cup {None}]
  <2>1. PICK n \in Rule : Added(n, name)
    BY <1>3, AppendIs DEF AddPuts
  <2>2. \A m \in Live : rule[m].name # name
    BY <1>3, FoundIs DEF AddPuts
  <2>. QED
    BY <1>3, <2>1, <2>2, AddedStep, AppendIs DEF AddPuts, Added
<1>4. ASSUME NEW n \in Live, ContextDelete(n) \/ TakeOut(n)
      PROVE  TableInv' /\ rule' \in [Rule -> RuleType] /\ head' \in [Buckets -> Rule \cup {None}]
  BY <1>4, ContextDeleteIs, TakeOutIs, RemovedStep DEF Removed
<1>5. CASE Faulted
  <2>1. rule' = [n \in Rule |-> NoRule] /\ head' = [b \in Buckets |-> None]
    BY <1>5 DEF Faulted
  <2>2. rule' \in [Rule -> RuleType] /\ head' \in [Buckets -> Rule \cup {None}]
    BY <2>1, NoRuleIs
  <2>3. Live' = {} /\ \A n \in Rule : rule'[n].st = "free"
    BY <2>1, NoRuleIs DEF Live
  <2>4. \A b \in Buckets : head'[b] = None
    BY <2>1
  <2>. QED
    BY <2>2, <2>3, <2>4 DEF TableInv, Named, Linked, LedToOnce, Reached, NamesUnique
<1>6. CASE AddStep
  <2>1. ASSUME NEW name \in Name, AddTakes(name) PROVE Found(name) \in Live
    BY <2>1, FoundIs DEF AddTakes
  <2>. QED
    BY <1>1, <1>3, <1>4, <1>6, <2>1 DEF AddStep, BeginAdd, AddKeeps, AddTakes
<1>7. CASE SectionStep
  <2>1. CASE SectionDone
    <3>1. SameLive
      BY <1>0, <2>1, SectionEndedIs DEF SectionDone, SameLive
    <3>. QED
      BY <1>2, <3>1
  <2>2. CASE DeleteUnlinks
    <3>1. req.rule \in Live /\ TakeOut(req.rule)
      BY <2>2 DEF DeleteUnlinks, Deleting, HoldInv, WindowsHold
    <3>. QED
      BY <1>4, <3>1
  <2>3. CASE DeleteEnds
    BY <1>2, <2>3, DeleteEndsIs
  <2>. QED
    BY <1>1, <1>7, <2>1, <2>2, <2>3 DEF SectionStep, FindRule, DeleteLoads
<1>8. CASE DumpStep
  BY <1>1, <1>8 DEF DumpStep, OpenDump, ContinueDump, PassRule, FillRule, MessageFull, NextBucket
<1>9. CASE LinkStep
  <2>1. CASE SweepUnlinks
    <3>1. link.rule \in Live /\ TakeOut(link.rule)
      BY <2>1 DEF SweepUnlinks, SweepingRule, HoldInv, WindowsHold
    <3>. QED
      BY <1>4, <3>1
  <2>2. ASSUME NEW n \in Rule, FreeRule(n) PROVE SameLive
    BY <1>0, <2>2, NoRuleIs DEF FreeRule, SameLive
  <2>3. CASE SweepRule
    BY <1>2, <2>3, SweepRuleIs
  <2>. QED
    BY <1>1, <1>2, <1>9, <2>1, <2>2, <2>3
    DEF LinkStep, BeginDellink, SweepLoads, SweepNext, SweepBucket, FreeArrays, EndDellink
<1>10. CASE UNCHANGED vars
  BY <1>1, <1>10 DEF vars
<1>. QED
  BY <1>5, <1>6, <1>7, <1>8, <1>9, <1>10, NextIs

-----------------------------------------------------------------------------
\* Types

LEMMA BucketNumbers ==
  /\ 0 \in Buckets
  /\ \A b \in Buckets : b \in Nat /\ (b + 1 # Size => b + 1 \in Buckets)
<1>1. Size \in Nat /\ Size # 0
  BY GenlAssumption
<1>. QED
  BY <1>1 DEF Buckets

LEMMA StartTypes == NoReq \in ReqType /\ NoDump \in DumpType /\ NoLink \in LinkType
<1>1. 0 \in Buckets /\ Fits \in Nat
  BY BucketNumbers, GenlAssumption
<1>. QED
  BY <1>1 DEF NoReq, NoDump, NoLink, ReqType, DumpType, LinkType

LEMMA Bits == 0 \in 0..1 /\ 1 \in 0..1 /\ \A k \in 0..1 : k # 1 => k = 0
  OBVIOUS

LEMMA UpsetIs ==
  ASSUME NEW d \in DumpType
  PROVE  /\ Upset(d) \in DumpType
         /\ d.at = "off" => Upset(d) = d
         /\ d.at = "open" => /\ ~Upset(d).sound /\ Upset(d).due = None
                             /\ Upset(d).at = "open" /\ Upset(d).times = 0
         /\ Upset(d).wrong = d.wrong
<1>1. CASE d.at = "off"
  BY <1>1 DEF Upset
<1>2. CASE d.at # "off"
  <2>1. Upset(d) = [d EXCEPT !.sound = FALSE, !.due = None, !.times = 0, !.last = None]
    BY <1>2 DEF Upset
  <2>2. d.at = "open"
    BY <1>2 DEF DumpType
  <2>3. Upset(d) \in DumpType
    BY <2>1, Bits DEF DumpType
  <2>4. /\ Upset(d).sound = FALSE /\ Upset(d).due = None /\ Upset(d).at = d.at
        /\ Upset(d).times = 0 /\ Upset(d).wrong = d.wrong
    BY <2>1 DEF DumpType
  <2>. QED
    BY <2>2, <2>3, <2>4
<1>. QED
  BY <1>1, <1>2

\* What a deletion of n does to the dump that is followed.
DumpAfter(n) ==
  IF n = dump.last THEN Upset(dump)
  ELSE IF n = dump.due THEN [dump EXCEPT !.due = None, !.times = 0] ELSE dump

LEMMA DumpAfterIs ==
  ASSUME TypeOK
  PROVE  /\ \A n, as : Unlink(n, as) => dump' = DumpAfter(n)
         /\ \A n \in Rule : DumpAfter(n) \in DumpType /\ DumpAfter(n).at = dump.at
                            /\ DumpAfter(n).wrong = dump.wrong
<1>1. \A n, as : Unlink(n, as) => dump' = DumpAfter(n)
  BY DEF Unlink, DumpAfter
<1>2. ASSUME NEW n \in Rule
      PROVE  DumpAfter(n) \in DumpType /\ DumpAfter(n).at = dump.at /\ DumpAfter(n).wrong = dump.wrong
  <2>1. CASE n = dump.last
    <3>1. dump \in DumpType /\ DumpAfter(n) = Upset(dump)
      BY <2>1 DEF TypeOK, DumpAfter
    <3>. QED
      BY <3>1, UpsetIs DEF DumpType
  <2>2. CASE n # dump.last /\ n = dump.due
    <3>1. DumpAfter(n) = [dump EXCEPT !.due = None, !.times = 0] /\ dump \in DumpType
      BY <2>2 DEF DumpAfter, TypeOK
    <3>. QED
      BY <3>1, Bits DEF DumpType
  <2>3. CASE n # dump.last /\ n # dump.due
    BY <2>3 DEF DumpAfter, TypeOK
  <2>. QED
    BY <2>1, <2>2, <2>3
<1>. QED
  BY <1>1, <1>2

LEMMA WalkIs ==
  ASSUME TypeOK
  PROVE  Walk(dump) \in ReqType
<1>1. dump.bucket \in Buckets /\ dump.id \in Id \cup {0} /\ Fits \in 0..Fits
  <2>1. dump \in DumpType /\ Fits \in Nat
    BY GenlAssumption DEF TypeOK
  <2>. QED
    BY <2>1 DEF DumpType
<1>2. head[dump.bucket] \in Rule \cup {None}
  BY <1>1 DEF TypeOK
<1>. QED
  BY <1>1, <1>2, StartTypes DEF Walk, ReqType

LEMMA ReqTyped ==
  ASSUME TypeOK, TableInv, HoldInv, AddStep \/ SectionStep \/ DumpStep \/ LinkStep \/ Faulted
  PROVE  req' \in ReqType
<1>0. req \in ReqType /\ rule \in [Rule -> RuleType]
  BY DEF TypeOK
<1>1. CASE req' = NoReq \/ UNCHANGED req
  BY <1>0, <1>1, StartTypes
<1>2. CASE BeginAdd
  BY <1>2, StartTypes DEF BeginAdd, Begin, ReqType
<1>3. ASSUME NEW op \in {"del", "get"}, NEW name \in Name, FindRule(op, name)
      PROVE  req' \in ReqType
  <2>1. Found(name) \in Rule
    BY <1>3, FoundIs DEF FindRule, Live
  <2>. QED
    BY <1>3, <2>1, StartTypes DEF FindRule, Begin, ReqType
<1>4. CASE req' = Walk(dump)
  BY <1>4, WalkIs
<1>5. CASE PassRule \/ FillRule
  <2>1. req.rule \in Rule /\ rule[req.rule].next \in Rule \cup {None}
    BY <1>0, <1>5 DEF PassRule, FillRule, Standing, ReqType, RuleType
  <2>2. CASE PassRule
    BY <1>0, <2>1, <2>2 DEF PassRule, ReqType
  <2>3. CASE FillRule
    <3>1. req.left - 1 \in 0..Fits
      <4>1. req.left \in 0..Fits /\ req.left > 0 /\ Fits \in Nat
        BY <1>0, <2>3, GenlAssumption DEF FillRule, ReqType
      <4>. QED
        BY <4>1
    <3>. QED
      BY <1>0, <2>1, <2>3, <3>1 DEF FillRule, ReqType
  <2>. QED
    BY <1>5, <2>2, <2>3
<1>6. CASE NextBucket /\ req' # NoReq
  <2>1. req.bucket + 1 # Size
        /\ req' = [req EXCEPT !.bucket = req.bucket + 1, !.rule = head[req.bucket + 1]]
    BY <1>6 DEF NextBucket, LastBucket
  <2>2. req.bucket + 1 \in Buckets
    BY <1>0, <2>1, BucketNumbers DEF ReqType
  <2>3. head[req.bucket + 1] \in Rule \cup {None}
    BY <2>2 DEF TypeOK
  <2>. QED
    BY <1>0, <2>1, <2>2, <2>3 DEF ReqType
<1>7. CASE AddStep
  BY <1>1, <1>2, <1>7 DEF AddStep, AddKeeps, AddPuts, AddTakes, AddEnds
<1>8. CASE SectionStep
  <2>1. CASE DeleteLoads \/ DeleteUnlinks
    BY <1>0, <2>1 DEF DeleteLoads, DeleteUnlinks, ReqType, Open
  <2>. QED
    BY <1>1, <1>3, <1>8, <2>1 DEF SectionStep, SectionDone, DeleteEnds
<1>9. CASE DumpStep
  BY <1>1, <1>4, <1>5, <1>6, <1>9 DEF DumpStep, OpenDump, ContinueDump, MessageFull, Begin
<1>10. CASE LinkStep
  BY <1>1, <1>10 DEF LinkStep, BeginDellink, SweepLoads, SweepUnlinks, SweepRule, SweepNext,
                     SweepBucket, FreeArrays, EndDellink, FreeRule
<1>. QED
  BY <1>1, <1>7, <1>8, <1>9, <1>10 DEF Faulted

LEMMA DumpTyped ==
  ASSUME TypeOK, TableInv, HoldInv, AddStep \/ SectionStep \/ DumpStep \/ LinkStep \/ Faulted
  PROVE  dump' \in DumpType
<1>0. dump \in DumpType /\ req \in ReqType /\ rule \in [Rule -> RuleType]
  BY DEF TypeOK
<1>1. CASE dump' = Upset(dump) \/ UNCHANGED dump
  BY <1>0, <1>1, UpsetIs
<1>2. ASSUME NEW n \in Live, ContextDelete(n) \/ TakeOut(n) PROVE dump' \in DumpType
  BY <1>2, DumpAfterIs DEF Live, ContextDelete, TakeOut
<1>3. CASE DumpDone
  <2>1. (dump.wrong \/ (dump.due # None /\ dump.times = 0)) \in BOOLEAN
    BY <1>0 DEF DumpType
  <2>. QED
    BY <1>3, <2>1, StartTypes DEF DumpDone, DumpType
<1>4. ASSUME NEW due \in Live \cup {None}, OpenDump(due) PROVE dump' \in DumpType
  <2>1. due \in Rule \cup {None}
    BY DEF Live
  <2>2. CASE link.dev = "up" /\ Apart
    BY <1>0, <1>4, <2>1, <2>2 DEF OpenDump, DumpType
  <2>3. CASE ~(link.dev = "up" /\ Apart)
    <3>1. [dump EXCEPT !.at = "open"] \in DumpType /\ dump' = Upset([dump EXCEPT !.at = "open"])
      BY <1>0, <1>4, <2>3 DEF OpenDump, DumpType
    <3>. QED
      BY <3>1, UpsetIs
  <2>. QED
    BY <2>2, <2>3
<1>5. CASE FillRule
  <2>1. CASE req.rule = dump.due
    <3>1. dump' = [dump EXCEPT !.times = 1, !.wrong = dump.wrong \/ dump.times = 1]
      BY <1>5, <2>1 DEF FillRule
    <3>2. (dump.wrong \/ dump.times = 1) \in BOOLEAN
      BY <1>0 DEF DumpType
    <3>. QED
      BY <1>0, <3>1, <3>2, Bits DEF DumpType
  <2>2. CASE req.rule # dump.due
    BY <1>0, <1>5, <2>2 DEF FillRule
  <2>. QED
    BY <2>1, <2>2
<1>6. CASE MessageFull
  <2>1. req.rule \in Rule /\ IdOf(req.rule) \in Id
    <3>1. req.rule \in Rule /\ rule[req.rule].st # "free"
      BY <1>0, <1>6 DEF MessageFull, Standing, ReqType
    <3>. QED
      BY <3>1 DEF TableInv, Named, IdOf, Id
  <2>. QED
    BY <1>0, <1>6, <2>1 DEF MessageFull, DumpType, ReqType
<1>7. CASE AddStep
  <2>1. ASSUME NEW name \in Name, AddTakes(name) PROVE Found(name) \in Live
    BY <2>1, FoundIs DEF AddTakes
  <2>. QED
    BY <1>1, <1>2, <1>7, <2>1 DEF AddStep, BeginAdd, AddKeeps, AddPuts, AddTakes, Append
<1>8. CASE SectionStep
  <2>1. CASE DeleteUnlinks
    <3>1. req.rule \in Live /\ TakeOut(req.rule)
      BY <2>1 DEF DeleteUnlinks, Deleting, HoldInv, WindowsHold
    <3>. QED
      BY <1>2, <3>1
  <2>. QED
    BY <1>1, <1>8, <2>1 DEF SectionStep, FindRule, SectionDone, DeleteLoads, DeleteEnds
<1>9. CASE DumpStep
  BY <1>1, <1>3, <1>4, <1>5, <1>6, <1>9 DEF DumpStep, ContinueDump, PassRule, NextBucket
<1>10. CASE LinkStep
  <2>1. CASE SweepUnlinks
    <3>1. link.rule \in Live /\ TakeOut(link.rule)
      BY <2>1 DEF SweepUnlinks, SweepingRule, HoldInv, WindowsHold
    <3>. QED
      BY <1>2, <3>1
  <2>. QED
    BY <1>1, <1>10, <2>1 DEF LinkStep, BeginDellink, SweepLoads, SweepRule, SweepNext,
                     SweepBucket, FreeArrays, EndDellink, FreeRule
<1>. QED
  BY <1>7, <1>8, <1>9, <1>10, StartTypes DEF Faulted

LEMMA LinkTyped ==
  ASSUME TypeOK, TableInv, HoldInv, AddStep \/ SectionStep \/ DumpStep \/ LinkStep \/ Faulted
  PROVE  link' \in LinkType
<1>0. link \in LinkType /\ rule \in [Rule -> RuleType]
  BY DEF TypeOK
<1>1. CASE BeginDellink
  <2>1. head[0] \in Rule \cup {None}
    BY BucketNumbers DEF TypeOK
  <2>. QED
    BY <1>0, <1>1, <2>1 DEF BeginDellink, LinkType
<1>2. CASE SweepLoads \/ SweepUnlinks \/ SweepRule \/ FreeArrays \/ EndDellink
  BY <1>0, <1>2 DEF SweepLoads, SweepUnlinks, SweepRule, FreeArrays, EndDellink, LinkType, Open
<1>3. CASE SweepNext
  <2>1. link.rule \in Rule
    BY <1>0, <1>3 DEF SweepNext, HoldInv, CutStands, LinkType
  <2>2. rule[link.rule].next \in Rule \cup {None}
    BY <1>0, <2>1 DEF RuleType
  <2>. QED
    BY <1>0, <1>3, <2>2 DEF SweepNext, LinkType
<1>4. CASE SweepBucket
  <2>1. link.bucket + 1 \in Buckets
    <3>1. link.bucket \in Buckets /\ link.bucket + 1 < Size /\ Size \in Nat
      BY <1>0, <1>4, GenlAssumption DEF SweepBucket, LinkType
    <3>. QED
      BY <3>1 DEF Buckets
  <2>2. head[link.bucket + 1] \in Rule \cup {None}
    BY <2>1 DEF TypeOK
  <2>3. link' = [link EXCEPT !.bucket = link.bucket + 1, !.rule = head[link.bucket + 1]]
    BY <1>4 DEF SweepBucket
  <2>. QED
    BY <1>0, <2>1, <2>2, <2>3 DEF LinkType
<1>5. CASE Faulted
  BY <1>0, <1>5, StartTypes DEF Faulted, LinkType
<1>6. CASE UNCHANGED link
  BY <1>0, <1>6
<1>7. CASE LinkStep
  BY <1>1, <1>2, <1>3, <1>4, <1>6, <1>7 DEF LinkStep, FreeRule
<1>8. CASE AddStep \/ SectionStep
  BY <1>6, <1>8 DEF AddStep, SectionStep, BeginAdd, AddKeeps, AddPuts, AddTakes, AddEnds, FindRule,
                    SectionDone, DeleteLoads, DeleteUnlinks, DeleteEnds
<1>9. CASE DumpStep
  BY <1>6, <1>9 DEF DumpStep, OpenDump, ContinueDump, PassRule, FillRule, MessageFull, NextBucket
<1>. QED
  BY <1>5, <1>7, <1>8, <1>9

LEMMA RestTyped ==
  ASSUME TypeOK, AddStep \/ SectionStep \/ DumpStep \/ LinkStep \/ Faulted
  PROVE  /\ kind' = kind
         /\ rtnl' \in {"none", "link", "leaked"} /\ badReplace' \in BOOLEAN
         /\ fault' \in {"none", "use-after-free", "poison", "torn"}
<1>0. rtnl \in {"none", "link", "leaked"} /\ badReplace \in BOOLEAN
      /\ fault \in {"none", "use-after-free", "poison", "torn"}
  BY DEF TypeOK
<1>1. CASE AddStep
  BY <1>0, <1>1 DEF AddStep, BeginAdd, AddKeeps, AddPuts, AddTakes, AddEnds, locks
<1>2. CASE SectionStep
  BY <1>0, <1>2 DEF SectionStep, FindRule, SectionDone, DeleteLoads, DeleteUnlinks, DeleteEnds,
                    locks
<1>3. CASE DumpStep
  BY <1>0, <1>3 DEF DumpStep, OpenDump, ContinueDump, PassRule, FillRule, MessageFull, NextBucket,
                    locks
<1>4. CASE LinkStep
  BY <1>0, <1>4 DEF LinkStep, BeginDellink, SweepLoads, SweepUnlinks, SweepRule, SweepNext,
                    SweepBucket, FreeArrays, EndDellink, FreeRule, locks
<1>5. CASE Faulted
  BY <1>0, <1>5 DEF Faulted, locks
<1>. QED
  BY <1>1, <1>2, <1>3, <1>4, <1>5

LEMMA TypeNext ==
  ASSUME TypeOK, TableInv, HoldInv, [Next]_vars
  PROVE  TypeOK'
<1>1. rule' \in [Rule -> RuleType] /\ head' \in [Buckets -> Rule \cup {None}]
  BY TableNext
<1>2. CASE UNCHANGED vars
  BY <1>1, <1>2 DEF TypeOK, vars, locks
<1>3. CASE Next
  <2>1. kind' \in Kind
    BY <1>3, NextIs, RestTyped DEF TypeOK
  <2>. QED
    BY <1>1, <1>3, <2>1, NextIs, ReqTyped, DumpTyped, LinkTyped, RestTyped DEF TypeOK
<1>. QED
  BY <1>2, <1>3

-----------------------------------------------------------------------------
\* What handlers hold

Step == AddStep \/ SectionStep \/ DumpStep \/ LinkStep \/ Faulted

LEMMA StepRuns == ASSUME Step PROVE Faulted \/ (fault = "none" /\ fault' = "none")
<1>1. CASE AddStep
  BY <1>1 DEF AddStep, BeginAdd, Begin, AddKeeps, AddPuts, AddTakes, AddEnds, Adding, Running
<1>2. CASE SectionStep
  BY <1>2 DEF SectionStep, FindRule, Begin, SectionDone, DeleteLoads, DeleteUnlinks, DeleteEnds,
              Deleting, Using, Running
<1>3. CASE DumpStep
  BY <1>3 DEF DumpStep, OpenDump, Begin, ContinueDump, PassRule, FillRule, MessageFull, NextBucket,
              Standing, Walking, Running
<1>4. CASE LinkStep
  BY <1>4 DEF LinkStep, BeginDellink, SweepLoads, SweepUnlinks, SweepRule, SweepNext, SweepBucket,
              FreeArrays, EndDellink, FreeRule, SweepingRule, Sweeping, Running
<1>. QED
  BY <1>1, <1>2, <1>3, <1>4 DEF Step

\* Which request holds genl_mutex in a step and after it.
LEMMA StepOps ==
  ASSUME TypeOK
  PROVE  /\ AddStep => req'.op \in {"add", "none"} /\ req.op \in {"add", "none"}
         /\ SectionStep => \/ req.op \in {"del", "get"} /\ req' = NoReq
                           \/ req.op = "del" /\ req'.op = "del" /\ (DeleteLoads \/ DeleteUnlinks)
                           \/ req = NoReq /\ req'.op \in {"del", "get"} /\ UNCHANGED <<table, dump, link>>
         /\ DumpStep => /\ UNCHANGED <<table, link, kind>>
                        /\ req'.op = "dump" \/ req' = NoReq
         /\ LinkStep => UNCHANGED req
         /\ Faulted => req' = NoReq
         /\ NoReq.op = "none"
<1>0. req \in ReqType /\ NoReq \in ReqType
  BY StartTypes DEF TypeOK
<1>1. NoReq.op = "none"
  BY DEF NoReq
<1>2. AddStep => req'.op \in {"add", "none"} /\ req.op \in {"add", "none"}
  BY <1>0, <1>1
  DEF AddStep, BeginAdd, Begin, AddKeeps, AddPuts, AddTakes, AddEnds, Adding, ReqType
<1>3. SectionStep => \/ req.op \in {"del", "get"} /\ req' = NoReq
                     \/ req.op = "del" /\ req'.op = "del" /\ (DeleteLoads \/ DeleteUnlinks)
                     \/ req = NoReq /\ req'.op \in {"del", "get"} /\ UNCHANGED <<table, dump, link>>
  BY <1>0 DEF SectionStep, FindRule, Begin, SectionDone, DeleteLoads, DeleteUnlinks, DeleteEnds,
              Deleting, Using, InSection, ReqType
<1>4. DumpStep => UNCHANGED <<table, link, kind>> /\ (req'.op = "dump" \/ req' = NoReq)
  <2>1. Walk(dump).op = "dump"
    BY DEF Walk, NoReq
  <2>2. Walking => req.op = "dump"
    BY DEF Walking
  <2>3. CASE OpenDump(None) \/ (\E due \in Live : OpenDump(due)) \/ ContinueDump
    BY <1>0, <1>1, <2>1, <2>3 DEF OpenDump, ContinueDump, Begin, Running
  <2>4. CASE PassRule \/ FillRule
    BY <1>0, <2>2, <2>4 DEF PassRule, FillRule, Standing, ReqType
  <2>5. CASE MessageFull
    BY <2>5 DEF MessageFull
  <2>6. CASE NextBucket
    BY <1>0, <2>2, <2>6 DEF NextBucket, ReqType
  <2>. QED
    BY <2>3, <2>4, <2>5, <2>6 DEF DumpStep
<1>5. LinkStep => UNCHANGED req
  BY DEF LinkStep, BeginDellink, SweepLoads, SweepUnlinks, SweepRule, SweepNext, SweepBucket,
         FreeArrays, EndDellink, FreeRule
<1>. QED
  BY <1>1, <1>2, <1>3, <1>4, <1>5 DEF Faulted

\* The link: nothing brings it back, and its deletion alone goes on with it.
LEMMA StepLink ==
  ASSUME TypeOK
  PROVE  /\ AddStep => UNCHANGED link
         /\ SectionStep => UNCHANGED link
         /\ LinkStep => \/ link'.dev # "up"
                        \/ UNCHANGED link /\ \E n \in Rule : FreeRule(n)
         /\ Faulted => link'.dev # "up" /\ link'.cut = "no"
<1>0. link \in LinkType /\ NoLink \in LinkType
  BY StartTypes DEF TypeOK
<1>1. AddStep => UNCHANGED link
  BY DEF AddStep, BeginAdd, AddKeeps, AddPuts, AddTakes, AddEnds
<1>2. SectionStep => UNCHANGED link
  BY DEF SectionStep, FindRule, SectionDone, DeleteLoads, DeleteUnlinks, DeleteEnds
<1>3. LinkStep => \/ link'.dev # "up"
                  \/ UNCHANGED link /\ \E n \in Rule : FreeRule(n)
  <2>1. CASE BeginDellink \/ FreeArrays \/ EndDellink
    BY <1>0, <2>1 DEF BeginDellink, FreeArrays, EndDellink, LinkType
  <2>2. CASE SweepLoads \/ SweepUnlinks \/ SweepRule \/ SweepNext \/ SweepBucket
    BY <1>0, <2>2 DEF SweepLoads, SweepUnlinks, SweepRule, SweepNext, SweepBucket, SweepingRule,
                      Sweeping, LinkType
  <2>3. CASE \E n \in Rule : FreeRule(n)
    BY <2>3 DEF FreeRule
  <2>. QED
    BY <2>1, <2>2, <2>3 DEF LinkStep
<1>4. Faulted => link'.dev # "up" /\ link'.cut = "no"
  BY <1>0 DEF Faulted, NoLink
<1>. QED
  BY <1>1, <1>2, <1>3, <1>4

LEMMA NoneDyingNext ==
  ASSUME TypeOK, TableInv, HoldInv, Step
  PROVE  NoneDying'
<1>0. rule \in [Rule -> RuleType]
  BY DEF TypeOK
<1>1. SUFFICES ASSUME link'.dev = "up", NEW n \in Rule PROVE rule'[n].st # "dying"
  BY DEF NoneDying
<1>2. CASE link.dev = "up"
  <2>0. \A m \in Rule : rule[m].st # "dying"
    BY <1>2 DEF HoldInv, NoneDying
  <2>1. ASSUME NEW m \in Live, ContextDelete(m) \/ TakeOut(m) PROVE rule'[n].st # "dying"
    <3>1. Removed(m) /\ rule'[m].st \in {"free", "out"}
      BY <2>1, ContextDeleteIs, TakeOutIs
    <3>. QED
      BY <2>0, <3>1 DEF Removed
  <2>2. CASE AddStep
    <3>1. ASSUME NEW name \in Name, AddTakes(name) PROVE rule'[n].st # "dying"
      <4>1. Found(name) \in Live
        BY <3>1, FoundIs DEF AddTakes
      <4>. QED
        BY <2>1, <3>1, <4>1 DEF AddTakes
    <3>2. ASSUME NEW name \in Name, AddPuts(name) PROVE rule'[n].st # "dying"
      <4>1. PICK m \in Rule : Added(m, name)
        BY <3>2, AppendIs DEF AddPuts
      <4>. QED
        BY <2>0, <4>1 DEF Added
    <3>. QED
      BY <2>0, <2>2, <3>1, <3>2 DEF AddStep, BeginAdd, AddKeeps, table
  <2>3. CASE SectionStep
    <3>1. CASE DeleteUnlinks
      <4>1. req.rule \in Live /\ TakeOut(req.rule)
        BY <3>1 DEF DeleteUnlinks, Deleting, HoldInv, WindowsHold
      <4>. QED
        BY <2>1, <4>1
    <3>2. CASE SectionDone
      BY <1>0, <2>0, <3>2, SectionEndedIs DEF SectionDone
    <3>3. CASE DeleteEnds
      BY <1>2, <2>0, <3>3, DeleteEndsIs
    <3>. QED
      BY <2>0, <2>3, <3>1, <3>2, <3>3 DEF SectionStep, FindRule, DeleteLoads, table
  <2>4. CASE DumpStep
    BY <2>0, <2>4, StepOps DEF table
  <2>5. CASE LinkStep
    BY <1>1, <2>0, <2>5, StepLink DEF FreeRule
  <2>. QED
    BY <1>1, <2>2, <2>3, <2>4, <2>5, StepLink DEF Step
<1>3. CASE link.dev # "up"
  BY <1>1, <1>3, StepLink, StepOps DEF Step
<1>. QED
  BY <1>2, <1>3

LEMMA SectionHoldsNext ==
  ASSUME TypeOK, TableInv, HoldInv, Step
  PROVE  SectionHolds'
<1>0. rule \in [Rule -> RuleType] /\ req \in ReqType
  BY DEF TypeOK
<1>1. SUFFICES ASSUME req'.op \in {"del", "get"}
               PROVE  /\ req'.rule \in Rule
                      /\ \/ rule'[req'.rule].st \in {"live", "out"}
                         \/ rule'[req'.rule].st = "dying" /\ rule'[req'.rule].wait
  BY DEF SectionHolds, InSection
<1>2. CASE SectionStep
  <2>1. CASE DeleteLoads \/ DeleteUnlinks
    <3>1. req'.rule = req.rule
      BY <1>0, <2>1 DEF DeleteLoads, DeleteUnlinks, ReqType
    <3>2. CASE DeleteLoads
      BY <1>0, <2>1, <3>1, <3>2 DEF DeleteLoads, Deleting, Using, table, HoldInv, SectionHolds, InSection
    <3>3. CASE DeleteUnlinks
      <4>1. req.rule \in Live /\ TakeOut(req.rule)
        BY <3>3 DEF DeleteUnlinks, Deleting, HoldInv, WindowsHold
      <4>. QED
        BY <3>1, <4>1, TakeOutIs DEF Live
    <3>. QED
      BY <2>1, <3>2, <3>3
  <2>2. CASE ~(DeleteLoads \/ DeleteUnlinks)
    <3>1. req.op = "none" /\ UNCHANGED table
      BY <1>1, <1>2, <2>2, StepOps
    <3>2. PICK op \in {"del", "get"}, name \in Name : FindRule(op, name)
      BY <1>2, <2>2, <3>1 DEF SectionStep, SectionDone, DeleteEnds, Deleting, Using, InSection
    <3>3. Found(name) \in Live /\ req' = [NoReq EXCEPT !.op = op, !.rule = Found(name)]
      BY <3>2, FoundIs DEF FindRule, Begin
    <3>4. req'.rule = Found(name)
      BY <3>3 DEF NoReq
    <3>. QED
      BY <3>1, <3>3, <3>4 DEF Live, table
  <2>. QED
    BY <2>1, <2>2
<1>3. CASE LinkStep
  <2>1. /\ req' = req /\ InSection /\ req.rule \in Rule
        /\ \/ rule[req.rule].st \in {"live", "out"}
           \/ rule[req.rule].st = "dying" /\ rule[req.rule].wait
    BY <1>1, <1>3, StepOps DEF HoldInv, SectionHolds, InSection
  <2>2. CASE SweepUnlinks
    <3>1. link.rule \in Live /\ TakeOut(link.rule)
      BY <2>2 DEF SweepUnlinks, SweepingRule, HoldInv, WindowsHold
    <3>2. /\ Removed(link.rule) /\ rule'[link.rule].st = "out"
          /\ \A m \in Rule : m # link.rule => rule'[m].wait = rule[m].wait
      BY <3>1, TakeOutIs
    <3>. QED
      BY <2>1, <3>2 DEF Removed
  <2>3. CASE SweepRule
    BY <2>1, <2>3, SweepRuleIs
  <2>4. ASSUME NEW n \in Rule, FreeRule(n) PROVE rule'[req.rule] = rule[req.rule]
    BY <1>0, <2>1, <2>4 DEF FreeRule
  <2>5. CASE UNCHANGED rule
    BY <2>1, <2>5
  <2>. QED
    BY <1>3, <2>1, <2>2, <2>3, <2>4, <2>5
    DEF LinkStep, BeginDellink, SweepLoads, SweepNext, SweepBucket, FreeArrays, EndDellink, table
<1>. QED
  BY <1>1, <1>2, <1>3, StepOps DEF Step

\* A step that leaves both windows as they are changes no rule in them: an add
\* comes while neither is open, and a callback frees none that is out.
LEMMA WindowsHoldNext ==
  ASSUME TypeOK, TableInv, HoldInv, Step
  PROVE  WindowsHold'
<1>0. rule \in [Rule -> RuleType] /\ req \in ReqType /\ link \in LinkType
  BY DEF TypeOK
<1>1. WindowsHold
  BY DEF HoldInv
<1>2. NoReq.cut = "no" /\ NoLink.cut = "no" /\ "no" \notin Open /\ "done" \notin Open
  BY DEF NoReq, NoLink, Open
<1>3. ASSUME req'.cut = "no", UNCHANGED link,
             \A m \in Rule : rule[m].st \in {"live", "out"} /\ m # req.rule => rule'[m].st = rule[m].st,
             link.cut \in Open => rule'[link.rule].st = rule[link.rule].st
      PROVE  WindowsHold'
  BY <1>1, <1>2, <1>3 DEF WindowsHold, Live, Open
<1>4. CASE AddStep
  <2>1. req'.cut = "no" /\ UNCHANGED link
    BY <1>2, <1>4, StepLink DEF AddStep, BeginAdd, Begin, AddKeeps, AddPuts, AddTakes, AddEnds, NoReq
  <2>2. CASE link.cut = "no"
    BY <2>1, <2>2 DEF WindowsHold, Open
  <2>3. CASE link.cut # "no"
    <3>1. link.dev = "sweep"
      BY <2>3 DEF HoldInv, CutStands
    <3>2. rule' = rule
      BY <1>4, <3>1 DEF AddStep, BeginAdd, AddKeeps, AddPuts, AddTakes, table
    <3>. QED
      BY <1>3, <2>1, <3>2
  <2>. QED
    BY <2>2, <2>3
<1>5. CASE SectionStep
  <2>0. UNCHANGED link
    BY <1>5, StepLink
  <2>1. CASE DeleteLoads
    <3>1. /\ req' = [req EXCEPT !.cut = "loaded"] /\ req.op = "del" /\ rule' = rule /\ link' = link
          /\ rule[req.rule].st = "live" /\ ~(link.cut \in Open /\ Close(req.rule, link.rule))
      BY <2>1 DEF DeleteLoads, Deleting, Using, table
    <3>2. req.rule \in Rule
      BY <3>1 DEF HoldInv, SectionHolds, InSection
    <3>3. req'.cut = "loaded" /\ req'.op = "del" /\ req'.rule = req.rule
      BY <1>0, <3>1 DEF ReqType
    <3>4. link.cut \in Open => req.rule # link.rule
      BY <3>1 DEF Close
    <3>. QED
      BY <1>1, <3>1, <3>2, <3>3, <3>4 DEF WindowsHold, Live
  <2>2. CASE DeleteUnlinks
    <3>1. /\ req' = [req EXCEPT !.cut = "out"] /\ req.op = "del" /\ req.cut = "loaded" /\ link' = link
          /\ req.rule \in Live /\ TakeOut(req.rule)
      BY <1>1, <2>2 DEF DeleteUnlinks, Deleting, Using, WindowsHold
    <3>2. req'.cut = "out" /\ req'.op = "del" /\ req'.rule = req.rule
      BY <1>0, <3>1 DEF ReqType
    <3>3. /\ rule'[req.rule].st = "out" /\ req.rule \in Rule
          /\ \A m \in Rule : m # req.rule => rule'[m].st = rule[m].st
      BY <3>1, TakeOutIs DEF Removed, Live
    <3>. QED
      BY <1>1, <3>1, <3>2, <3>3 DEF WindowsHold, Live, Open
  <2>3. CASE DeleteEnds
    <3>1. req'.cut = "no" /\ req.cut = "out"
      BY <1>2, <2>3 DEF DeleteEnds, Deleting
    <3>2. link.cut \in Open => link.rule # req.rule /\ link.rule \in Rule
      BY <1>1, <3>1 DEF WindowsHold, Open, Live
    <3>. QED
      BY <1>3, <2>0, <2>3, <3>1, <3>2, DeleteEndsIs
  <2>4. CASE SectionDone
    <3>1. req'.cut = "no"
      BY <1>2, <2>4 DEF SectionDone
    <3>2. \A m \in Rule : rule'[m].st = rule[m].st
      BY <1>0, <2>4, SectionEndedIs DEF SectionDone
    <3>3. link.cut \in Open => link.rule \in Rule
      BY <1>1 DEF WindowsHold, Open, Live
    <3>. QED
      BY <1>3, <2>0, <3>1, <3>2, <3>3
  <2>5. ASSUME NEW op \in {"del", "get"}, NEW name \in Name, FindRule(op, name) PROVE WindowsHold'
    <3>1. req'.cut = "no" /\ rule' = rule
      BY <2>5 DEF FindRule, Begin, NoReq, table
    <3>. QED
      BY <1>3, <2>0, <3>1
  <2>. QED
    BY <1>5, <2>1, <2>2, <2>3, <2>4, <2>5 DEF SectionStep
<1>6. CASE DumpStep
  <2>1. req'.cut = "no"
    <3>1. Walk(dump).cut = "no"
      BY DEF Walk, NoReq
    <3>2. req.op = "dump" => req.cut = "no"
      BY <1>1 DEF WindowsHold
    <3>. QED
      BY <1>0, <1>2, <1>6, <3>1, <3>2
      DEF DumpStep, OpenDump, ContinueDump, Begin, PassRule, FillRule, MessageFull, NextBucket,
          Standing, Walking, ReqType
  <2>. QED
    BY <1>3, <1>6, <2>1, StepOps DEF table
<1>7. CASE LinkStep
  <2>0. req' = req
    BY <1>7, StepOps
  <2>1. CASE SweepLoads
    <3>1. /\ link' = [link EXCEPT !.cut = "loaded"] /\ rule' = rule /\ link.rule # None
          /\ rule[link.rule].st = "live" /\ ~(req.cut \in Open /\ Close(link.rule, req.rule))
      BY <2>1 DEF SweepLoads, SweepingRule, table
    <3>2. link.rule \in Rule /\ link'.cut = "loaded" /\ link'.rule = link.rule
      BY <1>0, <3>1 DEF LinkType
    <3>3. req.cut \in Open => req.rule # link.rule
      BY <3>1 DEF Close
    <3>. QED
      BY <1>1, <2>0, <3>1, <3>2, <3>3 DEF WindowsHold, Live
  <2>2. CASE SweepUnlinks
    <3>1. /\ link' = [link EXCEPT !.cut = "out"] /\ link.cut = "loaded"
          /\ link.rule \in Live /\ TakeOut(link.rule)
      BY <1>1, <2>2 DEF SweepUnlinks, SweepingRule, WindowsHold
    <3>2. link'.cut = "out" /\ link'.rule = link.rule
      BY <1>0, <3>1 DEF LinkType
    <3>3. /\ rule'[link.rule].st = "out" /\ link.rule \in Rule
          /\ \A m \in Rule : m # link.rule => rule'[m].st = rule[m].st
      BY <3>1, TakeOutIs DEF Removed, Live
    <3>. QED
      BY <1>1, <2>0, <3>1, <3>2, <3>3 DEF WindowsHold, Live, Open
  <2>3. CASE SweepRule
    <3>1. link'.cut = "done" /\ link.cut = "out"
      BY <1>0, <2>3 DEF SweepRule, SweepingRule, LinkType
    <3>2. req.cut \in Open => req.rule # link.rule
      BY <1>1, <3>1 DEF WindowsHold, Open
    <3>3. \A m \in Rule : m # link.rule => rule'[m].st = rule[m].st
      BY <2>3, SweepRuleIs
    <3>. QED
      BY <1>1, <1>2, <2>0, <3>1, <3>2, <3>3 DEF WindowsHold, Live, Open
  <2>4. CASE BeginDellink \/ SweepNext \/ SweepBucket \/ FreeArrays \/ EndDellink
    <3>1. link.cut \notin Open /\ link'.cut \notin Open /\ rule' = rule
      <4>1. CASE BeginDellink \/ EndDellink
        BY <1>0, <1>2, <4>1 DEF BeginDellink, EndDellink, HoldInv, CutStands, LinkType, table
      <4>2. CASE SweepNext
        BY <1>0, <1>2, <4>2 DEF SweepNext, LinkType, table
      <4>3. CASE SweepBucket \/ FreeArrays
        BY <1>0, <1>2, <4>3 DEF SweepBucket, FreeArrays, HoldInv, CutStands, LinkType, table
      <4>. QED
        BY <2>4, <4>1, <4>2, <4>3
    <3>. QED
      BY <1>1, <2>0, <3>1 DEF WindowsHold, Live, Open
  <2>5. ASSUME NEW n \in Rule, FreeRule(n) PROVE WindowsHold'
    <3>1. link' = link /\ \A m \in Rule : rule[m].st \in {"live", "out"} => rule'[m].st = rule[m].st
      BY <1>0, <2>5 DEF FreeRule
    <3>. QED
      BY <1>1, <2>0, <3>1 DEF WindowsHold, Live
  <2>. QED
    BY <1>7, <2>1, <2>2, <2>3, <2>4, <2>5 DEF LinkStep
<1>8. CASE Faulted
  BY <1>2, <1>8, StepLink DEF Faulted, WindowsHold
<1>. QED
  BY <1>4, <1>5, <1>6, <1>7, <1>8 DEF Step

LEMMA WalkHoldsNext ==
  ASSUME TypeOK, TableInv, HoldInv, Step
  PROVE  WalkHolds'
<1>0. req \in ReqType /\ dump \in DumpType
  BY DEF TypeOK
<1>1. SUFFICES ASSUME link'.dev = "up", req'.op = "dump", req'.rule # None
               PROVE  (req.rule \in Live /\ Bucket(req.rule) = req.bucket)'
  BY DEF WalkHolds
<1>2. CASE DumpStep
  <2>0. link.dev = "up" /\ UNCHANGED table
    BY <1>1, <1>2, StepOps
  <2>1. SUFFICES req'.rule \in Live /\ Bucket(req'.rule) = req'.bucket
    BY <2>0 DEF Live, Bucket, table
  <2>2. CASE req' = Walk(dump)
    <3>1. req'.rule = head[dump.bucket] /\ req'.bucket = dump.bucket /\ dump.bucket \in Buckets
      BY <1>0, <2>2 DEF Walk, NoReq, DumpType
    <3>. QED
      BY <1>1, <3>1 DEF TableInv, Linked
  <2>3. CASE PassRule \/ FillRule
    <3>1. req.op = "dump" /\ req.rule # None
          /\ req'.rule = rule[req.rule].next /\ req'.bucket = req.bucket
      BY <1>0, <2>3 DEF PassRule, FillRule, Standing, Walking, ReqType
    <3>2. req.rule \in Live /\ Bucket(req.rule) = req.bucket
      BY <2>0, <3>1 DEF HoldInv, WalkHolds
    <3>. QED
      BY <1>1, <3>1, <3>2 DEF TableInv, Linked
  <2>4. CASE NextBucket
    <3>1. req.bucket + 1 # Size
          /\ req' = [req EXCEPT !.bucket = req.bucket + 1, !.rule = head[req.bucket + 1]]
      BY <1>1, <2>4, StepOps DEF NextBucket, LastBucket
    <3>2. req.bucket + 1 \in Buckets
      BY <1>0, <3>1, BucketNumbers DEF ReqType
    <3>3. req'.rule = head[req.bucket + 1] /\ req'.bucket = req.bucket + 1
      BY <1>0, <3>1 DEF ReqType
    <3>. QED
      BY <1>1, <3>2, <3>3 DEF TableInv, Linked
  <2>5. CASE UNCHANGED req \/ req' = NoReq
    BY <1>1, <1>2, <2>0, <2>2, <2>3, <2>4, <2>5, StepOps
    DEF DumpStep, OpenDump, ContinueDump, MessageFull, Begin
  <2>. QED
    BY <1>2, <2>2, <2>3, <2>4, <2>5 DEF DumpStep, OpenDump, ContinueDump, MessageFull, Begin
<1>3. CASE LinkStep
  <2>1. PICK n \in Rule : FreeRule(n)
    BY <1>1, <1>3, StepLink
  <2>2. link.dev = "up"
    BY <1>1, <2>1 DEF FreeRule
  <2>. QED
    BY <2>1, <2>2 DEF FreeRule, HoldInv, NoneDying
<1>. QED
  BY <1>1, <1>2, <1>3, StepOps DEF Step

LEMMA HoldNext ==
  ASSUME TypeOK, TableInv, HoldInv, Step
  PROVE  HoldInv'
<1>1. FaultStops'
  <2>1. CASE Faulted
    BY <2>1, StepLink DEF Faulted, FaultStops
  <2>. QED
    BY <2>1, StepRuns DEF FaultStops
<1>2. CutStands'
  <2>0. link \in LinkType /\ (link.cut # "no" => link.dev = "sweep" /\ link.rule # None)
    BY DEF HoldInv, CutStands, TypeOK
  <2>1. CASE Faulted
    BY <2>1, StepLink DEF CutStands
  <2>2. CASE UNCHANGED link
    BY <2>0, <2>2 DEF CutStands
  <2>3. CASE LinkStep
    <3>1. CASE SweepLoads \/ SweepUnlinks \/ SweepRule \/ SweepNext
      BY <2>0, <3>1 DEF SweepLoads, SweepUnlinks, SweepRule, SweepNext, SweepingRule, Sweeping,
                        LinkType, CutStands
    <3>2. CASE BeginDellink \/ SweepBucket \/ FreeArrays \/ EndDellink
      BY <2>0, <3>2
      DEF BeginDellink, SweepBucket, FreeArrays, EndDellink, Sweeping, LinkType, CutStands
    <3>. QED
      BY <2>2, <2>3, <3>1, <3>2 DEF LinkStep, FreeRule
  <2>. QED
    BY <2>1, <2>2, <2>3, StepLink, StepOps DEF Step
<1>. QED
  BY <1>1, <1>2, NoneDyingNext, SectionHoldsNext, WalkHoldsNext, WindowsHoldNext DEF HoldInv

-----------------------------------------------------------------------------
\* Dumps

\* A dump that is not followed, or off, has nothing to keep.
LEMMA Unfollowed ==
  ASSUME ~Followed', DumpOff', dump'.due = None, ~dump'.wrong
  PROVE  DumpInv'
  BY DEF DumpInv, FollowedHolds, ResumeHolds, ReportedIsPast, DumpExact

LEMMA TurnedOff ==
  ASSUME dump' = [NoDump EXCEPT !.wrong = FALSE], req'.op # "dump"
  PROVE  DumpInv'
<1>1. dump'.at = "off" /\ dump'.due = None /\ dump'.wrong = FALSE
  BY DEF NoDump
<1>2. DumpOff'
  BY <1>1 DEF DumpOff
<1>. QED
  BY <1>1, <1>2, Unfollowed DEF Followed

\* What DumpInv says where the dump is off, not followed, followed.
LEMMA DumpIs ==
  ASSUME TypeOK, DumpInv
  PROVE  /\ dump \in DumpType /\ dump.wrong = FALSE
         /\ dump.at = "off" => /\ dump = [NoDump EXCEPT !.wrong = FALSE] /\ req.op # "dump"
                               /\ dump.last = None /\ dump.due = None /\ dump.bucket = 0
                               /\ dump.id = 0 /\ dump.times = 0 /\ dump.sound
         /\ dump.at # "off" => dump.at = "open"
         /\ ~Followed => dump.due = None
         /\ Followed => link.dev = "up" /\ Apart /\ dump.at = "open"
<1>0. dump \in DumpType
  BY DEF TypeOK
<1>1. dump.wrong = FALSE
  BY <1>0 DEF DumpInv, DumpExact, DumpType
<1>2. dump.at = "off" => dump = [NoDump EXCEPT !.wrong = FALSE] /\ req.op # "dump"
  BY <1>1 DEF DumpInv, DumpOff
<1>. QED
  BY <1>0, <1>1, <1>2 DEF NoDump, DumpInv, FollowedHolds, Followed, DumpType

\* A dump that is upset is not followed any more.
LEMMA UpsetStep ==
  ASSUME TypeOK, DumpInv, dump' = Upset(dump),
         UNCHANGED req \/ req'.op # "dump"
  PROVE  DumpInv'
<1>0. dump \in DumpType
  BY DumpIs
<1>1. CASE dump.at = "off"
  BY <1>0, <1>1, DumpIs, UpsetIs, TurnedOff
<1>2. CASE dump.at # "off"
  <2>1. dump'.at = "open" /\ ~dump'.sound /\ dump'.due = None /\ ~dump'.wrong
    BY <1>0, <1>2, DumpIs, UpsetIs
  <2>2. DumpOff'
    BY <2>1 DEF DumpOff
  <2>. QED
    BY <2>1, <2>2, Unfollowed DEF Followed
<1>. QED
  BY <1>1, <1>2

\* A dump that was not followed and does not change.
LEMMA UnfollowedStep ==
  ASSUME TypeOK, DumpInv, ~Followed, dump' = dump, UNCHANGED req \/ req'.op # "dump"
  PROVE  DumpInv'
<1>1. dump'.due = None /\ ~dump'.wrong /\ ~Followed'
  BY DumpIs DEF Followed
<1>2. DumpOff'
  BY DumpIs DEF DumpOff
<1>. QED
  BY <1>1, <1>2, Unfollowed

\* Rules come and go, but not the one to be reported and not the one the dump
\* goes on with; walks from the latter come to the same rules but for one
\* that has gone.
OtherRules ==
  /\ req.op # "dump" /\ req'.op # "dump"
  /\ UNCHANGED link
  /\ \A m \in {dump.last, dump.due} \ {None} :
       m \in Live => m \in Live' /\ Bucket(m)' = Bucket(m) /\ IdOf(m)' = IdOf(m)
  /\ \A m \in {dump.last} \ {None}, k \in {dump.due} \ {None} :
       m \in Live /\ k \in Live => (k \in ChainIn(rule', m) <=> k \in ChainIn(rule, m))
  /\ Apart => Apart'

LEMMA OtherRulesStep ==
  ASSUME TypeOK, DumpInv, OtherRules, dump' = dump
  PROVE  DumpInv'
<1>1. CASE ~Followed
  BY <1>1, UnfollowedStep DEF OtherRules
<1>2. CASE Followed
  <2>1. /\ link.dev = "up" /\ Apart /\ dump.at = "open" /\ ~dump.wrong
        /\ dump.last # None /\ dump.last \in Live
        /\ Bucket(dump.last) = dump.bucket /\ IdOf(dump.last) = dump.id
        /\ dump.due # None => dump.due \in Live
    BY <1>2, DumpIs DEF DumpInv, ResumeHolds, FollowedHolds, OtherRules
  <2>2. /\ dump.last \in Live' /\ Bucket(dump.last)' = Bucket(dump.last)
        /\ IdOf(dump.last)' = IdOf(dump.last)
    BY <2>1 DEF OtherRules
  <2>3. dump.due # None =>
          /\ dump.due \in Live' /\ Bucket(dump.due)' = Bucket(dump.due)
          /\ dump.due \in Chain(dump.last)' <=> dump.due \in Chain(dump.last)
    BY <2>1, ChainIs DEF OtherRules
  <2>4. AtBucket = dump.bucket /\ AtBucket' = dump.bucket /\ AtRule = dump.last /\ AtRule' = dump.last
    BY DEF AtBucket, AtRule, OtherRules
  <2>5. DumpOff' /\ DumpExact' /\ (Followed <=> Followed')
    BY <2>1 DEF DumpOff, DumpExact, Followed
  <2>8. Apart' /\ link'.dev = "up"
    BY <2>1 DEF OtherRules
  <2>9. FollowedHolds'
    BY <1>2, <2>3, <2>5, <2>8 DEF FollowedHolds
  <2>6. ResumeHolds'
    BY <2>1, <2>2 DEF ResumeHolds, OtherRules
  <2>7. ReportedIsPast'
    BY <2>3, <2>4 DEF DumpInv, ReportedIsPast
  <2>. QED
    BY <2>5, <2>6, <2>7, <2>9 DEF DumpInv
<1>. QED
  BY <1>1, <1>2

\* What the dump holds on to is live, where it is anything.
LEMMA HeldIsLive ==
  ASSUME TypeOK, DumpInv
  PROVE  /\ dump.due # None => dump.due \in Live
         /\ dump.last \in Rule \cup {None} /\ dump.due \in Rule \cup {None}
  BY DEF DumpInv, FollowedHolds, TypeOK, DumpType

LEMMA SameLiveDump ==
  ASSUME TypeOK, TableInv, DumpInv, SameLive, dump' = dump, UNCHANGED link,
         req.op # "dump", req'.op # "dump"
  PROVE  DumpInv'
<1>1. /\ Live' = Live
      /\ \A m \in Live : Bucket(m)' = Bucket(m) /\ IdOf(m)' = IdOf(m) /\ Chain(m)' = Chain(m)
  BY SameLiveStep DEF SameLive, Live, Bucket, IdOf
<1>2. Apart => Apart'
  BY <1>1 DEF Apart
<1>3. OtherRules
  BY <1>1, <1>2, ChainIs DEF OtherRules
<1>. QED
  BY <1>3, OtherRulesStep

LEMMA AddPutsDump ==
  ASSUME TypeOK, TableInv, DumpInv, NEW name \in Name, AddPuts(name)
  PROVE  DumpInv'
<1> DEFINE b == KeyHash[name]
<1>1. PICK n \in Rule : Added(n, name)
  BY AppendIs DEF AddPuts
<1>2. /\ Live' = Live \cup {n}
      /\ Bucket(n)' = b /\ IdOf(n)' = name[2]
      /\ \A m \in Live : Bucket(m)' = Bucket(m) /\ IdOf(m)' = IdOf(m) /\ Chain(m)' = Chain(m)
  <2>1. \A m \in Live : rule[m].name # name
    BY FoundIs DEF AddPuts
  <2>. QED
    BY <1>1, <2>1, AddedStep
<1>3. req.op # "dump" /\ req'.op # "dump" /\ UNCHANGED link
  BY StepOps DEF AddPuts, AddEnds, Adding
<1>4. dump' = IF name[2] = 0 \/ \E m \in Chain(head[b]) : IdOf(m) = name[2]
              THEN Upset(dump) ELSE dump
  BY DEF AddPuts, Append
<1>5. CASE dump' = Upset(dump)
  BY <1>3, <1>5, UpsetStep
<1>6. CASE dump' = dump /\ name[2] # 0 /\ ~\E m \in Chain(head[b]) : IdOf(m) = name[2]
  <2>1. \A m \in Live : Bucket(m) = b => IdOf(m) # name[2]
    BY <1>6, TableTypes, BucketIsChain
  <2>2. Apart => Apart'
    BY <1>2, <1>6, <2>1 DEF Apart
  <2>3. OtherRules
    BY <1>2, <1>3, <2>2, ChainIs DEF OtherRules
  <2>. QED
    BY <1>6, <2>3, OtherRulesStep
<1>. QED
  BY <1>4, <1>5, <1>6

LEMMA RemovedDump ==
  ASSUME TypeOK, TableInv, DumpInv, NEW n \in Live, ContextDelete(n) \/ TakeOut(n),
         UNCHANGED link, req.op # "dump", req'.op # "dump"
  PROVE  DumpInv'
<1>1. Removed(n)
  BY ContextDeleteIs, TakeOutIs
<1>2. /\ Live' = Live \ {n}
      /\ \A m \in Live' : /\ Bucket(m)' = Bucket(m) /\ IdOf(m)' = IdOf(m)
                          /\ Chain(m)' = Chain(m) \ {n}
  BY <1>1, RemovedStep
<1>3. Apart => Apart'
  BY <1>2 DEF Apart
<1>4. dump' = DumpAfter(n) /\ n \in Rule /\ n # None
  BY DumpAfterIs, GenlAssumption DEF Live, ContextDelete, TakeOut
<1>5. CASE n = dump.last
  BY <1>4, <1>5, UpsetStep DEF DumpAfter
<1>6. CASE n # dump.last /\ n # dump.due
  <2>1. OtherRules
    BY <1>2, <1>3, <1>6, ChainIs DEF OtherRules
  <2>. QED
    BY <1>4, <1>6, <2>1, OtherRulesStep DEF DumpAfter
<1>7. CASE n # dump.last /\ n = dump.due
  <2>1. dump' = [dump EXCEPT !.due = None, !.times = 0] /\ dump \in DumpType
    BY <1>4, <1>7, DumpIs DEF DumpAfter
  <2>2. /\ dump'.due = None /\ dump'.at = dump.at /\ dump'.sound = dump.sound
        /\ dump'.last = dump.last /\ dump'.bucket = dump.bucket /\ dump'.id = dump.id
        /\ dump'.wrong = dump.wrong
    BY <2>1 DEF DumpType
  <2>3. Followed /\ Followed' /\ dump.at = "open" /\ link.dev = "up" /\ Apart /\ ~dump.wrong
    BY <1>4, <1>7, <2>2, DumpIs DEF Followed
  <2>4. /\ dump.last # None /\ dump.last \in Live
        /\ Bucket(dump.last) = dump.bucket /\ IdOf(dump.last) = dump.id
    BY <2>3 DEF DumpInv, ResumeHolds
  <2>5. dump.last \in Live' /\ Bucket(dump.last)' = dump.bucket /\ IdOf(dump.last)' = dump.id
    BY <1>2, <1>7, <2>2, <2>4
  <2>6. ResumeHolds'
    BY <2>2, <2>4, <2>5 DEF ResumeHolds
  <2>7. FollowedHolds' /\ DumpOff' /\ ReportedIsPast' /\ DumpExact'
    BY <1>3, <2>2, <2>3 DEF FollowedHolds, DumpOff, ReportedIsPast, DumpExact
  <2>. QED
    BY <2>6, <2>7 DEF DumpInv
<1>. QED
  BY <1>5, <1>6, <1>7

\* Where a call stands: nothing in the buckets changes under it.
LEMMA StandsAt ==
  ASSUME TypeOK, TableInv, HoldInv, DumpInv, Followed, req.op = "dump"
  PROVE  /\ AtBucket = req.bucket
         /\ req.rule # None => req.rule \in Live /\ Bucket(req.rule) = req.bucket
                               /\ Chain(req.rule) = {req.rule} \cup Chain(rule[req.rule].next)
                               /\ req.rule \notin Chain(rule[req.rule].next)
         /\ req.skip = 0 => AtRule = req.rule
         /\ req.skip # 0 => /\ AtRule = dump.last /\ req.rule # None
                            /\ dump.last \in Live /\ Bucket(dump.last) = req.bucket
                            /\ IdOf(dump.last) = req.skip
                            /\ dump.last \in Chain(req.rule)
         /\ ~Skipped => AtRule = req.rule
<1>0. link.dev = "up" /\ Apart /\ rule \in [Rule -> RuleType]
  BY DumpIs DEF TypeOK
<1>1. AtBucket = req.bucket /\ (req.skip = 0 => AtRule = req.rule)
      /\ (req.skip # 0 => AtRule = dump.last)
  BY DEF AtBucket, AtRule
<1>2. req.rule # None => req.rule \in Live /\ Bucket(req.rule) = req.bucket
  BY <1>0 DEF HoldInv, WalkHolds
<1>3. req.rule # None => /\ Chain(req.rule) = {req.rule} \cup Chain(rule[req.rule].next)
                         /\ req.rule \notin Chain(rule[req.rule].next)
  BY <1>0, <1>2, ChainStep, ChainIs, NoCycle DEF Live
<1>4. req.skip # 0 => /\ req.rule # None
                      /\ dump.last \in Live /\ Bucket(dump.last) = req.bucket
                      /\ IdOf(dump.last) = req.skip
                      /\ dump.last \in Chain(req.rule)
  BY ChainOfNone, ChainIs DEF DumpInv, ResumeHolds
<1>5. ~Skipped => AtRule = req.rule
  BY <1>0, <1>1, <1>2, <1>4 DEF Skipped, Apart
<1>. QED
  BY <1>1, <1>2, <1>3, <1>4, <1>5

LEMMA OpenDumpStep ==
  ASSUME TypeOK, TableInv, HoldInv, DumpInv, NEW due \in Live \cup {None}, OpenDump(due)
  PROVE  DumpInv'
<1>0. UNCHANGED table /\ UNCHANGED link /\ dump.at = "off" /\ req' = Walk(dump)
  BY DEF OpenDump, Begin
<1>1. /\ dump = [NoDump EXCEPT !.wrong = FALSE] /\ dump.last = None /\ dump.bucket = 0
      /\ dump.id = 0 /\ dump.times = 0 /\ dump.sound /\ ~dump.wrong /\ dump \in DumpType
      /\ dump.due = None
  BY <1>0, DumpIs
<1>2. CASE link.dev = "up" /\ Apart
  <2>1. dump' = [dump EXCEPT !.at = "open", !.due = due]
    BY <1>2 DEF OpenDump
  <2>2. /\ dump'.at = "open" /\ dump'.due = due /\ dump'.sound /\ dump'.last = None
        /\ dump'.times = 0 /\ ~dump'.wrong
    BY <1>1, <2>1 DEF DumpType
  <2>3. req'.op = "dump" /\ req'.skip = 0 /\ req'.bucket = 0 /\ req'.rule = head[0]
    BY <1>0, <1>1 DEF Walk, NoReq
  <2>4. Live' = Live /\ Apart' /\ \A m : Bucket(m)' = Bucket(m) /\ Chain(m)' = Chain(m)
    BY <1>0, <1>2, ChainIs DEF table, Live, Apart, Bucket, IdOf
  <2>5. FollowedHolds' /\ DumpOff' /\ DumpExact'
    BY <1>0, <1>2, <2>2, <2>4 DEF FollowedHolds, DumpOff, DumpExact, Followed
  <2>6. ResumeHolds'
    BY <2>2, <2>3 DEF ResumeHolds
  <2>7. ReportedIsPast'
    <3>1. SUFFICES ASSUME due # None
                   PROVE  ~(Bucket(due) < 0) /\ (Bucket(due) = 0 => due \in Chain(head[0]))
      <4>1. AtBucket' = 0 /\ AtRule' = head[0]
        BY <2>3 DEF AtBucket, AtRule
      <4>2. Bucket(dump.due)' = Bucket(due) /\ Chain(AtRule)' = Chain(head[0])
        BY <1>0, <2>2, <4>1, ChainIs DEF Bucket, table
      <4>. QED
        BY <2>2, <4>1, <4>2 DEF ReportedIsPast
    <3>2. due \in Live /\ Bucket(due) \in Nat /\ due \in Chain(head[Bucket(due)])
      BY <3>1, TableTypes, BucketNumbers DEF TableInv, Reached
    <3>. QED
      BY <3>2
  <2>. QED
    BY <2>5, <2>6, <2>7 DEF DumpInv
<1>3. CASE ~(link.dev = "up" /\ Apart)
  <2> DEFINE d == [dump EXCEPT !.at = "open"]
  <2>1. d \in DumpType /\ d.at = "open" /\ d.wrong = dump.wrong /\ dump' = Upset(d)
    BY <1>1, <1>3 DEF OpenDump, DumpType
  <2>. HIDE DEF d
  <2>2. dump'.at = "open" /\ ~dump'.sound /\ dump'.due = None /\ ~dump'.wrong
    BY <1>1, <2>1, UpsetIs
  <2>. QED
    BY <2>2, Unfollowed DEF Followed, DumpOff
<1>. QED
  BY <1>2, <1>3

LEMMA ContinueDumpStep ==
  ASSUME TypeOK, TableInv, HoldInv, DumpInv, ContinueDump
  PROVE  DumpInv'
<1>0. UNCHANGED table /\ UNCHANGED link /\ dump.at = "open" /\ req = NoReq /\ req.op = "none"
  BY DEF ContinueDump, NoReq
<1>1. CASE link.dev = "gone" /\ DumpDone /\ UNCHANGED req
  <2>1. dump.due = None /\ dump.wrong = FALSE
    BY <1>1, DumpIs
  <2>2. dump' = [NoDump EXCEPT !.wrong = FALSE]
    BY <1>1, <2>1 DEF DumpDone
  <2>. QED
    BY <1>0, <1>1, <2>2, TurnedOff
<1>2. CASE req' = Walk(dump) /\ UNCHANGED dump
  <2>1. req'.op = "dump" /\ req'.skip = dump.id /\ req'.bucket = dump.bucket
        /\ req'.rule = head[dump.bucket]
    BY <1>2 DEF Walk, NoReq
  <2>2. Live' = Live /\ (Apart => Apart')
        /\ \A m : Bucket(m)' = Bucket(m) /\ Chain(m)' = Chain(m) /\ IdOf(m)' = IdOf(m)
    BY <1>0, ChainIs DEF table, Live, Apart, Bucket, IdOf
  <2>3. DumpOff' /\ DumpExact'
    BY <1>0, <1>2 DEF DumpOff, DumpInv, DumpExact
  <2>4. CASE ~Followed
    <3>1. dump.due = None /\ ~Followed' /\ ~dump.wrong
      BY <1>2, <2>4, DumpIs DEF Followed
    <3>. QED
      BY <1>2, <2>3, <3>1, Unfollowed
  <2>5. CASE Followed
    <3>1. /\ link.dev = "up" /\ Apart /\ dump.last # None /\ dump.last \in Live
          /\ Bucket(dump.last) = dump.bucket /\ IdOf(dump.last) = dump.id /\ dump.id # 0
      BY <1>0, <2>5, DumpIs DEF DumpInv, ResumeHolds, Apart
    <3>2. dump.last \in Chain(head[dump.bucket])
      BY <3>1 DEF TableInv, Reached
    <3>3. FollowedHolds'
      BY <1>0, <1>2, <2>2, <3>1 DEF DumpInv, FollowedHolds, Followed
    <3>4. Bucket(dump.last)' = Bucket(dump.last) /\ IdOf(dump.last)' = IdOf(dump.last)
      BY <1>2, <2>2
    <3>5. dump'.last \in ChainIn(rule', req'.rule)
      BY <1>2, <2>1, <2>2, <3>2, ChainIs
    <3>6. ResumeHolds'
      BY <1>2, <2>1, <2>2, <3>1, <3>4, <3>5, ChainIs DEF ResumeHolds
    <3>7. /\ AtBucket = dump.bucket /\ AtBucket' = dump.bucket
          /\ AtRule = dump.last /\ AtRule' = dump.last
      BY <1>0, <1>2, <2>1, <3>1 DEF AtBucket, AtRule
    <3>8. Bucket(dump.due)' = Bucket(dump.due)
          /\ ChainIn(rule', dump.last) = ChainIn(rule, dump.last)
      BY <1>2, <2>2, ChainIs
    <3>9. ReportedIsPast'
      BY <1>2, <3>7, <3>8, ChainIs DEF DumpInv, ReportedIsPast
    <3>. QED
      BY <2>3, <3>3, <3>6, <3>9 DEF DumpInv
  <2>. QED
    BY <2>4, <2>5
<1>. QED
  BY <1>1, <1>2 DEF ContinueDump

\* A call that goes on in a dump that is not followed.
LEMMA UnfollowedOn ==
  ASSUME TypeOK, DumpInv, ~Followed, req.op = "dump",
         dump'.at = dump.at, dump'.sound = dump.sound, dump'.due = dump.due,
         dump'.wrong = dump.wrong
  PROVE  DumpInv'
<1>1. dump'.due = None /\ ~dump'.wrong /\ ~Followed' /\ dump'.at = "open"
  BY DumpIs DEF Followed
<1>. QED
  BY <1>1, Unfollowed DEF DumpOff

\* A call that goes on in a dump that is followed.
LEMMA FollowedOn ==
  ASSUME TypeOK, DumpInv, Followed, UNCHANGED table, UNCHANGED link,
         dump'.at = "open", dump'.sound, dump'.due = dump.due, dump'.wrong = FALSE,
         ResumeHolds',
         dump.due # None =>
           (dump'.times = 1 <=> \/ Bucket(dump.due) < AtBucket'
                                \/ /\ Bucket(dump.due) = AtBucket'
                                   /\ dump.due \notin ChainIn(rule, AtRule'))
  PROVE  DumpInv'
<1>1. rule' = rule /\ Live' = Live /\ (Apart => Apart')
  BY DEF table, Live, Apart, Bucket, IdOf
<1>2. DumpOff' /\ DumpExact' /\ Followed'
  BY DEF DumpOff, DumpExact, Followed
<1>3. FollowedHolds'
  BY <1>1, <1>2 DEF DumpInv, FollowedHolds
<1>4. ReportedIsPast'
  <2>1. Bucket(dump.due)' = Bucket(dump.due)
    BY <1>1 DEF Bucket
  <2>2. Chain(AtRule)' = ChainIn(rule, AtRule')
    BY <1>1, ChainIs
  <2>. QED
    BY <2>1, <2>2 DEF ReportedIsPast
<1>. QED
  BY <1>2, <1>3, <1>4 DEF DumpInv

LEMMA PassRuleStep ==
  ASSUME TypeOK, TableInv, HoldInv, DumpInv, PassRule
  PROVE  DumpInv'
<1>0. /\ UNCHANGED table /\ UNCHANGED link /\ dump' = dump /\ req.op = "dump"
      /\ req.rule # None /\ req.skip # 0 /\ IdOf(req.rule) # req.skip
      /\ req.op = "dump" /\ req' = [req EXCEPT !.rule = rule[req.rule].next] /\ req \in ReqType
  BY DEF PassRule, Standing, Skipped, Walking, TypeOK
<1>1. /\ req'.op = "dump" /\ req'.skip = req.skip /\ req'.bucket = req.bucket
      /\ req'.rule = rule[req.rule].next
  BY <1>0 DEF ReqType
<1>2. CASE ~Followed
  BY <1>0, <1>2, UnfollowedOn
<1>3. CASE Followed
  <2>1. /\ AtBucket = req.bucket /\ AtRule = dump.last
        /\ Chain(req.rule) = {req.rule} \cup Chain(rule[req.rule].next)
        /\ dump.last \in Live /\ Bucket(dump.last) = req.bucket
        /\ IdOf(dump.last) = req.skip /\ dump.last \in Chain(req.rule)
    BY <1>0, <1>3, StandsAt
  <2>2. dump.last \in Chain(req'.rule)
    BY <1>0, <1>1, <2>1
  <2>3. /\ dump.last # None /\ req.skip = dump.id /\ req.bucket = dump.bucket
        /\ IdOf(dump.last) = dump.id
    BY <1>0, <1>3 DEF DumpInv, ResumeHolds
  <2>4. rule' = rule /\ Live' = Live
    BY <1>0 DEF table, Live
  <2>5. dump'.last \in Chain(req.rule)'
    BY <1>0, <2>2, <2>4, ChainIs
  <2>6. Bucket(dump.last)' = req.bucket /\ IdOf(dump.last)' = dump.id
    BY <1>0, <2>1, <2>3, <2>4 DEF Bucket, IdOf
  <2>7. ResumeHolds'
    BY <1>0, <1>1, <2>1, <2>3, <2>4, <2>5, <2>6 DEF ResumeHolds
  <2>8. AtBucket' = AtBucket /\ AtRule' = AtRule
    BY <1>0, <1>1, <2>1 DEF AtBucket, AtRule
  <2>9. dump.at = "open" /\ dump.sound /\ dump.wrong = FALSE
    BY <1>3, DumpIs DEF Followed
  <2>10. dump.due # None =>
           (dump'.times = 1 <=> \/ Bucket(dump.due) < AtBucket'
                                \/ /\ Bucket(dump.due) = AtBucket'
                                   /\ dump.due \notin ChainIn(rule, AtRule'))
    BY <1>0, <2>8, ChainIs DEF DumpInv, ReportedIsPast
  <2>. QED
    BY <1>0, <1>3, <2>7, <2>9, <2>10, FollowedOn
<1>. QED
  BY <1>2, <1>3

LEMMA FillRuleStep ==
  ASSUME TypeOK, TableInv, HoldInv, DumpInv, FillRule
  PROVE  DumpInv'
<1>0. /\ UNCHANGED table /\ UNCHANGED link /\ req.op = "dump" /\ req.rule # None /\ ~Skipped
      /\ req' = [req EXCEPT !.rule = rule[req.rule].next, !.skip = 0, !.left = req.left - 1]
      /\ req \in ReqType /\ dump \in DumpType
  BY DEF FillRule, Standing, Walking, TypeOK
<1>1. /\ req'.op = "dump" /\ req'.skip = 0 /\ req'.bucket = req.bucket
      /\ req'.rule = rule[req.rule].next
  BY <1>0 DEF ReqType
<1>2. CASE ~Followed
  <2>1. dump.due = None
    BY <1>2, DumpIs
  <2>2. dump' = dump
    BY <1>0, <2>1 DEF FillRule
  <2>. QED
    BY <1>0, <1>2, <2>2, UnfollowedOn
<1>3. CASE Followed
  <2>1. /\ AtBucket = req.bucket /\ AtRule = req.rule
        /\ req.rule \in Live /\ Bucket(req.rule) = req.bucket
        /\ Chain(req.rule) = {req.rule} \cup Chain(rule[req.rule].next)
        /\ req.rule \notin Chain(rule[req.rule].next)
    BY <1>0, <1>3, StandsAt
  <2>2. AtBucket' = req.bucket /\ AtRule' = rule[req.rule].next
    BY <1>1 DEF AtBucket, AtRule
  <2>3. dump.at = "open" /\ dump.sound /\ dump.wrong = FALSE
    BY <1>3, DumpIs DEF Followed
  <2>4. dump.due # None =>
          /\ dump.due \in Live
          /\ dump.times = 1 <=> \/ Bucket(dump.due) < req.bucket
                                \/ Bucket(dump.due) = req.bucket /\ dump.due \notin Chain(req.rule)
    BY <2>1 DEF DumpInv, FollowedHolds, ReportedIsPast
  <2>5. /\ dump'.at = "open" /\ dump'.sound /\ dump'.due = dump.due /\ dump'.wrong = FALSE
        /\ dump'.last = dump.last /\ dump'.bucket = dump.bucket /\ dump'.id = dump.id
        /\ dump'.times = IF req.rule = dump.due THEN 1 ELSE dump.times
    <3>1. CASE req.rule = dump.due
      <4>1. dump' = [dump EXCEPT !.times = 1, !.wrong = dump.wrong \/ dump.times = 1]
        BY <3>1 DEF FillRule
      <4>2. dump.times # 1
        <5>1. Bucket(dump.due) = req.bucket /\ dump.due \in Chain(req.rule) /\ dump.due # None
          BY <1>0, <2>1, <3>1
        <5>2. req.bucket \in Nat
          BY <1>0, BucketNumbers DEF ReqType
        <5>. QED
          BY <2>4, <5>1, <5>2
      <4>. QED
        BY <1>0, <2>3, <3>1, <4>1, <4>2 DEF DumpType
    <3>2. CASE req.rule # dump.due
      BY <2>3, <3>2 DEF FillRule
    <3>. QED
      BY <3>1, <3>2
  <2>6. rule' = rule /\ Live' = Live
    BY <1>0 DEF table, Live
  <2>7. ResumeHolds'
    <3>1. dump.last # None =>
            dump.last \in Live /\ Bucket(dump.last) = dump.bucket /\ IdOf(dump.last) = dump.id
      BY <1>3 DEF DumpInv, ResumeHolds
    <3>2. Bucket(dump.last)' = Bucket(dump.last) /\ IdOf(dump.last)' = IdOf(dump.last)
      BY <2>5, <2>6 DEF Bucket, IdOf
    <3>. QED
      BY <1>1, <2>5, <2>6, <3>1, <3>2 DEF ResumeHolds
  <2>8. dump.due # None =>
          (dump'.times = 1 <=> \/ Bucket(dump.due) < AtBucket'
                               \/ /\ Bucket(dump.due) = AtBucket'
                                  /\ dump.due \notin ChainIn(rule, AtRule'))
    <3>1. SUFFICES ASSUME dump.due # None
                   PROVE  dump'.times = 1 <=>
                            \/ Bucket(dump.due) < req.bucket
                            \/ Bucket(dump.due) = req.bucket
                               /\ dump.due \notin Chain(rule[req.rule].next)
      BY <2>2, ChainIs
    <3>2. CASE req.rule = dump.due
      BY <2>1, <2>5, <3>2
    <3>3. CASE req.rule # dump.due
      BY <2>1, <2>4, <2>5, <3>1, <3>3
    <3>. QED
      BY <3>2, <3>3
  <2>. QED
    BY <1>0, <1>3, <2>5, <2>7, <2>8, FollowedOn
<1>. QED
  BY <1>2, <1>3

LEMMA MessageFullStep ==
  ASSUME TypeOK, TableInv, HoldInv, DumpInv, MessageFull
  PROVE  DumpInv'
<1>0. /\ UNCHANGED table /\ UNCHANGED link /\ req.op = "dump" /\ req.rule # None /\ ~Skipped
      /\ req' = NoReq /\ dump \in DumpType /\ dump.at = "open"
      /\ dump' = [dump EXCEPT !.bucket = req.bucket, !.id = IdOf(req.rule),
                              !.last = IF dump.sound THEN req.rule ELSE None]
  BY DumpIs DEF MessageFull, Standing, Walking
<1>1. req'.op = "none"
  BY <1>0 DEF NoReq
<1>2. /\ dump'.at = "open" /\ dump'.sound = dump.sound /\ dump'.due = dump.due
      /\ dump'.wrong = dump.wrong /\ dump'.times = dump.times
      /\ dump'.bucket = req.bucket /\ dump'.id = IdOf(req.rule)
      /\ dump'.last = IF dump.sound THEN req.rule ELSE None
  BY <1>0 DEF DumpType
<1>3. CASE ~Followed
  BY <1>0, <1>2, <1>3, UnfollowedOn
<1>4. CASE Followed
  <2>1. /\ AtBucket = req.bucket /\ AtRule = req.rule
        /\ req.rule \in Live /\ Bucket(req.rule) = req.bucket
    BY <1>0, <1>4, StandsAt
  <2>2. dump.sound /\ dump.wrong = FALSE /\ dump'.last = req.rule
    BY <1>2, <1>4, DumpIs DEF Followed
  <2>3. AtBucket' = req.bucket /\ AtRule' = req.rule
    BY <1>1, <1>2, <2>2 DEF AtBucket, AtRule
  <2>4. rule' = rule /\ Live' = Live
    BY <1>0 DEF table, Live
  <2>5. ResumeHolds'
    <3>1. Bucket(dump.last)' = req.bucket /\ IdOf(dump.last)' = IdOf(req.rule)
      BY <2>1, <2>2, <2>4 DEF Bucket, IdOf
    <3>. QED
      BY <1>0, <1>1, <1>2, <2>1, <2>2, <2>4, <3>1 DEF ResumeHolds
  <2>6. dump.due # None =>
          (dump'.times = 1 <=> \/ Bucket(dump.due) < AtBucket'
                               \/ /\ Bucket(dump.due) = AtBucket'
                                  /\ dump.due \notin ChainIn(rule, AtRule'))
    BY <1>2, <2>1, <2>3, ChainIs DEF DumpInv, ReportedIsPast
  <2>. QED
    BY <1>0, <1>2, <1>4, <2>2, <2>5, <2>6, FollowedOn
<1>. QED
  BY <1>3, <1>4

LEMMA NextBucketStep ==
  ASSUME TypeOK, TableInv, HoldInv, DumpInv, NextBucket
  PROVE  DumpInv'
<1>0. /\ UNCHANGED table /\ UNCHANGED link /\ req.op = "dump" /\ req.rule = None
      /\ req \in ReqType /\ dump \in DumpType /\ dump.wrong = FALSE /\ req.bucket \in Buckets
  BY DumpIs DEF NextBucket, Walking, TypeOK, ReqType
\* All rules of the buckets up to this one are past.
<1>1. ASSUME Followed, dump.due # None
      PROVE  /\ dump.due \in Live /\ Bucket(dump.due) \in Buckets
             /\ dump.times = 1 <=> Bucket(dump.due) < req.bucket + 1
  <2>1. AtBucket = req.bucket /\ AtRule = None
    BY <1>0, <1>1, StandsAt
  <2>2. dump.due \in Live /\ Bucket(dump.due) \in Buckets
    BY <1>1, TableTypes DEF DumpInv, FollowedHolds
  <2>3. dump.times = 1 <=> Bucket(dump.due) < req.bucket \/ Bucket(dump.due) = req.bucket
    BY <1>1, <2>1, ChainOfNone, ChainIs DEF DumpInv, ReportedIsPast
  <2>4. req.bucket \in Nat /\ Bucket(dump.due) \in Nat
    BY <1>0, <2>2, BucketNumbers
  <2>. QED
    BY <2>2, <2>3, <2>4
<1>2. CASE LastBucket
  <2>1. DumpDone /\ req' = NoReq
    BY <1>2 DEF NextBucket
  <2>2. ~(dump.due # None /\ dump.times = 0)
    <3>1. SUFFICES ASSUME dump.due # None PROVE dump.times # 0
      OBVIOUS
    <3>2. Bucket(dump.due) \in Buckets /\ (dump.times = 1 <=> Bucket(dump.due) < req.bucket + 1)
      BY <1>1, <3>1, DumpIs
    <3>3. Bucket(dump.due) < req.bucket + 1
      BY <1>2, <3>2, GenlAssumption DEF LastBucket, Buckets
    <3>. QED
      BY <3>2, <3>3
  <2>3. dump' = [NoDump EXCEPT !.wrong = FALSE]
    BY <1>0, <2>1, <2>2 DEF DumpDone
  <2>. QED
    BY <2>1, <2>3, TurnedOff DEF NoReq
<1>3. CASE ~LastBucket
  <2> DEFINE c == req.bucket + 1
  <2>1. req' = [req EXCEPT !.bucket = c, !.rule = head[c]] /\ dump' = dump /\ c \in Buckets
    BY <1>0, <1>3, BucketNumbers DEF NextBucket, LastBucket
  <2>2. req'.op = "dump" /\ req'.skip = req.skip /\ req'.bucket = c /\ req'.rule = head[c]
    BY <1>0, <2>1 DEF ReqType
  <2>3. CASE ~Followed
    BY <1>0, <2>1, <2>3, UnfollowedOn
  <2>4. CASE Followed
    <3>1. req.skip = 0
      BY <1>0, <2>4, StandsAt
    <3>2. AtBucket' = c /\ AtRule' = head[c]
      BY <2>2, <3>1 DEF AtBucket, AtRule
    <3>3. dump.at = "open" /\ dump.sound
      BY <2>4 DEF Followed
    <3>4. rule' = rule /\ Live' = Live
      BY <1>0 DEF table, Live
    <3>5. ResumeHolds'
      <4>1. dump.last # None =>
              dump.last \in Live /\ Bucket(dump.last) = dump.bucket /\ IdOf(dump.last) = dump.id
        BY <2>4 DEF DumpInv, ResumeHolds
      <4>2. Bucket(dump.last)' = Bucket(dump.last) /\ IdOf(dump.last)' = IdOf(dump.last)
        BY <2>1, <3>4 DEF Bucket, IdOf
      <4>. QED
        BY <2>1, <2>2, <3>1, <3>4, <4>1, <4>2 DEF ResumeHolds
    <3>6. dump.due # None =>
            (dump'.times = 1 <=> \/ Bucket(dump.due) < AtBucket'
                                 \/ /\ Bucket(dump.due) = AtBucket'
                                    /\ dump.due \notin ChainIn(rule, AtRule'))
      <4>1. SUFFICES ASSUME dump.due # None
                     PROVE  dump.times = 1 <=> \/ Bucket(dump.due) < c
                                               \/ /\ Bucket(dump.due) = c
                                                  /\ dump.due \notin Chain(head[c])
        BY <2>1, <3>2, ChainIs
      <4>2. dump.due \in Live /\ (dump.times = 1 <=> Bucket(dump.due) < c)
        BY <1>1, <2>4, <4>1
      <4>3. Bucket(dump.due) = c => dump.due \in Chain(head[c])
        BY <4>2 DEF TableInv, Reached
      <4>. QED
        BY <4>2, <4>3
    <3>. QED
      BY <1>0, <2>1, <2>4, <3>3, <3>5, <3>6, FollowedOn
  <2>. QED
    BY <2>3, <2>4
<1>. QED
  BY <1>2, <1>3

LEMMA LinkDumpStep ==
  ASSUME TypeOK, TableInv, HoldInv, DumpInv, LinkStep
  PROVE  DumpInv'
<1>0. UNCHANGED req
  BY StepOps
<1>1. CASE BeginDellink
  BY <1>0, <1>1, UpsetStep DEF BeginDellink
<1>2. CASE SweepUnlinks
  <2>1. link.rule \in Live /\ link.dev = "sweep" /\ TakeOut(link.rule)
    BY <1>2 DEF SweepUnlinks, SweepingRule, Sweeping, HoldInv, WindowsHold
  <2>2. ~Followed /\ dump.due = None
    BY <2>1, DumpIs
  <2>3. dump' = DumpAfter(link.rule) /\ link.rule # None
    BY <2>1, DumpAfterIs, GenlAssumption DEF Live, TakeOut
  <2>4. dump' = Upset(dump) \/ dump' = dump
    BY <2>2, <2>3 DEF DumpAfter
  <2>. QED
    BY <1>0, <2>2, <2>4, UpsetStep, UnfollowedStep
<1>3. CASE SweepLoads \/ SweepRule \/ SweepNext \/ SweepBucket \/ FreeArrays \/ EndDellink
  <2>1. link.dev # "up" /\ dump' = dump
    BY <1>3 DEF SweepLoads, SweepRule, SweepNext, SweepBucket, FreeArrays, EndDellink,
                SweepingRule, Sweeping
  <2>. QED
    BY <1>0, <2>1, DumpIs, UnfollowedStep
<1>4. ASSUME NEW n \in Rule, FreeRule(n) PROVE DumpInv'
  <2>1. link.dev # "up" /\ dump' = dump
    BY <1>4 DEF FreeRule, HoldInv, NoneDying
  <2>. QED
    BY <1>0, <2>1, DumpIs, UnfollowedStep
<1>. QED
  BY <1>1, <1>2, <1>3, <1>4 DEF LinkStep

LEMMA DumpNext ==
  ASSUME TypeOK, TableInv, HoldInv, DumpInv, Step
  PROVE  DumpInv'
<1>0. rule \in [Rule -> RuleType]
  BY DEF TypeOK
<1>1. CASE AddStep
  <2>0. req.op # "dump" /\ req'.op # "dump" /\ UNCHANGED link
    BY <1>1, StepOps, StepLink
  <2>1. CASE BeginAdd \/ AddKeeps
    <3>1. SameLive /\ dump' = dump
      BY <1>0, <2>1 DEF BeginAdd, AddKeeps, SameLive, table
    <3>. QED
      BY <2>0, <3>1, SameLiveDump
  <2>2. ASSUME NEW name \in Name, AddTakes(name) PROVE DumpInv'
    <3>1. Found(name) \in Live
      BY <2>2, FoundIs DEF AddTakes
    <3>. QED
      BY <2>0, <2>2, <3>1, RemovedDump DEF AddTakes
  <2>. QED
    BY <1>1, <2>1, <2>2, AddPutsDump DEF AddStep
<1>2. CASE SectionStep
  <2>0. req.op # "dump" /\ req'.op # "dump" /\ UNCHANGED link
    BY <1>2, StepOps, StepLink
  <2>1. CASE SectionDone
    <3>1. SameLive /\ dump' = dump
      BY <1>0, <2>1, SectionEndedIs DEF SectionDone, SameLive
    <3>. QED
      BY <2>0, <3>1, SameLiveDump
  <2>2. ASSUME NEW op, NEW name, FindRule(op, name) PROVE DumpInv'
    <3>1. SameLive /\ dump' = dump
      BY <1>0, <2>2 DEF FindRule, SameLive, table
    <3>. QED
      BY <2>0, <3>1, SameLiveDump
  <2>3. CASE DeleteUnlinks
    <3>1. req.rule \in Live /\ TakeOut(req.rule)
      BY <2>3 DEF DeleteUnlinks, Deleting, HoldInv, WindowsHold
    <3>. QED
      BY <2>0, <3>1, RemovedDump
  <2>4. CASE DeleteLoads
    <3>1. SameLive /\ dump' = dump
      BY <1>0, <2>4 DEF DeleteLoads, SameLive, table
    <3>. QED
      BY <2>0, <3>1, SameLiveDump
  <2>5. CASE DeleteEnds
    <3>1. SameLive /\ dump' = dump
      BY <2>5, DeleteEndsIs DEF DeleteEnds
    <3>. QED
      BY <2>0, <3>1, SameLiveDump
  <2>. QED
    BY <1>2, <2>1, <2>2, <2>3, <2>4, <2>5 DEF SectionStep
<1>3. CASE DumpStep
  BY <1>3, OpenDumpStep, ContinueDumpStep, PassRuleStep, FillRuleStep, MessageFullStep, NextBucketStep
  DEF DumpStep
<1>4. CASE Faulted
  <2>1. dump' = NoDump /\ req'.op # "dump"
    BY <1>4 DEF Faulted, NoReq
  <2>2. NoDump = [NoDump EXCEPT !.wrong = FALSE]
    <3>1. \A d \in DumpType : d.wrong = FALSE => d = [d EXCEPT !.wrong = FALSE]
      BY DEF DumpType
    <3>2. NoDump.wrong = FALSE
      BY DEF NoDump
    <3>. QED
      BY <3>1, <3>2, StartTypes
  <2>. QED
    BY <2>1, <2>2, TurnedOff
<1>. QED
  BY <1>1, <1>2, <1>3, <1>4, LinkDumpStep DEF Step

-----------------------------------------------------------------------------
\* The theorems

LEMMA IInvInit == ASSUME Init PROVE IInv
<1>1. rule = [n \in Rule |-> NoRule] /\ head = [b \in Buckets |-> None]
  BY DEF Init
<1>2. \A n \in Rule : rule[n] = NoRule
  BY <1>1
<1>3. Live = {} /\ \A b \in Buckets : head[b] = None
  BY <1>1, <1>2, NoRuleIs DEF Live
<1>4. TypeOK
  BY <1>1, StartTypes, NoRuleIs DEF Init, TypeOK
<1>5. TableInv
  BY <1>2, <1>3, NoRuleIs DEF TableInv, Named, Linked, LedToOnce, Reached, NamesUnique
<1>6. HoldInv
  <2>1. req.op = "none" /\ req.cut = "no" /\ link.cut = "no" /\ fault = "none"
    BY DEF Init, NoReq, NoLink
  <2>. QED
    BY <1>2, <2>1, NoRuleIs
    DEF HoldInv, NoneDying, SectionHolds, WalkHolds, FaultStops, CutStands, WindowsHold, Open,
        InSection
<1>7. DumpInv
  <2>1. dump = NoDump /\ req.op = "none"
    BY DEF Init, NoReq
  <2>2. dump.at = "off" /\ dump.due = None /\ dump.wrong = FALSE
        /\ dump = [NoDump EXCEPT !.wrong = dump.wrong]
    BY <2>1 DEF NoDump
  <2>. QED
    BY <2>1, <2>2
    DEF DumpInv, DumpOff, FollowedHolds, ResumeHolds, ReportedIsPast, DumpExact, Followed
<1>. QED
  BY <1>4, <1>5, <1>6, <1>7 DEF IInv

LEMMA IInvNext == ASSUME IInv, [Next]_vars PROVE IInv'
<1>1. TypeOK' /\ TableInv'
  BY TableNext, TypeNext DEF IInv
<1>2. CASE Next
  <2>1. Step
    BY <1>2, NextIs DEF IInv, Step
  <2>. QED
    BY <1>1, <2>1, HoldNext, DumpNext DEF IInv
<1>3. CASE UNCHANGED vars
  <2>1. HoldInv'
    BY <1>3 DEF IInv, HoldInv, NoneDying, SectionHolds, WalkHolds, FaultStops, CutStands, WindowsHold,
                InSection, Live, Bucket, vars, table
  <2>2. DumpInv'
    <3>1. rule' = rule /\ req' = req /\ dump' = dump /\ link' = link
      BY <1>3 DEF vars, table
    <3>2. /\ Live' = Live /\ (Apart' <=> Apart) /\ (Followed' <=> Followed)
          /\ AtBucket' = AtBucket /\ AtRule' = AtRule
          /\ \A m : Chain(m)' = Chain(m)
      BY <3>1, ChainIs DEF Live, Apart, Followed, AtBucket, AtRule, Bucket, IdOf
    <3>. QED
      BY <3>1, <3>2, ChainIs
      DEF IInv, DumpInv, DumpOff, FollowedHolds, ResumeHolds, ReportedIsPast, DumpExact, Bucket, IdOf
  <2>. QED
    BY <1>1, <2>1, <2>2 DEF IInv
<1>. QED
  BY <1>2, <1>3

\* The inductive invariant holds in every state: of any set of rules, names and
\* buckets, any hash, any message size, and requests, dumps, faults and the
\* deletion of the link in any order.
THEOREM GenlInvariance == Spec => []IInv
  BY IInvInit, IInvNext, PTL DEF Spec

\* The types of the requests' state.
THEOREM GenlTypes == Spec => []TypeOK
<1>1. IInv => TypeOK
  BY DEF IInv
<1>. QED
  BY <1>1, GenlInvariance, PTL

\* The buckets hold exactly the live rules, each where its name hashes to and
\* once, and no two of one name: no add, delete or teardown loses a rule of a
\* bucket or leaves two, between the stores of unlinks that overlap elsewhere
\* in the hash as well, up to the fault of unlinks of neighbours that overlap.
THEOREM HashIsExact == Spec => []HashExact
<1>1. IInv => HashExact
  <2>1. SUFFICES ASSUME IInv PROVE HashExact
    OBVIOUS
  <2>2. \A b \in Buckets : Chain(head[b]) = {n \in Live : Bucket(n) = b}
    BY <2>1, BucketIsChain DEF IInv
  <2>. QED
    BY <2>1, <2>2 DEF IInv, TableInv, NamesUnique, LedToOnce, HashExact
<1>. QED
  BY <1>1, GenlInvariance, PTL

\* A delete or get has a rule that is allocated, as long as no two unlinks of
\* neighbours have overlapped, and neither that nor another fault comes before
\* the deletion of the link.
THEOREM MemoryIsSafe == Spec => []SafeMemory
<1>1. IInv => SafeMemory
  BY DEF IInv, HoldInv, SectionHolds, FaultStops, SafeMemory
<1>. QED
  BY <1>1, GenlInvariance, PTL

\* A dump reports each rule that stays once, whatever is added and deleted
\* between its calls, on the conditions under which it is followed.
THEOREM DumpsAreExact == Spec => []DumpExact
<1>1. IInv => DumpExact
  BY DEF IInv, DumpInv
<1>. QED
  BY <1>1, GenlInvariance, PTL

=============================================================================
