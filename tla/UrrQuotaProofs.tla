--------------------------- MODULE UrrQuotaProofs ---------------------------
(***************************************************************************)
(* Proofs about usage reporting.  For any PDRs, FARs, URRs and messages, a *)
(* URR that the packet handlers stop is reported.  On the conditions that  *)
(* are named below, stop and resume undo each other but for FARs that a    *)
(* stop tangles, no usage is lost but where the code drops it, and a quota *)
(* is overrun by less than a packet.                                       *)
(***************************************************************************)
EXTENDS UrrQuota, TLAPS, SequenceTheorems, FiniteSetTheorems, WellFoundedInduction

-----------------------------------------------------------------------------
\* Conditions

\* Loads and stores of a counter do not race.
OneCpu == \A c, d \in Cpu : c = d

\* No two PDRs ever share a FAR.
Apart == \A l \in Links : \A p, q \in Pdr : l[p] = l[q] /\ l[p] # None => p = q

\* A message may give the URR a trigger that stops it.
MayStop(u) == \E m \in Msg[u] : m.trigger \cap {"volqu", "start"} # {}
MayMeter(u) == \E m \in Msg[u] : "volqu" \in m.trigger
MayLackTrigger(u) == \E m \in Msg[u] : m.trigger = {}

\* At most one URR of a PDR can stop.
OneStops == \A p \in Pdr : \A u, v \in UrrsOn(p) : MayStop(u) /\ MayStop(v) => u = v

\* Who asks for volume quota reports grants a quota, and does not ask for a
\* stop with it.
QuotaGiven ==
  \A u \in Urr : \A m \in Msg[u] :
    "volqu" \in m.trigger => m.quota # None /\ (m.zero => m.quota = 0)

\* check_urr gives up at a URR without a trigger: none with a quota is behind it.
MeteredFirst(s) ==
  \A i, j \in DOMAIN s : i < j /\ s[i] # None /\ s[j] # None =>
    ~(MayLackTrigger(s[i]) /\ MayMeter(s[j]))
AllMeteredFirst == \A p \in Pdr : MeteredFirst(UrrsOf[p])

QuotaConditions ==
  /\ Polite /\ Apart /\ OneStops
  /\ OneCpu /\ QuotaGiven /\ AllMeteredFirst

-----------------------------------------------------------------------------
\* The inductive invariant: reports

\* What a packet handler has in hand at each step of check_urr.
RxWhole ==
  \A c \in Cpu :
    /\ rx[c].at = "idle" => rx[c] = Idle
    /\ rx[c].at # "idle" => rx[c].pdr \in Pdr /\ rx[c].len \in Lengths
    /\ rx[c].at \in {"next", "store"} <=> rx[c].left # <<>>

\* A stop is known or will be: a packet under way has it among its reports.
StopKnown ==
  \A u \in Urr :
    urr[u].exhausted /\ ~(nl.urr = u /\ nl.quota # "none") /\ told[u] = "no" =>
      \E c \in Cpu : u \in Stops(c)

StopInv == TypeOK /\ RxWhole /\ StopKnown

-----------------------------------------------------------------------------
\* The inductive invariant: usage

\* What a packet handler has loaded covers what is due.
LoadCovers ==
  \A c \in Cpu : \A u \in Urr :
    rx[c].at = "store" /\ Head(rx[c].left) = u => due[u] <= rx[c].bytes + dropped[u]

UsageInv == NoneUnreported /\ LoadCovers

-----------------------------------------------------------------------------
\* The inductive invariant: the gate

Stopped(f) == \E p \in Pdr : \E u \in UrrsOn(p) : farOf[p] = f /\ urr[u].exhausted

FarsDo == \A f \in Far \ tangled : action[f] = IF Stopped(f) THEN "DROP" ELSE normal[f]

\* What a stopped URR goes back to last is what the control plane has set.
SavedLast ==
  \A u \in Urr, p \in Pdr :
    urr[u].exhausted =>
      IF p \in Related(u)
      THEN /\ urr[u].saved[p] # <<>>
           /\ farOf[p] \notin tangled => Last(urr[u].saved[p]) = normal[farOf[p]]
      ELSE urr[u].saved[p] = <<>>

\* Two URRs have not both stopped a FAR that had something to go back to.
StoppedOnce ==
  \A f \in Far \ tangled : normal[f] # "DROP" =>
    \A u, v \in Urr :
      urr[u].exhausted /\ urr[v].exhausted /\ f \in Fars(u) /\ f \in Fars(v) => u = v

GateInv == FarsDo /\ SavedLast /\ StoppedOnce

CanStop(w) == w.exhausted \/ w.trigger \cap {"volqu", "start"} # {}
StopsAllowed == \A u \in Urr : CanStop(urr[u]) => MayStop(u)

\* Nothing is forwarded to a FAR while a URR of its PDRs is stopped.
Shut == \A f \in Far : Stopped(f) => action[f] = "DROP"

ShutInv == farOf \in Links /\ StopsAllowed /\ Shut

-----------------------------------------------------------------------------
\* The inductive invariant: the quota

Counting(u) == "volqu" \in urr[u].trigger /\ urr[u].quota # 0 /\ passed[u] # None

\* What a packet under way may still count against URR u.
Pending(u) == {0} \cup {rx[c].len : c \in {d \in Cpu : u \in ToSet(rx[d].left)}}

\* Volume let through is volume consumed, but for the packet under way, and
\* either the quota was not used up before that packet or a grant has just
\* started it.
Within(u, n) ==
  /\ passed[u] <= urr[u].consumed + n
  /\ passed[u] <= n \/ urr[u].consumed < urr[u].quota

Overrun(u) == passed[u] >= urr[u].quota + Max(Lengths)

StoppedInTime(u) == urr[u].exhausted => ~Overrun(u) /\ (~urr[u].inam => passed[u] = 0)
Consuming(u) == ~urr[u].exhausted /\ ~urr[u].inam => \E n \in Pending(u) : Within(u, n)
StoreCounts(u) ==
  \A c \in Cpu : rx[c].at = "store" /\ Head(rx[c].left) = u =>
    passed[u] <= rx[c].consumed + rx[c].len /\ ~Overrun(u)
Accounted(u) == Counting(u) => StoppedInTime(u) /\ Consuming(u) /\ StoreCounts(u)

MetersAllowed ==
  \A u \in Urr :
    /\ "volqu" \in urr[u].trigger => MayMeter(u)
    /\ (urr[u].live \/ nl.urr = u) /\ urr[u].trigger = {} => MayLackTrigger(u)
    /\ nl.urr = u /\ nl.quota = "zero" /\ "volqu" \in urr[u].trigger => urr[u].quota = 0

QuotaInv ==
  /\ MetersAllowed
  /\ \A c \in Cpu : MeteredFirst(rx[c].left)
  /\ \A u \in Urr : Accounted(u)

-----------------------------------------------------------------------------
\* Constants, sequences

LEMMA Facts ==
  /\ \A p \in Pdr : UrrsOf[p] \in Seq(Urr) /\ UrrsOf[p] # <<>> /\ UrrsOn(p) \subseteq Urr
  /\ Lengths \subseteq Nat \ {0}
  /\ None \notin Far /\ None \notin Urr /\ None \notin Pdr /\ None \notin Nat /\ None \notin Actions
  /\ \A f \in Far : Action[f] \subseteq Actions
  /\ \A u \in Urr : Msg[u] \subseteq Msgs
  /\ Links \subseteq [Pdr -> Far \cup {None}]
<1>1. ASSUME NEW p \in Pdr
      PROVE  UrrsOf[p] \in Seq(Urr) /\ UrrsOf[p] # <<>> /\ UrrsOn(p) \subseteq Urr
  <2>1. UrrsOf[p] \in Seq(Urr) /\ UrrsOf[p] # <<>>
    BY UrrAssumption
  <2>2. \A i \in DOMAIN UrrsOf[p] : UrrsOf[p][i] \in Urr
    BY <2>1, ElementOfSeq, LenProperties
  <2>. QED
    BY <2>1, <2>2 DEF UrrsOn, ToSet
<1>. QED
  BY <1>1, UrrAssumption

\* The longest packet is at least as long as each.
LEMMA Longest == \A n \in Lengths : n <= Max(Lengths) /\ Max(Lengths) \in Lengths
<1>1. \E m \in Lengths : \A n \in Lengths : n <= m
  BY UrrAssumption
<1>2. \E m \in Lengths : \A n \in Lengths : m >= n
  BY <1>1, Facts
<1>. QED
  BY <1>2, Facts DEF Max

LEMMA InSeq ==
  ASSUME NEW S, NEW s \in Seq(S)
  PROVE  /\ ToSet(s) \subseteq S
         /\ s # <<>> => /\ Head(s) \in S /\ Tail(s) \in Seq(S) /\ Head(s) \in ToSet(s)
                        /\ ToSet(s) = {Head(s)} \cup ToSet(Tail(s))
         /\ ToSet(<<>>) = {}
<1>1. \A i \in 1..Len(s) : s[i] \in S
  BY ElementOfSeq
<1>2. ToSet(s) \subseteq S
  BY <1>1, LenProperties DEF ToSet
<1>3. ASSUME s # <<>>
      PROVE  /\ Head(s) \in S /\ Tail(s) \in Seq(S) /\ Head(s) \in ToSet(s)
             /\ ToSet(s) = {Head(s)} \cup ToSet(Tail(s))
  <2>1. /\ Head(s) \in S /\ Tail(s) \in Seq(S) /\ Len(Tail(s)) = Len(s) - 1
        /\ \A i \in 1..Len(Tail(s)) : Tail(s)[i] = s[i + 1]
    BY <1>3, HeadTailProperties
  <2>2. Len(s) \in Nat \ {0} /\ Head(s) = s[1]
    BY <1>3, EmptySeq, LenProperties
  <2>3. DOMAIN s = 1..Len(s) /\ DOMAIN Tail(s) = 1..(Len(s) - 1)
    BY <2>1, LenProperties
  <2>4. ToSet(Tail(s)) \subseteq ToSet(s)
    BY <2>1, <2>2, <2>3 DEF ToSet
  <2>5. ASSUME NEW i \in 1..Len(s)
        PROVE  s[i] \in {Head(s)} \cup ToSet(Tail(s))
    <3>1. CASE i = 1
      BY <2>2, <3>1
    <3>2. CASE i # 1
      <4>1. i - 1 \in 1..(Len(s) - 1) /\ Tail(s)[i - 1] = s[i]
        BY <2>1, <2>2, <3>2
      <4>. QED
        BY <2>3, <4>1 DEF ToSet
    <3>. QED
      BY <3>1, <3>2
  <2>. QED
    BY <2>1, <2>2, <2>3, <2>4, <2>5 DEF ToSet
<1>4. ToSet(<<>>) = {}
  BY DEF ToSet
<1>. QED
  BY <1>2, <1>3, <1>4

\* The URRs that these reports stop.
StopsIn(s) == {e.urr : e \in {e \in ToSet(s) : e.trigger # "volth"}}

LEMMA StopsAre == /\ \A c : Stops(c) = StopsIn(rx[c].out)
                  /\ \A c : Stops(c)' = StopsIn(rx'[c].out)
  BY DEF Stops, StopsIn

LEMMA LastIs ==
  ASSUME NEW S, NEW s \in Seq(S), s # <<>>
  PROVE  Last(s) \in S
<1>1. Len(s) \in Nat \ {0}
  BY EmptySeq, LenProperties
<1>2. Len(s) \in 1..Len(s)
  BY <1>1
<1>. QED
  BY <1>2, ElementOfSeq DEF Last

LEMMA ConcatSet ==
  ASSUME NEW S, NEW s \in Seq(S), NEW t \in Seq(S)
  PROVE  ToSet(s \o t) = ToSet(s) \cup ToSet(t)
<1>1. /\ s \o t \in Seq(S) /\ Len(s \o t) = Len(s) + Len(t)
      /\ \A i \in 1..Len(s) + Len(t) : (s \o t)[i] = IF i <= Len(s) THEN s[i] ELSE t[i - Len(s)]
  BY ConcatProperties
<1>2. /\ Len(s) \in Nat /\ Len(t) \in Nat /\ DOMAIN s = 1..Len(s) /\ DOMAIN t = 1..Len(t)
      /\ DOMAIN (s \o t) = 1..(Len(s) + Len(t))
  BY <1>1, LenProperties
<1>3. ASSUME NEW i \in 1..Len(t) PROVE t[i] \in ToSet(s \o t)
  <2>1. Len(s) + i \in 1..(Len(s) + Len(t)) /\ (s \o t)[Len(s) + i] = t[i]
    BY <1>1, <1>2
  <2>. QED
    BY <1>2, <2>1 DEF ToSet
<1>4. \A i \in 1..Len(s) : s[i] \in ToSet(s \o t)
  BY <1>1, <1>2 DEF ToSet
<1>5. \A i \in 1..(Len(s) + Len(t)) : (s \o t)[i] \in ToSet(s) \cup ToSet(t)
  BY <1>1, <1>2 DEF ToSet
<1>. QED
  BY <1>2, <1>3, <1>4, <1>5 DEF ToSet

LEMMA StopsGrow ==
  ASSUME NEW s \in Seq(Report), NEW t \in Seq(Report)
  PROVE  StopsIn(s \o t) = StopsIn(s) \cup StopsIn(t)
  BY ConcatSet DEF StopsIn

-----------------------------------------------------------------------------
\* Stop and resume

\* The walk comes to each PDR of the URR at least once.
LEMMA VisitsIs ==
  ASSUME NEW u \in Urr, NEW p \in Pdr
  PROVE  Visits(u, p) \in Nat /\ (p \in Related(u) => Visits(u, p) # 0)
<1> DEFINE S == {i \in DOMAIN UrrsOf[p] : Bucket[UrrsOf[p][i]] = Bucket[u]}
<1>1. DOMAIN UrrsOf[p] = 1..Len(UrrsOf[p]) /\ Len(UrrsOf[p]) \in Nat
  BY Facts, LenProperties
<1>2. IsFiniteSet(1..Len(UrrsOf[p]))
  BY <1>1, FS_Interval
<1>3. IsFiniteSet(S)
  BY <1>1, <1>2, FS_Subset
<1>4. p \in Related(u) => S # {}
  BY DEF Related, UrrsOn, ToSet
<1>5. Visits(u, p) = Cardinality(S)
  BY DEF Visits
<1>. HIDE DEF S
<1>. QED
  BY <1>3, <1>4, <1>5, FS_CardinalityType, FS_EmptySet

LEMMA SavedIs ==
  ASSUME TypeOK, NEW u \in Urr
  PROVE  /\ SavedActions(u) \in [Pdr -> Seq(Actions)]
         /\ \A p \in Pdr : p \notin Related(u) => SavedActions(u)[p] = <<>>
         /\ \A p \in Related(u) :
              LET s == SavedActions(u)[p]
              IN  s # <<>> /\ s[1] \in ToSet(s) /\ Last(s) \in ToSet(s)
                  /\ s[1] \in {action[farOf[p]], "DROP"}
<1> DEFINE n(p) == IF p \in Related(u) THEN Visits(u, p) ELSE 0
           Fresh(p, i) == i = 1 /\ \A q \in Related(u) : Before(q, p) => farOf[q] # farOf[p]
           At(p, i) == IF Fresh(p, i) THEN action[farOf[p]] ELSE "DROP"
           s(p) == [i \in 1..n(p) |-> At(p, i)]
<1>1. SavedActions(u) = [p \in Pdr |-> s(p)]
  BY DEF SavedActions
<1>2. ASSUME NEW p \in Pdr
      PROVE  n(p) \in Nat /\ (p \in Related(u) => n(p) # 0) /\ (p \notin Related(u) => n(p) = 0)
  BY VisitsIs
<1>3. ASSUME NEW p \in Related(u), NEW i
      PROVE  At(p, i) \in Actions /\ At(p, i) \in {action[farOf[p]], "DROP"}
  BY DEF Related, TypeOK, Actions
<1>. HIDE DEF n, At
<1>4. ASSUME NEW p \in Pdr
      PROVE  s(p) \in Seq(Actions) /\ Len(s(p)) = n(p)
  <2>1. \A i \in 1..n(p) : At(p, i) \in Actions
    BY <1>2, <1>3
  <2>. QED
    BY <1>2, <2>1, IsASeq
<1>5. ASSUME NEW p \in Pdr, p \notin Related(u)
      PROVE  s(p) = <<>>
  BY <1>2, <1>4, <1>5, EmptySeq
<1>6. ASSUME NEW p \in Related(u)
      PROVE  /\ s(p) # <<>> /\ s(p)[1] \in ToSet(s(p)) /\ Last(s(p)) \in ToSet(s(p))
             /\ s(p)[1] \in {action[farOf[p]], "DROP"}
  <2>1. p \in Pdr
    BY DEF Related
  <2>2. n(p) \in Nat \ {0}
    BY <1>2, <1>6, <2>1
  <2>3. 1 \in 1..n(p) /\ n(p) \in 1..n(p)
    BY <2>2
  <2>4. s(p) # <<>> /\ Len(s(p)) = n(p)
    BY <1>4, <2>1, <2>2, EmptySeq
  <2>5. DOMAIN s(p) = 1..n(p) /\ s(p)[1] = At(p, 1)
    BY <2>3
  <2>6. Last(s(p)) = s(p)[n(p)]
    BY <2>4 DEF Last
  <2>. QED
    BY <1>3, <2>3, <2>4, <2>5, <2>6 DEF ToSet
<1>7. \A p \in Pdr : SavedActions(u)[p] = s(p)
  BY <1>1
<1>8. \A p \in Related(u) : p \in Pdr
  BY DEF Related
<1>. HIDE DEF s
<1>. QED
  BY <1>1, <1>4, <1>5, <1>6, <1>7, <1>8

\* What a stop does to the URR: the counters, quota and triggers stay.
Exhausted(u, w, ok) ==
  /\ action' \in [Far -> Actions] /\ tangled' \subseteq Far
  /\ urr' = [urr EXCEPT ![u] = urr'[u]]
  /\ urr'[u] \in UrrType
  /\ urr'[u].live = w.live /\ urr'[u].trigger = w.trigger /\ urr'[u].quota = w.quota
  /\ urr'[u].bytes = w.bytes /\ urr'[u].consumed = w.consumed
  /\ urr'[u].exhausted = (w.exhausted \/ ok)
  /\ urr'[u].inam = IF ~w.exhausted /\ ok THEN TRUE ELSE w.inam

LEMMA NothingIs == NothingSaved \in [Pdr -> Seq(Actions)]
  BY DEF NothingSaved

LEMMA ExhaustIs ==
  ASSUME TypeOK, NEW u \in Urr, NEW w \in UrrType, NEW ok \in BOOLEAN, QuotaExhaust(u, w, ok)
  PROVE  Exhausted(u, w, ok)
<1>1. SavedActions(u) \in [Pdr -> Seq(Actions)]
  BY SavedIs
<1>2. NothingSaved \in [Pdr -> Seq(Actions)]
  BY NothingIs
<1>3. CASE w.exhausted
  BY <1>3 DEF Exhausted, QuotaExhaust, TypeOK, UrrType, gate
<1>4. CASE ~w.exhausted /\ ~ok
  <2>1. /\ urr' = [urr EXCEPT ![u] = [w EXCEPT !.saved = NothingSaved]]
        /\ action' = action /\ tangled' = tangled
    BY <1>4 DEF QuotaExhaust, gate
  <2>. QED
    BY <1>2, <1>4, <2>1 DEF Exhausted, TypeOK, UrrType
<1>5. CASE ~w.exhausted /\ ok
  <2>1. /\ urr' = [urr EXCEPT ![u] =
                    [w EXCEPT !.exhausted = TRUE, !.inam = TRUE, !.saved = SavedActions(u),
                              !.mem = IF Related(u) = {} THEN w.mem ELSE "held"]]
        /\ action' = [f \in Far |-> IF f \in Fars(u) THEN "DROP" ELSE action[f]]
        /\ tangled' = tangled \cup Tangles(u)
    BY <1>5 DEF QuotaExhaust
  <2>2. Fars(u) \subseteq Far
    BY DEF Fars, Related, TypeOK
  <2>3. Tangles(u) \subseteq Far
    BY <2>2 DEF Tangles
  <2>. QED
    BY <1>1, <1>5, <2>1, <2>3 DEF Exhausted, TypeOK, UrrType, Actions
<1>. QED
  BY <1>3, <1>4, <1>5

\* The walk over the PDRs of a FAR has a last one.
LEMMA LastHitExists ==
  ASSUME NEW S \in SUBSET Pdr, S # {}
  PROVE  \E p \in S : \A q \in S : ~Before(p, q)
<1> DEFINE T == {Age[p] : p \in S}
<1>1. T \subseteq Nat /\ T # {}
  BY UrrAssumption
<1>2. \E x \in T : \A y \in T : <<y, x>> \notin OpToRel(<, Nat)
  BY <1>1, WFMin, NatLessThanWellFounded
<1>3. \E x \in T : \A y \in T : ~(y < x)
  BY <1>1, <1>2 DEF OpToRel
<1>. QED
  BY <1>3 DEF Before

LEMMA RestoredTyped ==
  ASSUME TypeOK, NEW u \in Urr
  PROVE  Restored(u) \in [Far -> Actions]
<1> DEFINE Hits(f) == {p \in Related(u) : farOf[p] = f /\ urr[u].saved[p] # <<>>}
           LastHit(f) == CHOOSE p \in Hits(f) : \A q \in Hits(f) : ~Before(p, q)
<1>1. ASSUME NEW f \in Far, Hits(f) # {}
      PROVE  Last(urr[u].saved[LastHit(f)]) \in Actions
  <2>1. Hits(f) \in SUBSET Pdr
    BY DEF Related
  <2>2. \E p \in Hits(f) : \A q \in Hits(f) : ~Before(p, q)
    BY <1>1, <2>1, LastHitExists
  <2>3. LastHit(f) \in Hits(f)
    BY <2>2
  <2>4. urr[u].saved \in [Pdr -> Seq(Actions)]
    BY DEF TypeOK, UrrType
  <2>. HIDE DEF LastHit
  <2>5. urr[u].saved[LastHit(f)] \in Seq(Actions) /\ urr[u].saved[LastHit(f)] # <<>>
    BY <2>1, <2>3, <2>4
  <2>. QED
    BY <2>5, LastIs
<1>2. Restored(u) = [f \in Far |-> IF Hits(f) = {} THEN action[f]
                                   ELSE Last(urr[u].saved[LastHit(f)])]
  BY DEF Restored
<1>3. action \in [Far -> Actions]
  BY DEF TypeOK
<1>. HIDE DEF Hits, LastHit
<1>. QED
  BY <1>1, <1>2, <1>3

LEMMA ReverseIs ==
  ASSUME TypeOK, NEW u \in Urr, ReverseQuotaExhaust(u)
  PROVE  /\ action' = Restored(u) /\ action' \in [Far -> Actions] /\ tangled' = tangled
         /\ urr' = [urr EXCEPT ![u] = urr'[u]]
         /\ urr'[u] \in UrrType
         /\ urr'[u].live = urr[u].live /\ urr'[u].trigger = urr[u].trigger
         /\ urr'[u].quota = urr[u].quota /\ urr'[u].bytes = urr[u].bytes
         /\ urr'[u].consumed = urr[u].consumed /\ urr'[u].inam = urr[u].inam
         /\ urr'[u].exhausted = FALSE
<1>1. NothingSaved \in [Pdr -> Seq(Actions)]
  BY NothingIs
<1>2. /\ action' = Restored(u) /\ tangled' = tangled
      /\ urr' = [urr EXCEPT ![u] =
                   [urr[u] EXCEPT !.exhausted = FALSE, !.saved = NothingSaved,
                                  !.mem = IF urr[u].mem = "null" THEN "null" ELSE "freed"]]
  BY DEF ReverseQuotaExhaust
<1>3. urr \in [Urr -> UrrType] /\ Restored(u) \in [Far -> Actions]
  BY RestoredTyped DEF TypeOK
<1>. QED
  BY <1>1, <1>2, <1>3 DEF UrrType

-----------------------------------------------------------------------------
\* The loop of check_urr

RxTyped ==
  /\ rx \in [Cpu -> RxType]
  /\ \A c \in Cpu : rx[c].pdr # None => Len(rx[c].out) <= Len(UrrsOf[rx[c].pdr])

LEMMA AdvanceIs ==
  ASSUME TypeOK, RxWhole, NEW c \in Cpu, rx[c].at \in {"next", "store"},
         NEW out \in Seq(Report), Len(out) <= Len(UrrsOf[rx[c].pdr]), Advance(c, out)
  PROVE  /\ rx' = [rx EXCEPT ![c] = rx'[c]]
         /\ RxTyped' /\ RxWhole'
         /\ rx'[c].out = out
         /\ rx'[c].left = Tail(rx[c].left)
         /\ rx'[c].at \in {"idle", "next", "send"}
         /\ rx'[c].left # <<>> => rx'[c].len = rx[c].len
<1> DEFINE rest == Tail(rx[c].left)
           at == IF rest # <<>> THEN "next" ELSE "send"
           go == [rx[c] EXCEPT !.at = at, !.left = rest, !.out = out, !.bytes = 0, !.consumed = 0]
<1>1. rx[c] \in RxType /\ rx \in [Cpu -> RxType]
  BY DEF TypeOK
<1>2. rx[c].left \in Seq(Urr \cup {None}) /\ rx[c].left # <<>> /\ rx[c].pdr \in Pdr /\ rx[c].len \in Lengths
  BY <1>1 DEF RxWhole, RxType
<1>3. rest \in Seq(Urr \cup {None})
  BY <1>2, InSeq
<1>4. rx' = [rx EXCEPT ![c] = IF rest = <<>> /\ out = <<>> THEN Idle ELSE go]
  BY DEF Advance
<1>5. \A d \in Cpu : d # c => rx'[d] = rx[d]
  BY <1>1, <1>4
<1>6. CASE rest = <<>> /\ out = <<>>
  <2>1. rx'[c] = Idle /\ Idle \in RxType
    BY <1>1, <1>4, <1>6 DEF Idle, RxType
  <2>2. RxTyped'
    BY <1>1, <1>4, <1>5, <1>6, <2>1 DEF RxTyped, TypeOK, Idle
  <2>. QED
    BY <1>1, <1>4, <1>5, <1>6, <2>1, <2>2 DEF RxWhole, Idle
<1>7. CASE ~(rest = <<>> /\ out = <<>>)
  <2>1. rx'[c] = go
    BY <1>1, <1>4, <1>7
  <2>2. /\ go.at = at /\ go.left = rest /\ go.out = out /\ go.len = rx[c].len /\ go.pdr = rx[c].pdr
        /\ go \in RxType
    BY <1>1, <1>3 DEF RxType
  <2>3. at \in {"next", "send"} /\ (at = "next" <=> rest # <<>>)
    OBVIOUS
  <2>. HIDE DEF go, at, rest
  <2>4. RxTyped'
    BY <1>1, <1>4, <1>5, <1>7, <2>1, <2>2 DEF RxTyped, TypeOK
  <2>. QED
    BY <1>1, <1>2, <1>4, <1>5, <2>1, <2>2, <2>3, <2>4 DEF RxWhole, rest
<1>. QED
  BY <1>6, <1>7

LEMMA LinesAre ==
  ASSUME NEW u \in Urr, NEW w
  PROVE  /\ Lines(u, w) \in Seq(Report)
         /\ OverQuota(w) => StopsIn(Lines(u, w)) = {u}
<1> DEFINE a == IF OverThreshold(w) THEN <<Line(u, "volth")>> ELSE <<>>
           b == IF OverQuota(w) THEN <<Line(u, "volqu")>> ELSE <<>>
<1>1. Line(u, "volth") \in Report /\ Line(u, "volqu") \in Report
  BY DEF Line, Report, Triggers
<1>2. a \in Seq(Report) /\ b \in Seq(Report)
  BY <1>1
<1>3. Lines(u, w) = a \o b
  BY DEF Lines
<1>4. StopsIn(a) = {}
  BY DEF StopsIn, ToSet, Line
<1>5. OverQuota(w) => StopsIn(b) = {u}
  BY DEF StopsIn, ToSet, Line
<1>. HIDE DEF a, b
<1>. QED
  BY <1>2, <1>3, <1>4, <1>5, ConcatProperties, StopsGrow

-----------------------------------------------------------------------------
\* Types, and what a packet handler has in hand

LEMMA RxIs ==
  ASSUME TypeOK, NEW c \in Cpu
  PROVE  /\ rx[c] \in RxType
         /\ rx[c].left \in Seq(Urr \cup {None}) /\ rx[c].out \in Seq(Report)
         /\ rx[c].len \in Nat /\ rx[c].bytes \in Nat /\ rx[c].consumed \in Nat
         /\ rx[c].pdr # None => Len(rx[c].out) <= Len(UrrsOf[rx[c].pdr])
<1>1. rx[c] \in RxType
  BY DEF TypeOK
<1>2. rx[c].len \in Lengths \cup {0}
  BY <1>1 DEF RxType
<1>3. rx[c].len \in Nat
  <2>1. \A n \in Lengths : n \in Nat
    BY Facts
  <2>. QED
    BY <1>2, <2>1
<1>4. rx[c].pdr # None => Len(rx[c].out) <= Len(UrrsOf[rx[c].pdr])
  BY DEF TypeOK
<1>. QED
  BY <1>1, <1>3, <1>4 DEF RxType

\* The end of a packet.
LEMMA IdleIs ==
  ASSUME TypeOK, RxWhole, NEW c \in Cpu, rx' = [rx EXCEPT ![c] = Idle]
  PROVE  RxTyped' /\ RxWhole'
<1>1. Idle \in RxType /\ Idle.pdr = None /\ Idle.at = "idle" /\ Idle.left = <<>>
  BY DEF Idle, RxType
<1>2. rx \in [Cpu -> RxType]
  BY DEF TypeOK
<1>3. \A d \in Cpu : rx'[d] = IF d = c THEN Idle ELSE rx[d]
  BY <1>2
<1>4. rx' \in [Cpu -> RxType]
  BY <1>1, <1>2
<1>5. RxWhole'
  <2>1. ASSUME NEW d \in Cpu
        PROVE  /\ rx'[d].at = "idle" => rx'[d] = Idle
               /\ rx'[d].at # "idle" => rx'[d].pdr \in Pdr /\ rx'[d].len \in Lengths
               /\ rx'[d].at \in {"next", "store"} <=> rx'[d].left # <<>>
    <3>1. CASE d = c
      BY <1>1, <1>3, <3>1
    <3>2. CASE d # c
      BY <1>3, <3>2 DEF RxWhole
    <3>. QED
      BY <3>1, <3>2
  <2>. QED
    BY <2>1 DEF RxWhole
<1>. QED
  BY <1>1, <1>3, <1>4, <1>5 DEF TypeOK, RxTyped

\* A report or a request for usage takes the bytes and nothing else.
Taken(u) ==
  /\ urr'[u].live = urr[u].live /\ urr'[u].trigger = urr[u].trigger
  /\ urr'[u].quota = urr[u].quota /\ urr'[u].inam = urr[u].inam
  /\ urr'[u].consumed = urr[u].consumed /\ urr'[u].exhausted = urr[u].exhausted
  /\ urr'[u].saved = urr[u].saved

\* What is due and was not dropped stays in the bytes, and in a loaded number.
Kept(u) ==
  /\ due'[u] <= due[u]
  /\ due[u] <= urr[u].bytes + dropped[u] => due'[u] <= urr'[u].bytes + dropped'[u]
  /\ \A b \in Nat : due[u] <= b + dropped[u] => due'[u] <= b + dropped'[u]

LEMMA OfDueIs ==
  ASSUME NEW n \in Nat, NEW d \in Nat
  PROVE  OfDue(n, d) \in Nat /\ OfDue(n, d) = IF n > d THEN d ELSE n
  BY DEF OfDue

LEMMA ConvertIs ==
  ASSUME TypeOK, NEW us, NEW sent \in BOOLEAN, Convert(us, sent)
  PROVE  /\ urr' \in [Urr -> UrrType] /\ due' \in [Urr -> Nat] /\ dropped' \in [Urr -> Nat]
         /\ \A u \in Urr : Taken(u) /\ Kept(u)
<1>1. \A u \in Urr : /\ urr[u] \in UrrType /\ due[u] \in Nat /\ dropped[u] \in Nat
                     /\ urr[u].bytes \in Nat
  BY DEF TypeOK, UrrType
<1>2. urr' = [u \in Urr |-> IF u \in us THEN [urr[u] EXCEPT !.bytes = 0] ELSE urr[u]]
  BY DEF Convert
<1>3. /\ due' = [u \in Urr |-> IF u \in us /\ sent THEN Less(due[u], urr[u].bytes) ELSE due[u]]
      /\ dropped' = [u \in Urr |->
                       OfDue(dropped[u] + (IF u \in us /\ ~sent THEN urr[u].bytes ELSE 0), due'[u])]
  BY DEF Convert
<1>4. ASSUME NEW u \in Urr
      PROVE  /\ Taken(u) /\ urr'[u] \in UrrType
             /\ urr'[u].bytes = IF u \in us THEN 0 ELSE urr[u].bytes
  BY <1>1, <1>2 DEF UrrType, Taken
<1>5. ASSUME NEW u \in Urr
      PROVE  due'[u] \in Nat /\ dropped'[u] \in Nat /\ Kept(u)
  <2> DEFINE b == urr[u].bytes
             d == due[u]
             x == dropped[u]
             more == IF u \in us /\ ~sent THEN b ELSE 0
  <2>1. b \in Nat /\ d \in Nat /\ x \in Nat
    BY <1>1
  <2>2. due'[u] = IF u \in us /\ sent THEN (IF d > b THEN d - b ELSE 0) ELSE d
    BY <1>3 DEF Less
  <2>3. dropped'[u] = OfDue(x + more, due'[u])
    BY <1>3
  <2>4. urr'[u].bytes = IF u \in us THEN 0 ELSE b
    BY <1>4
  <2>5. more \in Nat /\ more = IF u \in us /\ ~sent THEN b ELSE 0
    BY <2>1
  <2>6. due'[u] \in Nat /\ due'[u] <= d
    BY <2>1, <2>2
  <2>. HIDE DEF b, d, x, more
  <2>7. x + more \in Nat
    BY <2>1, <2>5
  <2>8. dropped'[u] \in Nat /\ dropped'[u] = IF x + more > due'[u] THEN due'[u] ELSE x + more
    BY <2>3, <2>6, <2>7, OfDueIs
  <2>9. d <= b + x => due'[u] <= urr'[u].bytes + dropped'[u]
    <3>1. CASE u \in us /\ sent
      BY <2>1, <2>2, <2>4, <2>5, <2>6, <2>8, <3>1
    <3>2. CASE u \in us /\ ~sent
      BY <2>1, <2>2, <2>4, <2>5, <2>6, <2>8, <3>2
    <3>3. CASE u \notin us
      BY <2>1, <2>2, <2>4, <2>5, <2>6, <2>8, <3>3
    <3>. QED
      BY <3>1, <3>2, <3>3
  <2>10. \A k \in Nat : d <= k + x => due'[u] <= k + dropped'[u]
    BY <2>1, <2>5, <2>6, <2>8
  <2>. QED
    BY <2>6, <2>8, <2>9, <2>10 DEF Kept, b, d, x
<1>. QED
  BY <1>2, <1>3, <1>4, <1>5

\* A deletion renames what packet handlers hold of the URR.
LEMMA OrphanedIs ==
  ASSUME NEW r \in RxType, NEW u \in Urr, r.at = "store" => r.left # <<>>
  PROVE  LET s == Orphaned(r, u)
         IN  /\ s \in RxType /\ s.at = r.at /\ s.pdr = r.pdr /\ s.len = r.len
             /\ s.bytes = r.bytes /\ s.consumed = r.consumed
             /\ Len(s.out) = Len(r.out) /\ (s.left = <<>> <=> r.left = <<>>)
             /\ r.left # <<>> => Tail(s.left) = Tail(r.left) /\ Head(s.left) \in {None, Head(r.left)}
             /\ r.left # <<>> /\ r.at = "store" => Head(s.left) # u
             /\ \A v \in Urr : v # u /\ v \in StopsIn(r.out) => v \in StopsIn(s.out)
             /\ r = Idle => s = Idle
<1> DEFINE left == IF r.at = "store" /\ Head(r.left) = u THEN <<None>> \o Tail(r.left) ELSE r.left
           out == [i \in DOMAIN r.out |->
                     IF r.out[i].urr = u THEN Line(None, r.out[i].trigger) ELSE r.out[i]]
<1>1. Orphaned(r, u) = [r EXCEPT !.left = left, !.out = out]
  BY DEF Orphaned
<1>2. r.left \in Seq(Urr \cup {None}) /\ r.out \in Seq(Report)
  BY DEF RxType
<1>3. /\ left \in Seq(Urr \cup {None}) /\ (left = <<>> <=> r.left = <<>>)
      /\ r.left # <<>> => Tail(left) = Tail(r.left) /\ Head(left) \in {None, Head(r.left)}
      /\ r.left # <<>> /\ r.at = "store" => Head(left) # u
  <2>1. CASE r.at = "store" /\ Head(r.left) = u
    <3>1. r.left # <<>> /\ Tail(r.left) \in Seq(Urr \cup {None})
      BY <1>2, <2>1, InSeq
    <3>2. left = <<None>> \o Tail(r.left)
      BY <2>1
    <3>. HIDE DEF left
    <3>. QED
      BY <3>1, <3>2, Facts, HeadTailProperties, ConcatProperties
  <2>2. CASE ~(r.at = "store" /\ Head(r.left) = u)
    BY <1>2, <2>2
  <2>. QED
    BY <2>1, <2>2
<1>4. \A i \in DOMAIN r.out : r.out[i] \in Report
  BY <1>2, ElementOfSeq, LenProperties
<1>5. out \in Seq(Report) /\ Len(out) = Len(r.out)
  <2>1. DOMAIN r.out = 1..Len(r.out) /\ Len(r.out) \in Nat
    BY <1>2, LenProperties
  <2>2. \A i \in 1..Len(r.out) :
          (IF r.out[i].urr = u THEN Line(None, r.out[i].trigger) ELSE r.out[i]) \in Report
    BY <1>4, <2>1 DEF Report, Line
  <2>. QED
    BY <2>1, <2>2, IsASeq
<1>6. \A v \in Urr : v # u /\ v \in StopsIn(r.out) => v \in StopsIn(out)
  <2>1. \A i \in DOMAIN r.out : r.out[i].urr # u => out[i] = r.out[i]
    OBVIOUS
  <2>. QED
    BY <2>1 DEF StopsIn, ToSet
<1>7. r = Idle => left = <<>> /\ out = <<>>
  <2>1. r = Idle => r.left = <<>> /\ r.out = <<>> /\ r.at = "idle"
    BY DEF Idle
  <2>2. r = Idle => Len(out) = 0
    BY <1>5, <2>1, EmptySeq
  <2>. QED
    BY <1>5, <2>1, <2>2, EmptySeq
<1>. HIDE DEF left, out
<1>8. r = Idle => Orphaned(r, u) = Idle
  <2>1. [r EXCEPT !.left = r.left, !.out = r.out] = r
    BY DEF RxType
  <2>2. r = Idle => r.left = <<>> /\ r.out = <<>>
    BY DEF Idle
  <2>. QED
    BY <1>1, <1>7, <2>1, <2>2
<1>. QED
  BY <1>1, <1>3, <1>5, <1>6, <1>8 DEF RxType

LEMMA FilledIs ==
  ASSUME NEW w \in UrrType, NEW u \in Urr, NEW m \in Msg[u]
  PROVE  /\ Filled(w, m) \in UrrType
         /\ Filled(w, m).trigger = m.trigger /\ Filled(w, m).inam = (~m.info /\ w.inam)
         /\ Filled(w, m).quota = IF m.quota = None THEN w.quota ELSE m.quota
         /\ Filled(w, m).bytes = IF m.trigger = {"start"} THEN 0 ELSE w.bytes
         /\ Filled(w, m).live = w.live /\ Filled(w, m).exhausted = w.exhausted
         /\ Filled(w, m).saved = w.saved /\ Filled(w, m).mem = w.mem
         /\ m.quota = None => Filled(w, m).consumed = w.consumed
         /\ m.trigger \subseteq Triggers /\ m.quota \in Nat \cup {None}
<1>1. m \in Msgs
  BY Facts
<1>. QED
  BY <1>1 DEF Msgs, Filled, UrrType

\* What add-URR keeps for the second half of urr_fill.
Kind(m) == IF m.quota = None THEN "none" ELSE IF m.zero THEN "zero" ELSE "some"

\* What add-URR clears of the URR's bytes.
LEMMA ClearedIs ==
  ASSUME TypeOK, NEW u \in Urr, NEW m \in Msg[u]
  PROVE  LET k == urr[u].bytes - Filled(urr[u], m).bytes
         IN  /\ k \in Nat /\ urr[u].bytes = Filled(urr[u], m).bytes + k
             /\ dropped[u] + k \in Nat
<1>1. urr[u] \in UrrType /\ urr[u].bytes \in Nat /\ dropped[u] \in Nat
  BY DEF TypeOK, UrrType
<1>2. Filled(urr[u], m).bytes \in {0, urr[u].bytes}
  BY <1>1, FilledIs
<1>. QED
  BY <1>1, <1>2

\* What a store of the counters leaves of the URR.
LEMMA CountedIs ==
  ASSUME TypeOK, NEW c \in Cpu, NEW u \in Urr
  PROVE  /\ Counted(c, u) \in UrrType
         /\ Counted(c, u).bytes = rx[c].bytes + rx[c].len
         /\ Counted(c, u).consumed = IF "volqu" \in urr[u].trigger
                                     THEN rx[c].consumed + rx[c].len ELSE urr[u].consumed
         /\ Counted(c, u).live = urr[u].live /\ Counted(c, u).trigger = urr[u].trigger
         /\ Counted(c, u).quota = urr[u].quota /\ Counted(c, u).inam = urr[u].inam
         /\ Counted(c, u).exhausted = urr[u].exhausted /\ Counted(c, u).saved = urr[u].saved
<1>1. /\ urr[u] \in UrrType /\ rx[c].bytes + rx[c].len \in Nat
      /\ rx[c].consumed + rx[c].len \in Nat
  BY RxIs DEF TypeOK
<1>. QED
  BY <1>1 DEF Counted, UrrType

LEMMA UnmeteredIs ==
  ASSUME TypeOK, NEW u \in Urr, NEW ok \in BOOLEAN, Unmetered(u, ok)
  PROVE  /\ passed' \in [Urr -> Nat \cup {None}]
         /\ \A v \in Urr : passed'[v] = IF v = u /\ ~ok THEN None ELSE passed[v]
  BY DEF Unmetered, TypeOK

LEMMA OutcomeIs == Outcome \subseteq BOOLEAN
  BY DEF Outcome

\* The steps by who makes them.
PacketStep(c) ==
  \/ \E p \in Pdr, len \in Lengths : Forward(c, p, len)
  \/ \E p \in Pdr : ForwardUncounted(c, p)
  \/ \E u \in Urr : Skip(c, u) \/ NoTrigger(c, u) \/ StartOfService(c, u) \/ LoadCounters(c, u)
  \/ StoreCounters(c) \/ SendReports(c) \/ SendFails(c)
Faults == UNCHANGED <<urr, world, gate, rx, nl, history>> /\ oops' = TRUE

LEMMA NextIs ==
  ASSUME Next
  PROVE  \/ \E c \in Cpu : PacketStep(c)
         \/ \E u \in Urr : AddUrrDone(u)
         \/ Netlink
         \/ Faults
  BY DEF Next, CheckUrr, FillDone, PacketStep, Faults, MissingUrr, ReportsOverflow, DoubleFree, Oops

LEMMA NetlinkIs ==
  ASSUME Netlink
  PROVE  \/ \E u \in Urr : \E m \in Msg[u] : AddUrr(u, m)
         \/ \E us : \E sent \in BOOLEAN :
              Convert(us, sent) /\ UNCHANGED <<world, gate, rx, nl, told, passed, oops>>
         \/ \E u \in Urr : DelUrr(u)
         \/ \E f \in Far : \E a \in Action[f] : SetAction(f, a)
         \/ \E p \in Pdr : \E f \in Far \cup {None} : LinkFar(p, f)
<1>1. ASSUME NEW u \in Urr, GetReport(u)
      PROVE  \E us : \E sent \in BOOLEAN :
               Convert(us, sent) /\ UNCHANGED <<world, gate, rx, nl, told, passed, oops>>
  BY <1>1, OutcomeIs DEF GetReport
<1>2. ASSUME NEW us, GetReports(us)
      PROVE  \E r : \E sent \in BOOLEAN :
               Convert(r, sent) /\ UNCHANGED <<world, gate, rx, nl, told, passed, oops>>
  BY <1>2 DEF GetReports
<1>. QED
  BY <1>1, <1>2 DEF Netlink

\* The types and the packet handlers through the steps of check_urr.
LEMMA TypePacket ==
  ASSUME TypeOK, RxWhole, NEW c \in Cpu, PacketStep(c)
  PROVE  TypeOK' /\ RxWhole'
<1>1. ASSUME NEW p \in Pdr, NEW len \in Lengths, Forward(c, p, len)
      PROVE  TypeOK' /\ RxWhole'
  <2> DEFINE r == [at |-> "next", pdr |-> p, len |-> len, left |-> UrrsOf[p],
                   bytes |-> 0, consumed |-> 0, out |-> <<>>]
  <2>1. rx' = [rx EXCEPT ![c] = r] /\ UNCHANGED <<urr, world, gate, nl, told, usage, oops>>
    BY <1>1 DEF Forward
  <2>2. UrrsOf[p] \in Seq(Urr \cup {None}) /\ UrrsOf[p] # <<>>
    BY Facts
  <2>3. /\ r \in RxType /\ r.at = "next" /\ r.pdr = p /\ r.len = len /\ r.left = UrrsOf[p]
        /\ r.out = <<>>
    <3>1. p \in Pdr \cup {None} /\ len \in Lengths \cup {0} /\ "next" \in {"idle", "next", "store", "send"}
      OBVIOUS
    <3>. QED
      BY <2>2, <3>1, EmptySeq DEF RxType
  <2>4. passed' \in [Urr -> Nat \cup {None}]
    <3>1. len \in Nat
      BY Facts
    <3>2. \A u \in Urr : passed[u] # None => passed[u] + len \in Nat
      BY <3>1 DEF TypeOK
    <3>. QED
      BY <1>1, <3>2 DEF Forward, TypeOK
  <2>5. Len(r.out) <= Len(UrrsOf[r.pdr])
    BY <2>2, <2>3, LenProperties, EmptySeq
  <2>. HIDE DEF r
  <2>6. \A d \in Cpu : rx'[d] = IF d = c THEN r ELSE rx[d]
    BY <2>1 DEF TypeOK
  <2>7. RxWhole'
    BY <2>2, <2>3, <2>6 DEF RxWhole
  <2>. QED
    BY <2>1, <2>3, <2>4, <2>5, <2>6, <2>7 DEF TypeOK, world, gate, usage
<1>2. ASSUME NEW p \in Pdr, ForwardUncounted(c, p)
      PROVE  TypeOK' /\ RxWhole'
  BY <1>2 DEF ForwardUncounted, TypeOK, RxWhole, world, gate, usage
<1>3. ASSUME NEW u \in Urr, Skip(c, u)
      PROVE  TypeOK' /\ RxWhole'
  <2>1. /\ rx[c].at = "next" /\ Advance(c, rx[c].out)
        /\ UNCHANGED <<urr, world, gate, nl, history, oops>>
    BY <1>3 DEF Skip, AtUrr
  <2>2. rx[c].out \in Seq(Report) /\ Len(rx[c].out) <= Len(UrrsOf[rx[c].pdr])
    BY <2>1, RxIs, Facts DEF RxWhole
  <2>3. RxTyped' /\ RxWhole'
    BY <2>1, <2>2, AdvanceIs
  <2>. QED
    BY <2>1, <2>3 DEF TypeOK, RxTyped, world, gate, usage, history
<1>4. ASSUME NEW u \in Urr, NoTrigger(c, u)
      PROVE  TypeOK' /\ RxWhole'
  <2>1. /\ rx' = [rx EXCEPT ![c] = Idle] /\ Tell(c, "lost")
        /\ UNCHANGED <<urr, world, gate, nl, passed, usage, oops>>
    BY <1>4 DEF NoTrigger
  <2>2. told' \in [Urr -> {"no", "yes", "lost", "asked"}]
    BY <2>1 DEF Tell, TypeOK
  <2>. QED
    BY <2>1, <2>2, IdleIs DEF TypeOK, RxTyped, world, gate, usage
<1>5. ASSUME NEW u \in Urr, StartOfService(c, u)
      PROVE  TypeOK' /\ RxWhole'
  <2>1. /\ rx[c].at = "next" /\ Advance(c, Append(rx[c].out, Line(u, "start"))) /\ Room(c) > 0
        /\ UNCHANGED <<world, nl, told, usage, oops>>
    BY <1>5 DEF StartOfService, AtUrr
  <2>2. PICK ok \in BOOLEAN : QuotaExhaust(u, urr[u], ok) /\ Unmetered(u, ok)
    BY <1>5, OutcomeIs DEF StartOfService
  <2>3. Line(u, "start") \in Report
    BY DEF Line, Report, Triggers
  <2>4. /\ rx[c].out \in Seq(Report) /\ Len(rx[c].out) \in Nat
        /\ rx[c].pdr \in Pdr /\ Len(UrrsOf[rx[c].pdr]) \in Nat
    BY <2>1, RxIs, Facts, LenProperties DEF RxWhole
  <2>5. /\ Append(rx[c].out, Line(u, "start")) \in Seq(Report)
        /\ Len(Append(rx[c].out, Line(u, "start"))) <= Len(UrrsOf[rx[c].pdr])
    <3>1. /\ Append(rx[c].out, Line(u, "start")) \in Seq(Report)
          /\ Len(Append(rx[c].out, Line(u, "start"))) = Len(rx[c].out) + 1
      BY <2>3, <2>4, AppendProperties
    <3>2. Len(UrrsOf[rx[c].pdr]) - Len(rx[c].out) > 0
      BY <2>1 DEF Room
    <3>3. \A m, n \in Nat : m - n > 0 => n + 1 <= m
      OBVIOUS
    <3>. QED
      BY <2>4, <3>1, <3>2, <3>3
  <2>6. urr[u] \in UrrType
    BY DEF TypeOK
  <2>7. action' \in [Far -> Actions] /\ tangled' \subseteq Far /\ urr' \in [Urr -> UrrType]
    <3>1. Exhausted(u, urr[u], ok)
      BY <2>2, <2>6, ExhaustIs
    <3>. QED
      BY <3>1 DEF Exhausted, TypeOK
  <2>8. passed' \in [Urr -> Nat \cup {None}]
    BY <2>2, UnmeteredIs
  <2>9. RxTyped' /\ RxWhole'
    BY <2>1, <2>5, AdvanceIs
  <2>. QED
    BY <2>1, <2>7, <2>8, <2>9 DEF TypeOK, RxTyped, world, gate, usage
<1>6. ASSUME NEW u \in Urr, LoadCounters(c, u)
      PROVE  TypeOK' /\ RxWhole'
  <2> DEFINE r == [rx[c] EXCEPT !.at = "store", !.bytes = urr[u].bytes, !.consumed = urr[u].consumed]
  <2>1. /\ rx' = [rx EXCEPT ![c] = r] /\ rx[c].at = "next"
        /\ UNCHANGED <<urr, world, gate, nl, history, oops>>
    BY <1>6 DEF LoadCounters, AtUrr, TypeOK
  <2>2. urr[u].bytes \in Nat /\ urr[u].consumed \in Nat /\ rx[c] \in RxType
    BY DEF TypeOK, UrrType
  <2>3. /\ r \in RxType /\ r.at = "store" /\ r.pdr = rx[c].pdr /\ r.len = rx[c].len
        /\ r.left = rx[c].left /\ r.out = rx[c].out
    BY <2>2 DEF RxType
  <2>. HIDE DEF r
  <2>4. \A d \in Cpu : rx'[d] = IF d = c THEN r ELSE rx[d]
    BY <2>1 DEF TypeOK
  <2>5. RxWhole'
    BY <2>1, <2>3, <2>4 DEF RxWhole
  <2>. QED
    BY <2>1, <2>3, <2>4, <2>5 DEF TypeOK, world, gate, usage, history
<1>7. ASSUME StoreCounters(c)
      PROVE  TypeOK' /\ RxWhole'
  <2> DEFINE u == Head(rx[c].left)
             w == Counted(c, u)
  <2>1. /\ rx[c].at = "store" /\ UNCHANGED <<world, nl, told, dropped, oops>>
    BY <1>7 DEF StoreCounters
  <2>2. /\ rx[c].left # <<>> /\ rx[c].out \in Seq(Report) /\ Len(rx[c].out) \in Nat
        /\ rx[c].pdr \in Pdr /\ Len(UrrsOf[rx[c].pdr]) \in Nat
        /\ Len(rx[c].out) <= Len(UrrsOf[rx[c].pdr])
    BY <2>1, RxIs, Facts, LenProperties DEF RxWhole
  <2>3. u \in Urr \cup {None}
    BY <2>2, RxIs, InSeq
  <2>4. CASE u = None
    <3>1. Advance(c, rx[c].out) /\ UNCHANGED <<urr, gate, passed, due>>
      BY <1>7, <2>4 DEF StoreCounters
    <3>2. RxTyped' /\ RxWhole'
      BY <2>1, <2>2, <3>1, AdvanceIs
    <3>. QED
      BY <2>1, <3>1, <3>2 DEF TypeOK, RxTyped, world, gate, usage
  <2>5. CASE u # None
    <3>1. /\ u \in Urr /\ Len(Lines(u, w)) <= Room(c)
          /\ due' = [due EXCEPT ![u] = due[u] + rx[c].len]
          /\ Advance(c, rx[c].out \o Lines(u, w))
      BY <1>7, <2>3, <2>5 DEF StoreCounters
    <3>2. w \in UrrType
      BY <3>1, CountedIs
    <3>3. /\ action' \in [Far -> Actions] /\ tangled' \subseteq Far /\ urr' \in [Urr -> UrrType]
          /\ passed' \in [Urr -> Nat \cup {None}]
      <4>1. CASE OverQuota(w)
        <5>1. PICK ok \in BOOLEAN : QuotaExhaust(u, w, ok) /\ Unmetered(u, ok)
          BY <1>7, <2>5, <4>1, OutcomeIs DEF StoreCounters
        <5>. HIDE DEF w, u
        <5>2. Exhausted(u, w, ok)
          BY <3>1, <3>2, <5>1, ExhaustIs
        <5>3. passed' \in [Urr -> Nat \cup {None}]
          BY <3>1, <5>1, UnmeteredIs
        <5>. QED
          BY <5>2, <5>3 DEF Exhausted, TypeOK
      <4>2. CASE ~OverQuota(w)
        <5>1. urr' = [urr EXCEPT ![u] = w] /\ UNCHANGED <<gate, passed>>
          BY <1>7, <2>5, <4>2 DEF StoreCounters
        <5>. HIDE DEF w, u
        <5>. QED
          BY <3>2, <5>1 DEF TypeOK, gate
      <4>. QED
        BY <4>1, <4>2
    <3>4. due' \in [Urr -> Nat]
      <4>. HIDE DEF u
      <4>. QED
        BY <3>1, RxIs DEF TypeOK
    <3>5. Lines(u, w) \in Seq(Report) /\ Len(Lines(u, w)) \in Nat
      BY <3>1, LinesAre, LenProperties
    <3>. HIDE DEF u, w
    <3>6. /\ rx[c].out \o Lines(u, w) \in Seq(Report)
          /\ Len(rx[c].out \o Lines(u, w)) <= Len(UrrsOf[rx[c].pdr])
      BY <2>2, <3>1, <3>5, ConcatProperties DEF Room
    <3>7. RxTyped' /\ RxWhole'
      BY <2>1, <3>1, <3>6, AdvanceIs
    <3>. QED
      BY <2>1, <3>3, <3>4, <3>7 DEF TypeOK, RxTyped, world, gate, usage
  <2>. QED
    BY <2>4, <2>5
<1>8. ASSUME SendReports(c) \/ SendFails(c)
      PROVE  TypeOK' /\ RxWhole'
  <2>1. /\ rx' = [rx EXCEPT ![c] = Idle] /\ (Tell(c, "yes") \/ Tell(c, "lost"))
        /\ (\E sent \in BOOLEAN : Convert(Reports(c), sent)) \/ UNCHANGED <<urr, usage>>
        /\ UNCHANGED <<world, gate, nl, passed, oops>>
    BY <1>8 DEF SendReports, SendFails
  <2>2. told' \in [Urr -> {"no", "yes", "lost", "asked"}]
    BY <2>1 DEF Tell, TypeOK
  <2>3. urr' \in [Urr -> UrrType] /\ due' \in [Urr -> Nat] /\ dropped' \in [Urr -> Nat]
    BY <2>1, ConvertIs DEF TypeOK, usage
  <2>. QED
    BY <2>1, <2>2, <2>3, IdleIs DEF TypeOK, RxTyped, world, gate, usage
<1>. QED
  BY <1>1, <1>2, <1>3, <1>4, <1>5, <1>6, <1>7, <1>8 DEF PacketStep

\* The second half of urr_fill: a stop, a resume, or neither.
Alive(u) == [urr[u] EXCEPT !.live = TRUE]
DoneStops(u, ok) ==
  /\ AsksStop(u) /\ QuotaExhaust(u, Alive(u), ok)
  /\ told' = [told EXCEPT ![u] = "asked"]
DoneResumes(u) ==
  /\ urr[u].exhausted /\ ReverseQuotaExhaust(u)
  /\ told' = told
DoneKeeps(u) ==
  /\ nl.quota # "none" => ~urr[u].exhausted
  /\ urr' = [urr EXCEPT ![u] = Alive(u)]
  /\ UNCHANGED <<gate, told>>

LEMMA DoneIs ==
  ASSUME TypeOK, NEW u \in Urr, AddUrrDone(u)
  PROVE  /\ (\E ok \in BOOLEAN : DoneStops(u, ok)) \/ DoneResumes(u) \/ DoneKeeps(u)
         /\ nl.urr = u /\ nl' = NoFill /\ UNCHANGED <<world, rx, passed, usage, oops>>
  BY OutcomeIs DEF AddUrrDone, DoneStops, DoneResumes, DoneKeeps, Alive

LEMMA AliveIs ==
  ASSUME TypeOK, NEW u \in Urr
  PROVE  /\ Alive(u) \in UrrType /\ Alive(u).live
         /\ Alive(u).trigger = urr[u].trigger /\ Alive(u).quota = urr[u].quota
         /\ Alive(u).bytes = urr[u].bytes /\ Alive(u).consumed = urr[u].consumed
         /\ Alive(u).exhausted = urr[u].exhausted /\ Alive(u).inam = urr[u].inam
         /\ Alive(u).saved = urr[u].saved
<1>1. urr[u] \in UrrType
  BY DEF TypeOK
<1>. QED
  BY <1>1 DEF UrrType, Alive

LEMMA TypeDone ==
  ASSUME TypeOK, RxWhole, NEW u \in Urr, AddUrrDone(u)
  PROVE  TypeOK' /\ RxWhole'
<1>1. UNCHANGED <<world, rx, passed, usage, oops>> /\ nl' = NoFill
  BY DoneIs
<1>2. /\ urr' \in [Urr -> UrrType] /\ action' \in [Far -> Actions] /\ tangled' \subseteq Far
      /\ told' \in [Urr -> {"no", "yes", "lost", "asked"}]
  <2>1. ASSUME NEW ok \in BOOLEAN, DoneStops(u, ok)
        PROVE  /\ urr' \in [Urr -> UrrType] /\ action' \in [Far -> Actions]
               /\ tangled' \subseteq Far /\ told' \in [Urr -> {"no", "yes", "lost", "asked"}]
    <3>1. Exhausted(u, Alive(u), ok)
      BY <2>1, AliveIs, ExhaustIs DEF DoneStops
    <3>. QED
      BY <2>1, <3>1 DEF Exhausted, TypeOK, DoneStops
  <2>2. CASE DoneResumes(u)
    <3>1. /\ action' \in [Far -> Actions] /\ urr'[u] \in UrrType /\ tangled' = tangled
          /\ urr' = [urr EXCEPT ![u] = urr'[u]]
      BY <2>2, ReverseIs DEF DoneResumes
    <3>. QED
      BY <2>2, <3>1 DEF TypeOK, DoneResumes
  <2>3. CASE DoneKeeps(u)
    BY <2>3, AliveIs DEF DoneKeeps, TypeOK, gate
  <2>. QED
    BY <2>1, <2>2, <2>3, DoneIs
<1>3. nl' \in [urr : Urr \cup {None}, quota : {"none", "zero", "some"}]
  BY <1>1 DEF NoFill
<1>. QED
  BY <1>1, <1>2, <1>3 DEF TypeOK, RxWhole, world, usage

LEMMA TypeNetlink ==
  ASSUME TypeOK, RxWhole, Netlink
  PROVE  TypeOK' /\ RxWhole'
<1>1. ASSUME NEW u \in Urr, NEW m \in Msg[u], AddUrr(u, m)
      PROVE  TypeOK' /\ RxWhole'
  <2>1. /\ urr' = [urr EXCEPT ![u] = Filled(urr[u], m)]
        /\ nl' = [urr |-> u, quota |-> Kind(m)]
        /\ told' = [told EXCEPT ![u] = IF m.quota = None THEN told[u] ELSE "no"]
        /\ passed' = [passed EXCEPT ![u] = IF m.quota = None THEN passed[u] ELSE 0]
        /\ dropped' = [dropped EXCEPT ![u] =
                         OfDue(dropped[u] + (urr[u].bytes - Filled(urr[u], m).bytes), due[u])]
        /\ UNCHANGED <<world, gate, rx, due, oops>>
    BY <1>1 DEF AddUrr, Kind
  <2>2. Filled(urr[u], m) \in UrrType
    BY FilledIs DEF TypeOK
  <2>7. OfDue(dropped[u] + (urr[u].bytes - Filled(urr[u], m).bytes), due[u]) \in Nat
    BY <2>2, ClearedIs, OfDueIs DEF TypeOK
  <2>3. urr' \in [Urr -> UrrType]
    BY <2>1, <2>2 DEF TypeOK
  <2>4. told' \in [Urr -> {"no", "yes", "lost", "asked"}] /\ dropped' \in [Urr -> Nat]
    BY <2>1, <2>7 DEF TypeOK
  <2>5. passed' \in [Urr -> Nat \cup {None}]
    BY <2>1 DEF TypeOK
  <2>6. nl' \in [urr : Urr \cup {None}, quota : {"none", "zero", "some"}]
    BY <2>1 DEF Kind
  <2>. QED
    BY <2>1, <2>3, <2>4, <2>5, <2>6 DEF TypeOK, RxWhole, world, gate, usage
<1>2. ASSUME NEW us, NEW sent \in BOOLEAN, Convert(us, sent),
             UNCHANGED <<world, gate, rx, nl, told, passed, oops>>
      PROVE  TypeOK' /\ RxWhole'
  BY <1>2, ConvertIs DEF TypeOK, RxWhole, world, gate, usage
<1>3. ASSUME NEW u \in Urr, DelUrr(u)
      PROVE  TypeOK' /\ RxWhole'
  <2>1. /\ urr' = [urr EXCEPT ![u] = NoUrr]
        /\ rx' = [c \in Cpu |-> Orphaned(rx[c], u)]
        /\ passed' = [passed EXCEPT ![u] = 0]
        /\ told' = [told EXCEPT ![u] = "no"]
        /\ due' = [due EXCEPT ![u] = 0] /\ dropped' = [dropped EXCEPT ![u] = 0]
        /\ UNCHANGED <<world, gate, nl, oops>>
    BY <1>3 DEF DelUrr
  <2>2. NoUrr \in UrrType
    BY DEF NoUrr, UrrType, NothingSaved
  <2>3. ASSUME NEW c \in Cpu
        PROVE  /\ rx'[c] \in RxType /\ rx'[c].at = rx[c].at /\ rx'[c].pdr = rx[c].pdr
               /\ rx'[c].len = rx[c].len /\ (rx'[c].left = <<>> <=> rx[c].left = <<>>)
               /\ Len(rx'[c].out) = Len(rx[c].out)
    <3>1. rx[c] \in RxType /\ (rx[c].at = "store" => rx[c].left # <<>>)
      BY DEF TypeOK, RxWhole
    <3>. QED
      BY <2>1, <3>1, OrphanedIs
  <2>4. ASSUME NEW c \in Cpu, rx[c].at = "idle"
        PROVE  rx'[c] = Idle
    <3>1. rx[c] = Idle
      BY <2>4 DEF RxWhole
    <3>2. rx[c] \in RxType /\ rx[c].at # "store"
      BY <2>4 DEF TypeOK
    <3>. QED
      BY <2>1, <3>1, <3>2, OrphanedIs
  <2>5. RxWhole'
    BY <2>3, <2>4 DEF RxWhole
  <2>6. /\ urr' \in [Urr -> UrrType] /\ passed' \in [Urr -> Nat \cup {None}]
        /\ told' \in [Urr -> {"no", "yes", "lost", "asked"}]
        /\ due' \in [Urr -> Nat] /\ dropped' \in [Urr -> Nat]
    BY <2>1, <2>2 DEF TypeOK
  <2>7. rx' \in [Cpu -> RxType]
    BY <2>1, <2>3
  <2>. QED
    BY <2>1, <2>3, <2>5, <2>6, <2>7 DEF TypeOK, world, gate, usage
<1>4. ASSUME NEW f \in Far, NEW a \in Action[f], SetAction(f, a)
      PROVE  TypeOK' /\ RxWhole'
  <2>1. a \in Actions
    BY Facts
  <2>. QED
    BY <1>4, <2>1 DEF SetAction, TypeOK, RxWhole, usage, history
<1>5. ASSUME NEW p \in Pdr, NEW f \in Far \cup {None}, LinkFar(p, f)
      PROVE  TypeOK' /\ RxWhole'
  BY <1>5 DEF LinkFar, TypeOK, RxWhole, gate, usage, history
<1>. QED
  BY <1>1, <1>2, <1>3, <1>4, <1>5, NetlinkIs

-----------------------------------------------------------------------------
\* Stops are reported

Untold(u) ==
  urr[u].exhausted /\ ~(nl.urr = u /\ nl.quota # "none") /\ told[u] = "no"
InReports(u) == \E c \in Cpu : u \in StopsIn(rx[c].out)

LEMMA StopKnownIs ==
  /\ StopKnown <=> \A u \in Urr : Untold(u) => InReports(u)
  /\ StopKnown' <=> \A u \in Urr : Untold(u)' => InReports(u)'
<1>1. \A u : InReports(u) <=> \E c \in Cpu : u \in Stops(c)
  BY StopsAre DEF InReports
<1>2. \A u : InReports(u)' <=> \E c \in Cpu : u \in Stops(c)'
  BY StopsAre DEF InReports
<1>. QED
  BY <1>1, <1>2 DEF StopKnown, Untold

\* A stop that was known before stays known: its URR is as it was, and the
\* packets under way keep their reports.
LEMMA StopStays ==
  ASSUME StopKnown, NEW u \in Urr,
         urr'[u].exhausted = urr[u].exhausted, nl' = nl, told'[u] = told[u],
         \A c \in Cpu : u \in StopsIn(rx[c].out) => u \in StopsIn(rx'[c].out)
  PROVE  Untold(u)' => InReports(u)'
<1>1. Untold(u)' => Untold(u)
  BY DEF Untold
<1>2. Untold(u) => InReports(u)
  BY StopKnownIs
<1>. QED
  BY <1>1, <1>2 DEF InReports

\* The packet's reports go, or are lost: its stops are then told.
LEMMA StopTold ==
  ASSUME TypeOK, StopKnown, NEW c \in Cpu, NEW how \in {"yes", "lost"}, Tell(c, how),
         rx' = [rx EXCEPT ![c] = Idle], nl' = nl,
         \A u \in Urr : urr'[u].exhausted = urr[u].exhausted
  PROVE  StopKnown'
<1>1. ASSUME NEW u \in Urr, Untold(u)'
      PROVE  InReports(u)'
  <2>1. u \notin Stops(c) /\ told'[u] = told[u]
    BY <1>1 DEF Tell, Untold
  <2>2. Untold(u)
    BY <1>1, <2>1 DEF Untold
  <2>3. PICK d \in Cpu : u \in StopsIn(rx[d].out)
    BY <2>2, StopKnownIs DEF InReports
  <2>4. d # c
    BY <2>1, <2>3, StopsAre
  <2>5. rx'[d] = rx[d]
    BY <2>4 DEF TypeOK
  <2>. QED
    BY <2>3, <2>5 DEF InReports
<1>. QED
  BY <1>1, StopKnownIs

LEMMA StopPacket ==
  ASSUME TypeOK, RxWhole, StopKnown, NEW c \in Cpu, PacketStep(c)
  PROVE  StopKnown'
<1>1. ASSUME NEW p \in Pdr, NEW len \in Lengths, Forward(c, p, len)
      PROVE  StopKnown'
  <2>1. /\ UNCHANGED <<urr, nl, told>> /\ rx[c].at = "idle"
        /\ \A d \in Cpu : d # c => rx'[d] = rx[d]
    BY <1>1 DEF Forward, Forwards, TypeOK
  <2>2. rx[c].out = <<>>
    BY <2>1 DEF RxWhole, Idle
  <2>3. StopsIn(rx[c].out) = {}
    <3>1. ToSet(<<>>) = {}
      BY DEF ToSet
    <3>. QED
      BY <2>2, <3>1 DEF StopsIn
  <2>4. \A u \in Urr : \A d \in Cpu : u \in StopsIn(rx[d].out) => u \in StopsIn(rx'[d].out)
    BY <2>1, <2>3
  <2>. QED
    BY <2>1, <2>4, StopStays, StopKnownIs
<1>2. ASSUME NEW p \in Pdr, ForwardUncounted(c, p)
      PROVE  StopKnown'
  BY <1>2, StopStays, StopKnownIs DEF ForwardUncounted
<1>3. ASSUME NEW u \in Urr, Skip(c, u)
      PROVE  StopKnown'
  <2>1. /\ UNCHANGED <<urr, nl, told>> /\ rx[c].at = "next" /\ Advance(c, rx[c].out)
    BY <1>3 DEF Skip, AtUrr, history
  <2>2. rx[c].out \in Seq(Report) /\ Len(rx[c].out) <= Len(UrrsOf[rx[c].pdr])
    BY <2>1, RxIs, Facts DEF RxWhole
  <2>3. rx'[c].out = rx[c].out /\ rx' = [rx EXCEPT ![c] = rx'[c]]
    BY <2>1, <2>2, AdvanceIs
  <2>4. \A d \in Cpu : rx'[d].out = rx[d].out
    BY <2>3 DEF TypeOK
  <2>. QED
    BY <2>1, <2>4, StopStays, StopKnownIs
<1>4. ASSUME NEW u \in Urr, NoTrigger(c, u)
      PROVE  StopKnown'
  BY <1>4, StopTold DEF NoTrigger
<1>5. ASSUME NEW u \in Urr, StartOfService(c, u)
      PROVE  StopKnown'
  <2> DEFINE l == Line(u, "start")
  <2>1. /\ rx[c].at = "next" /\ Advance(c, Append(rx[c].out, l)) /\ Room(c) > 0
        /\ nl' = nl /\ told' = told
    BY <1>5 DEF StartOfService, AtUrr
  <2>2. PICK ok \in BOOLEAN : QuotaExhaust(u, urr[u], ok)
    BY <1>5, OutcomeIs DEF StartOfService
  <2>3. /\ l \in Report /\ rx[c].out \in Seq(Report) /\ Len(rx[c].out) \in Nat
        /\ rx[c].pdr \in Pdr /\ Len(UrrsOf[rx[c].pdr]) \in Nat
    BY <2>1, RxIs, Facts, LenProperties DEF RxWhole, Line, Report, Triggers
  <2>4. /\ Append(rx[c].out, l) = rx[c].out \o <<l>> /\ <<l>> \in Seq(Report)
        /\ Append(rx[c].out, l) \in Seq(Report) /\ Len(Append(rx[c].out, l)) = Len(rx[c].out) + 1
    BY <2>3, AppendIsConcat, AppendProperties
  <2>5. Len(Append(rx[c].out, l)) <= Len(UrrsOf[rx[c].pdr])
    <3>1. \A m, n \in Nat : m - n > 0 => n + 1 <= m
      OBVIOUS
    <3>. QED
      BY <2>1, <2>3, <2>4, <3>1 DEF Room
  <2>6. rx'[c].out = Append(rx[c].out, l) /\ rx' = [rx EXCEPT ![c] = rx'[c]]
    BY <2>1, <2>4, <2>5, AdvanceIs
  <2>7. StopsIn(<<l>>) = {u}
    BY DEF StopsIn, ToSet, Line
  <2>. HIDE DEF l
  <2>8. StopsIn(rx'[c].out) = StopsIn(rx[c].out) \cup {u}
    <3>1. StopsIn(rx[c].out \o <<l>>) = StopsIn(rx[c].out) \cup StopsIn(<<l>>)
      BY <2>3, <2>4, StopsGrow
    <3>. QED
      BY <2>4, <2>6, <2>7, <3>1
  <2>9. \A d \in Cpu : StopsIn(rx[d].out) \subseteq StopsIn(rx'[d].out)
    BY <2>6, <2>8 DEF TypeOK
  <2>10. urr[u] \in UrrType
    BY DEF TypeOK
  <2>11. \A v \in Urr : v # u => urr'[v] = urr[v]
    <3>1. Exhausted(u, urr[u], ok)
      BY <2>2, <2>10, ExhaustIs
    <3>. QED
      BY <3>1 DEF Exhausted, TypeOK
  <2>12. ASSUME NEW v \in Urr
         PROVE  Untold(v)' => InReports(v)'
    <3>1. CASE v = u
      BY <2>8, <3>1 DEF InReports
    <3>2. CASE v # u
      BY <2>1, <2>9, <2>11, <3>2, StopStays
    <3>. QED
      BY <3>1, <3>2
  <2>. QED
    BY <2>12, StopKnownIs
<1>6. ASSUME NEW u \in Urr, LoadCounters(c, u)
      PROVE  StopKnown'
  <2>1. \A d \in Cpu : rx'[d].out = rx[d].out
    <3>1. rx[c] \in RxType
      BY RxIs
    <3>. QED
      BY <1>6, <3>1 DEF LoadCounters, TypeOK, RxType
  <2>. QED
    BY <1>6, <2>1, StopStays, StopKnownIs DEF LoadCounters, history
<1>7. ASSUME StoreCounters(c)
      PROVE  StopKnown'
  <2> DEFINE u == Head(rx[c].left)
             w == Counted(c, u)
  <2>1. rx[c].at = "store" /\ nl' = nl /\ told' = told
    BY <1>7 DEF StoreCounters
  <2>2. /\ rx[c].left # <<>> /\ rx[c].out \in Seq(Report) /\ Len(rx[c].out) \in Nat
        /\ rx[c].pdr \in Pdr /\ Len(UrrsOf[rx[c].pdr]) \in Nat
        /\ Len(rx[c].out) <= Len(UrrsOf[rx[c].pdr])
    BY <2>1, RxIs, Facts, LenProperties DEF RxWhole
  <2>3. u \in Urr \cup {None}
    BY <2>2, RxIs, InSeq
  <2>4. CASE u = None
    <3>1. Advance(c, rx[c].out) /\ urr' = urr
      BY <1>7, <2>4 DEF StoreCounters
    <3>2. rx'[c].out = rx[c].out /\ rx' = [rx EXCEPT ![c] = rx'[c]]
      BY <2>1, <2>2, <3>1, AdvanceIs
    <3>3. \A d \in Cpu : rx'[d].out = rx[d].out
      BY <3>2 DEF TypeOK
    <3>. QED
      BY <2>1, <3>1, <3>3, StopStays, StopKnownIs
  <2>5. CASE u # None
    <3>1. /\ u \in Urr /\ Len(Lines(u, w)) <= Room(c) /\ Advance(c, rx[c].out \o Lines(u, w))
      BY <1>7, <2>3, <2>5 DEF StoreCounters
    <3>2. w \in UrrType /\ w.exhausted = urr[u].exhausted
      BY <3>1, CountedIs
    <3>3. Lines(u, w) \in Seq(Report) /\ Len(Lines(u, w)) \in Nat
      BY <3>1, LinesAre, LenProperties
    <3>4. \/ OverQuota(w) /\ \E ok \in BOOLEAN : QuotaExhaust(u, w, ok)
          \/ ~OverQuota(w) /\ urr' = [urr EXCEPT ![u] = w]
      BY <1>7, <2>5, OutcomeIs DEF StoreCounters
    <3>5. OverQuota(w) => StopsIn(Lines(u, w)) = {u}
      BY <3>1, LinesAre
    <3>. HIDE DEF u, w
    <3>6. /\ rx[c].out \o Lines(u, w) \in Seq(Report)
          /\ Len(rx[c].out \o Lines(u, w)) <= Len(UrrsOf[rx[c].pdr])
      BY <2>2, <3>1, <3>3, ConcatProperties DEF Room
    <3>7. rx'[c].out = rx[c].out \o Lines(u, w) /\ rx' = [rx EXCEPT ![c] = rx'[c]]
      BY <2>1, <3>1, <3>6, AdvanceIs
    <3>8. StopsIn(rx'[c].out) = StopsIn(rx[c].out) \cup StopsIn(Lines(u, w))
      BY <2>2, <3>3, <3>7, StopsGrow
    <3>9. \A d \in Cpu : StopsIn(rx[d].out) \subseteq StopsIn(rx'[d].out)
      BY <3>7, <3>8 DEF TypeOK
    <3>10. \A v \in Urr : v # u => urr'[v] = urr[v]
      <4>1. ASSUME NEW ok \in BOOLEAN, QuotaExhaust(u, w, ok)
            PROVE  \A v \in Urr : v # u => urr'[v] = urr[v]
        <5>1. Exhausted(u, w, ok)
          BY <3>1, <3>2, <4>1, ExhaustIs
        <5>. QED
          BY <5>1 DEF Exhausted, TypeOK
      <4>. QED
        BY <3>4, <4>1 DEF TypeOK
    <3>11. ASSUME NEW v \in Urr
           PROVE  Untold(v)' => InReports(v)'
      <4>1. CASE v = u /\ OverQuota(w)
        BY <3>5, <3>8, <4>1 DEF InReports
      <4>2. CASE v = u /\ ~OverQuota(w)
        <5>1. urr'[u] = w
          BY <3>1, <3>4, <4>2 DEF TypeOK
        <5>. QED
          BY <2>1, <3>2, <3>9, <4>2, <5>1, StopStays
      <4>3. CASE v # u
        BY <2>1, <3>9, <3>10, <4>3, StopStays
      <4>. QED
        BY <4>1, <4>2, <4>3
    <3>. QED
      BY <3>11, StopKnownIs
  <2>. QED
    BY <2>4, <2>5
<1>8. ASSUME SendReports(c) \/ SendFails(c)
      PROVE  StopKnown'
  <2>1. /\ rx' = [rx EXCEPT ![c] = Idle] /\ (\E how \in {"yes", "lost"} : Tell(c, how)) /\ nl' = nl
        /\ (\E sent \in BOOLEAN : Convert(Reports(c), sent)) \/ urr' = urr
    BY <1>8 DEF SendReports, SendFails
  <2>2. \A u \in Urr : urr'[u].exhausted = urr[u].exhausted
    <3>1. CASE urr' = urr
      BY <3>1
    <3>2. CASE \E sent \in BOOLEAN : Convert(Reports(c), sent)
      BY <3>2, ConvertIs DEF Taken
    <3>. QED
      BY <2>1, <3>1, <3>2
  <2>. QED
    BY <2>1, <2>2, StopTold
<1>. QED
  BY <1>1, <1>2, <1>3, <1>4, <1>5, <1>6, <1>7, <1>8 DEF PacketStep

LEMMA StopNetlink ==
  ASSUME TypeOK, RxWhole, StopKnown, Netlink
  PROVE  StopKnown'
<1>1. ASSUME NEW u \in Urr, NEW m \in Msg[u], AddUrr(u, m)
      PROVE  StopKnown'
  <2>1. /\ urr' = [urr EXCEPT ![u] = Filled(urr[u], m)] /\ nl = NoFill
        /\ nl' = [urr |-> u, quota |-> Kind(m)] /\ rx' = rx
        /\ told' = [told EXCEPT ![u] = IF m.quota = None THEN told[u] ELSE "no"]
    BY <1>1 DEF AddUrr, NetlinkReady, Kind
  <2>2. ASSUME NEW v \in Urr, Untold(v)'
        PROVE  InReports(v)'
    <3>1. nl.quota = "none" /\ (m.quota # None => Kind(m) # "none")
      BY <2>1 DEF NoFill, Kind
    <3>2. CASE v = u
      <4>1. m.quota = None
        BY <2>1, <2>2, <3>1, <3>2 DEF Untold
      <4>2. urr'[u].exhausted = urr[u].exhausted /\ told'[u] = told[u]
        BY <2>1, <4>1, FilledIs DEF TypeOK
      <4>3. Untold(v)
        BY <2>2, <3>1, <3>2, <4>2 DEF Untold
      <4>. QED
        BY <2>1, <4>3, StopKnownIs DEF InReports
    <3>3. CASE v # u
      <4>1. urr'[v] = urr[v] /\ told'[v] = told[v]
        BY <2>1, <3>3 DEF TypeOK
      <4>2. Untold(v)
        BY <2>2, <3>1, <4>1 DEF Untold
      <4>. QED
        BY <2>1, <4>2, StopKnownIs DEF InReports
    <3>. QED
      BY <3>2, <3>3
  <2>. QED
    BY <2>2, StopKnownIs
<1>2. ASSUME NEW us, NEW sent \in BOOLEAN, Convert(us, sent),
             UNCHANGED <<world, gate, rx, nl, told, passed, oops>>
      PROVE  StopKnown'
  <2>1. \A u \in Urr : urr'[u].exhausted = urr[u].exhausted
    BY <1>2, ConvertIs DEF Taken
  <2>. QED
    BY <1>2, <2>1, StopStays, StopKnownIs
<1>3. ASSUME NEW u \in Urr, DelUrr(u)
      PROVE  StopKnown'
  <2>1. /\ urr' = [urr EXCEPT ![u] = NoUrr]
        /\ rx' = [c \in Cpu |-> Orphaned(rx[c], u)]
        /\ told' = [told EXCEPT ![u] = "no"] /\ nl' = nl
    BY <1>3 DEF DelUrr
  <2>2. ~urr'[u].exhausted
    BY <2>1 DEF NoUrr, TypeOK
  <2>3. ASSUME NEW v \in Urr, v # u, NEW c \in Cpu, v \in StopsIn(rx[c].out)
        PROVE  v \in StopsIn(rx'[c].out)
    <3>1. rx[c] \in RxType /\ (rx[c].at = "store" => rx[c].left # <<>>)
      BY DEF TypeOK, RxWhole
    <3>. QED
      BY <2>1, <2>3, <3>1, OrphanedIs
  <2>4. ASSUME NEW v \in Urr
        PROVE  Untold(v)' => InReports(v)'
    <3>1. CASE v = u
      BY <2>2, <3>1 DEF Untold
    <3>2. CASE v # u
      <4>1. urr'[v] = urr[v] /\ told'[v] = told[v]
        BY <2>1, <3>2 DEF TypeOK
      <4>. QED
        BY <2>1, <2>3, <3>2, <4>1, StopStays
    <3>. QED
      BY <3>1, <3>2
  <2>. QED
    BY <2>4, StopKnownIs
<1>4. ASSUME NEW f \in Far, NEW a \in Action[f], SetAction(f, a)
      PROVE  StopKnown'
  BY <1>4, StopStays, StopKnownIs DEF SetAction, history
<1>5. ASSUME NEW p \in Pdr, NEW f \in Far \cup {None}, LinkFar(p, f)
      PROVE  StopKnown'
  BY <1>5, StopStays, StopKnownIs DEF LinkFar, history
<1>. QED
  BY <1>1, <1>2, <1>3, <1>4, <1>5, NetlinkIs

LEMMA StopDone ==
  ASSUME TypeOK, StopKnown, NEW u \in Urr, AddUrrDone(u)
  PROVE  StopKnown'
<1>1. nl.urr = u /\ nl' = NoFill /\ rx' = rx
  BY DoneIs
<1>2. /\ \A v \in Urr : v # u => urr'[v] = urr[v] /\ told'[v] = told[v]
      /\ \/ told'[u] = "asked" \/ ~urr'[u].exhausted
         \/ /\ nl.quota = "none"
            /\ urr'[u].exhausted = urr[u].exhausted /\ told'[u] = told[u]
  <2>1. ASSUME NEW ok \in BOOLEAN, DoneStops(u, ok)
        PROVE  /\ told'[u] = "asked"
               /\ \A v \in Urr : v # u => urr'[v] = urr[v] /\ told'[v] = told[v]
    <3>1. Exhausted(u, Alive(u), ok)
      BY <2>1, AliveIs, ExhaustIs DEF DoneStops
    <3>. QED
      BY <2>1, <3>1 DEF Exhausted, DoneStops, TypeOK
  <2>2. CASE DoneResumes(u)
    <3>1. urr' = [urr EXCEPT ![u] = urr'[u]] /\ urr'[u].exhausted = FALSE
      BY <2>2, ReverseIs DEF DoneResumes
    <3>. QED
      BY <2>2, <3>1 DEF TypeOK, DoneResumes
  <2>3. CASE DoneKeeps(u)
    <3>1. urr'[u] = Alive(u) /\ told' = told /\ \A v \in Urr : v # u => urr'[v] = urr[v]
      BY <2>3 DEF DoneKeeps, TypeOK
    <3>. QED
      BY <2>3, <3>1, AliveIs DEF DoneKeeps
  <2>. QED
    BY <2>1, <2>2, <2>3, DoneIs
<1>3. ASSUME NEW v \in Urr, Untold(v)'
      PROVE  InReports(v)'
  <2>1. Untold(v)
    <3>1. CASE v = u
      BY <1>1, <1>2, <1>3, <3>1 DEF Untold
    <3>2. CASE v # u
      BY <1>1, <1>2, <1>3, <3>2 DEF Untold
    <3>. QED
      BY <3>1, <3>2
  <2>. QED
    BY <1>1, <2>1, StopKnownIs DEF InReports
<1>. QED
  BY <1>3, StopKnownIs

LEMMA StopInit == Init => StopInv
<1> SUFFICES ASSUME Init PROVE StopInv
  OBVIOUS
<1>1. NoUrr \in UrrType
  BY DEF NoUrr, UrrType, NothingSaved
<1>2. Idle \in RxType /\ Idle.pdr = None /\ Idle.at = "idle" /\ Idle.left = <<>>
  BY DEF Idle, RxType
<1>3. farOf \in [Pdr -> Far \cup {None}] /\ normal \in [Far -> Actions] /\ action = normal
  BY Facts DEF Init
<1>4. NoFill \in [urr : Urr \cup {None}, quota : {"none", "zero", "some"}]
  BY DEF NoFill
<1>5. TypeOK
  BY <1>1, <1>2, <1>3, <1>4 DEF Init, TypeOK
<1>6. RxWhole
  BY <1>2 DEF Init, RxWhole
<1>7. StopKnown
  BY DEF Init, StopKnown, NoUrr
<1>. QED
  BY <1>5, <1>6, <1>7 DEF StopInv

LEMMA StopNext == StopInv /\ [Next]_vars => StopInv'
<1> SUFFICES ASSUME StopInv, [Next]_vars PROVE StopInv'
  OBVIOUS
<1>. USE DEF StopInv
<1>1. ASSUME UNCHANGED <<urr, world, gate, rx, nl, history>>, oops' \in BOOLEAN
      PROVE  StopInv'
  <2>1. TypeOK' /\ RxWhole'
    BY <1>1 DEF TypeOK, RxWhole, world, gate, usage, history
  <2>2. StopKnown'
    BY <1>1, StopStays, StopKnownIs DEF history
  <2>. QED
    BY <2>1, <2>2
<1>2. CASE Next
  <2>1. ASSUME NEW c \in Cpu, PacketStep(c) PROVE StopInv'
    BY <2>1, TypePacket, StopPacket
  <2>2. ASSUME NEW u \in Urr, AddUrrDone(u) PROVE StopInv'
    BY <2>2, TypeDone, StopDone
  <2>3. CASE Netlink
    BY <2>3, TypeNetlink, StopNetlink
  <2>4. CASE Faults
    BY <1>1, <2>4 DEF Faults
  <2>. QED
    BY <1>2, <2>1, <2>2, <2>3, <2>4, NextIs
<1>3. CASE UNCHANGED vars
  BY <1>1, <1>3 DEF vars, TypeOK
<1>. QED
  BY <1>2, <1>3

\* The inductive invariant of the reports holds in every state, for any
\* PDRs, FARs, URRs and CPUs, and any messages in any order.
THEOREM ReportInvariance == Spec => []StopInv
  BY StopInit, StopNext, PTL DEF Spec

\* The types of URRs, packets under way and FARs; a packet never has more
\* reports than its arrays have entries.
THEOREM UrrTypes == Spec => []TypeOK
<1>1. StopInv => TypeOK
  BY DEF StopInv
<1>. QED
  BY <1>1, ReportInvariance, PTL

\* The control plane knows of every stop, but for the packets under way and the
\* reports that are lost as a whole: whatever grants, deletions and requests
\* come between the stop and the report, and on however many CPUs.
THEOREM StopsAreTold == Spec => []StopIsTold
<1>1. StopInv => StopIsTold
  <2>1. SUFFICES ASSUME StopInv, \A c \in Cpu : rx[c] = Idle,
                        NEW u \in Urr, urr[u].exhausted, nl.urr # u, told[u] = "no"
                 PROVE  FALSE
    BY DEF StopIsTold
  <2>2. PICK c \in Cpu : u \in StopsIn(rx[c].out)
    BY <2>1, StopKnownIs DEF StopInv, Untold, InReports
  <2>3. rx[c].out = <<>>
    BY <2>1 DEF Idle
  <2>. QED
    BY <2>2, <2>3 DEF StopsIn, ToSet
<1>. QED
  BY <1>1, ReportInvariance, PTL

-----------------------------------------------------------------------------
\* No usage is lost

\* Nothing is loaded, and what is due only shrinks.
LEMMA UsageStays ==
  ASSUME TypeOK, TypeOK', UsageInv, \A u \in Urr : Kept(u),
         \A c \in Cpu : rx'[c].at = "store" =>
           rx[c].at = "store" /\ Head(rx'[c].left) \in {None, Head(rx[c].left)} /\ rx'[c].bytes = rx[c].bytes
  PROVE  UsageInv'
<1>1. NoneUnreported'
  BY DEF UsageInv, NoneUnreported, Kept
<1>2. ASSUME NEW c \in Cpu, NEW u \in Urr, rx'[c].at = "store", Head(rx'[c].left) = u
      PROVE  due'[u] <= rx'[c].bytes + dropped'[u]
  <2>1. rx[c].at = "store" /\ Head(rx[c].left) = u /\ rx'[c].bytes = rx[c].bytes
    BY <1>2, Facts
  <2>2. due[u] <= rx[c].bytes + dropped[u]
    BY <2>1 DEF UsageInv, LoadCovers
  <2>3. rx[c].bytes \in Nat
    BY RxIs
  <2>. QED
    BY <2>1, <2>2, <2>3 DEF Kept
<1>. QED
  BY <1>1, <1>2 DEF UsageInv, LoadCovers

\* Neither the usage of a URR nor its bytes change.
LEMMA KeptSame ==
  ASSUME TypeOK, NEW u \in Urr, due'[u] = due[u], dropped'[u] = dropped[u],
         urr'[u].bytes = urr[u].bytes
  PROVE  Kept(u)
<1>1. due[u] \in Nat
  BY DEF TypeOK
<1>. QED
  BY <1>1 DEF Kept

LEMMA UsagePacket ==
  ASSUME OneCpu, TypeOK, RxWhole, TypeOK', UsageInv, NEW c \in Cpu, PacketStep(c)
  PROVE  UsageInv'
<1>0. /\ \A u \in Urr : /\ due[u] \in Nat /\ dropped[u] \in Nat /\ urr[u].bytes \in Nat
                        /\ due[u] <= urr[u].bytes + dropped[u]
      /\ \A d \in Cpu : d = c
  BY DEF TypeOK, UrrType, UsageInv, NoneUnreported, OneCpu
<1>1. ASSUME NEW p \in Pdr, NEW len \in Lengths, Forward(c, p, len)
      PROVE  UsageInv'
  <2>1. rx'[c].at = "next" /\ urr' = urr /\ UNCHANGED usage
    BY <1>1 DEF Forward, TypeOK, usage
  <2>. QED
    BY <1>0, <2>1, KeptSame, UsageStays DEF usage
<1>2. ASSUME NEW p \in Pdr, ForwardUncounted(c, p)
      PROVE  UsageInv'
  BY <1>0, <1>2, KeptSame, UsageStays DEF ForwardUncounted, usage
<1>3. ASSUME NEW u \in Urr, Skip(c, u)
      PROVE  UsageInv'
  <2>1. /\ urr' = urr /\ UNCHANGED usage /\ rx[c].at = "next" /\ Advance(c, rx[c].out)
    BY <1>3 DEF Skip, AtUrr, history, usage
  <2>2. rx[c].out \in Seq(Report) /\ Len(rx[c].out) <= Len(UrrsOf[rx[c].pdr])
    BY <2>1, RxIs, Facts DEF RxWhole
  <2>3. rx'[c].at # "store"
    BY <2>1, <2>2, AdvanceIs
  <2>. QED
    BY <1>0, <2>1, <2>3, KeptSame, UsageStays DEF usage
<1>4. ASSUME NEW u \in Urr, NoTrigger(c, u)
      PROVE  UsageInv'
  <2>1. urr' = urr /\ UNCHANGED usage /\ rx'[c].at # "store"
    BY <1>4 DEF NoTrigger, TypeOK, Idle, usage
  <2>. QED
    BY <1>0, <2>1, KeptSame, UsageStays DEF usage
<1>5. ASSUME NEW u \in Urr, StartOfService(c, u)
      PROVE  UsageInv'
  <2>1. /\ rx' = [rx EXCEPT ![c] = rx'[c]] /\ rx'[c].at \in {"idle", "next", "send"} /\ UNCHANGED usage
    <3>1. rx'[c].at \in {"idle", "next", "send"}
      BY <1>5 DEF StartOfService, Advance, TypeOK, RxType, Idle
    <3>. QED
      BY <1>5, <3>1 DEF StartOfService, Advance, TypeOK, usage
  <2>2. PICK ok \in BOOLEAN : QuotaExhaust(u, urr[u], ok)
    BY <1>5, OutcomeIs DEF StartOfService
  <2>3. urr[u] \in UrrType
    BY DEF TypeOK
  <2>4. Exhausted(u, urr[u], ok)
    BY <2>2, <2>3, ExhaustIs
  <2>5. \A v \in Urr : urr'[v].bytes = urr[v].bytes
    BY <2>4 DEF Exhausted, TypeOK
  <2>. QED
    BY <1>0, <2>1, <2>5, KeptSame, UsageStays DEF usage
<1>6. ASSUME NEW u \in Urr, LoadCounters(c, u)
      PROVE  UsageInv'
  <2>1. /\ urr' = urr /\ UNCHANGED usage /\ rx'[c].left = rx[c].left /\ rx'[c].bytes = urr[u].bytes
        /\ Head(rx[c].left) = u
    <3>1. rx[c] \in RxType
      BY RxIs
    <3>. QED
      BY <1>6, <3>1 DEF LoadCounters, AtUrr, TypeOK, history, usage, RxType
  <2>2. NoneUnreported'
    BY <2>1 DEF UsageInv, NoneUnreported, usage
  <2>3. LoadCovers'
    BY <1>0, <2>1 DEF LoadCovers, usage
  <2>. QED
    BY <2>2, <2>3 DEF UsageInv
<1>7. ASSUME StoreCounters(c)
      PROVE  UsageInv'
  <2> DEFINE u == Head(rx[c].left)
             w == Counted(c, u)
  <2>1. rx[c].at = "store" /\ rx'[c].at # "store"
    <3>1. rx[c].at = "store" /\ \E out : Advance(c, out)
      BY <1>7 DEF StoreCounters
    <3>2. PICK out : Advance(c, out)
      BY <3>1
    <3>3. rx'[c].at \in {"idle", "next", "send"}
      BY <3>2 DEF Advance, TypeOK, RxType, Idle
    <3>. QED
      BY <3>1, <3>3
  <2>2. u \in Urr \cup {None}
    BY <2>1, RxIs, InSeq DEF RxWhole
  <2>3. CASE u = None
    <3>1. urr' = urr /\ UNCHANGED usage
      BY <1>7, <2>3 DEF StoreCounters, usage
    <3>. QED
      BY <1>0, <2>1, <3>1, KeptSame, UsageStays DEF usage
  <2>4. CASE u # None
    <3>1. /\ u \in Urr /\ due' = [due EXCEPT ![u] = due[u] + rx[c].len] /\ dropped' = dropped
          /\ (\E ok \in BOOLEAN : QuotaExhaust(u, w, ok)) \/ urr' = [urr EXCEPT ![u] = w]
      BY <1>7, <2>2, <2>4, OutcomeIs DEF StoreCounters
    <3>2. w \in UrrType /\ w.bytes = rx[c].bytes + rx[c].len
      BY <3>1, CountedIs
    <3>3. due[u] <= rx[c].bytes + dropped[u]
      BY <2>1, <3>1 DEF UsageInv, LoadCovers
    <3>. HIDE DEF u, w
    <3>4. urr'[u].bytes = w.bytes /\ \A v \in Urr : v # u => urr'[v] = urr[v]
      <4>1. ASSUME NEW ok \in BOOLEAN, QuotaExhaust(u, w, ok)
            PROVE  urr'[u].bytes = w.bytes /\ \A v \in Urr : v # u => urr'[v] = urr[v]
        <5>1. Exhausted(u, w, ok)
          BY <3>1, <3>2, <4>1, ExhaustIs
        <5>. QED
          BY <5>1 DEF Exhausted, TypeOK
      <4>2. CASE urr' = [urr EXCEPT ![u] = w]
        BY <3>1, <4>2 DEF TypeOK
      <4>. QED
        BY <3>1, <4>1, <4>2
    <3>5. rx[c].len \in Nat /\ rx[c].bytes \in Nat /\ due[u] \in Nat /\ dropped[u] \in Nat
      BY <3>1, RxIs DEF TypeOK
    <3>6. due'[u] = due[u] + rx[c].len /\ \A v \in Urr : v # u => due'[v] = due[v]
      BY <3>1 DEF TypeOK
    <3>7. due'[u] <= urr'[u].bytes + dropped'[u]
      BY <3>1, <3>2, <3>3, <3>4, <3>5, <3>6
    <3>8. NoneUnreported'
      BY <1>0, <3>1, <3>4, <3>6, <3>7 DEF NoneUnreported
    <3>9. LoadCovers'
      BY <1>0, <2>1 DEF LoadCovers
    <3>. QED
      BY <3>8, <3>9 DEF UsageInv
  <2>. QED
    BY <2>3, <2>4
<1>8. ASSUME SendReports(c) \/ SendFails(c)
      PROVE  UsageInv'
  <2>1. /\ rx'[c].at # "store"
        /\ (\E sent \in BOOLEAN : Convert(Reports(c), sent)) \/ (urr' = urr /\ UNCHANGED usage)
    <3>1. rx' = [rx EXCEPT ![c] = Idle]
      BY <1>8 DEF SendReports, SendFails
    <3>2. (\E sent \in BOOLEAN : Convert(Reports(c), sent)) \/ (urr' = urr /\ UNCHANGED usage)
      BY <1>8 DEF SendReports, SendFails
    <3>. QED
      BY <3>1, <3>2 DEF TypeOK, Idle
  <2>2. \A u \in Urr : Kept(u)
    BY <2>1, ConvertIs, KeptSame DEF usage
  <2>. QED
    BY <1>0, <2>1, <2>2, UsageStays
<1>. QED
  BY <1>1, <1>2, <1>3, <1>4, <1>5, <1>6, <1>7, <1>8 DEF PacketStep

LEMMA UsageNetlink ==
  ASSUME TypeOK, RxWhole, TypeOK', UsageInv, Netlink
  PROVE  UsageInv'
<1>1. ASSUME NEW u \in Urr, NEW m \in Msg[u], AddUrr(u, m)
      PROVE  UsageInv'
  <2> DEFINE k == urr[u].bytes - Filled(urr[u], m).bytes
  <2>1. /\ urr' = [urr EXCEPT ![u] = Filled(urr[u], m)] /\ rx' = rx /\ due' = due
        /\ dropped' = [dropped EXCEPT ![u] = OfDue(dropped[u] + k, due[u])]
    BY <1>1 DEF AddUrr
  <2>2. /\ k \in Nat /\ urr[u].bytes = Filled(urr[u], m).bytes + k /\ dropped[u] + k \in Nat
        /\ due[u] \in Nat /\ dropped[u] \in Nat /\ Filled(urr[u], m).bytes \in Nat
    <3>1. urr[u] \in UrrType /\ due[u] \in Nat /\ dropped[u] \in Nat
      BY DEF TypeOK
    <3>2. Filled(urr[u], m).bytes \in Nat
      BY <3>1, FilledIs DEF UrrType
    <3>. QED
      BY <3>1, <3>2, ClearedIs
  <2>. HIDE DEF k
  <2>3. /\ \A v \in Urr : v # u => dropped'[v] = dropped[v] /\ urr'[v] = urr[v]
        /\ dropped'[u] = OfDue(dropped[u] + k, due[u]) /\ urr'[u] = Filled(urr[u], m)
    BY <2>1 DEF TypeOK
  <2>4. Kept(u)
    <3>1. dropped'[u] = IF dropped[u] + k > due[u] THEN due[u] ELSE dropped[u] + k
      BY <2>2, <2>3, OfDueIs
    <3>2. due'[u] = due[u] /\ urr'[u].bytes \in Nat /\ urr[u].bytes = urr'[u].bytes + k
      BY <2>1, <2>2, <2>3
    <3>3. due[u] <= urr[u].bytes + dropped[u] => due'[u] <= urr'[u].bytes + dropped'[u]
      BY <2>2, <3>1, <3>2
    <3>4. \A b \in Nat : due[u] <= b + dropped[u] => due'[u] <= b + dropped'[u]
      BY <2>2, <3>1, <3>2
    <3>. QED
      BY <2>2, <3>2, <3>3, <3>4 DEF Kept
  <2>5. \A v \in Urr : Kept(v)
    BY <2>1, <2>3, <2>4, KeptSame
  <2>. QED
    BY <2>1, <2>5, UsageStays
<1>2. ASSUME NEW us, NEW sent \in BOOLEAN, Convert(us, sent),
             UNCHANGED <<world, gate, rx, nl, told, passed, oops>>
      PROVE  UsageInv'
  BY <1>2, ConvertIs, UsageStays
<1>3. ASSUME NEW u \in Urr, DelUrr(u)
      PROVE  UsageInv'
  <2>1. /\ urr' = [urr EXCEPT ![u] = NoUrr]
        /\ rx' = [c \in Cpu |-> Orphaned(rx[c], u)]
        /\ due' = [due EXCEPT ![u] = 0] /\ dropped' = [dropped EXCEPT ![u] = 0]
    BY <1>3 DEF DelUrr
  <2>2. ASSUME NEW c \in Cpu, rx'[c].at = "store"
        PROVE  /\ rx[c].at = "store" /\ rx'[c].bytes = rx[c].bytes
               /\ Head(rx'[c].left) \in {None, Head(rx[c].left)}
    <3>1. rx[c] \in RxType /\ (rx[c].at = "store" => rx[c].left # <<>>)
      BY DEF TypeOK, RxWhole
    <3>. QED
      BY <2>1, <2>2, <3>1, OrphanedIs
  <2>3. \A v \in Urr : Kept(v)
    <3>1. /\ due'[u] = 0 /\ urr'[u].bytes = 0 /\ dropped'[u] = 0
          /\ \A v \in Urr : v # u => /\ due'[v] = due[v] /\ dropped'[v] = dropped[v]
                                     /\ urr'[v] = urr[v]
      BY <2>1 DEF TypeOK, NoUrr
    <3>2. due[u] \in Nat
      BY DEF TypeOK
    <3>3. Kept(u)
      BY <3>1, <3>2 DEF Kept
    <3>. QED
      BY <3>1, <3>3, KeptSame
  <2>. QED
    BY <2>2, <2>3, UsageStays
<1>4. CASE UNCHANGED <<urr, rx, usage>>
  BY <1>4, KeptSame, UsageStays DEF usage
<1>5. (\E f \in Far : \E a \in Action[f] : SetAction(f, a)) => UNCHANGED <<urr, rx, usage>>
  BY DEF SetAction, history
<1>6. (\E p \in Pdr : \E f \in Far \cup {None} : LinkFar(p, f)) => UNCHANGED <<urr, rx, usage>>
  BY DEF LinkFar, history
<1>. QED
  BY <1>1, <1>2, <1>3, <1>4, <1>5, <1>6, NetlinkIs

LEMMA UsageDone ==
  ASSUME TypeOK, TypeOK', UsageInv, NEW u \in Urr, AddUrrDone(u)
  PROVE  UsageInv'
<1>1. rx' = rx /\ UNCHANGED usage
  BY DoneIs
<1>2. \A v \in Urr : urr'[v].bytes = urr[v].bytes
  <2>1. ASSUME NEW ok \in BOOLEAN, DoneStops(u, ok)
        PROVE  \A v \in Urr : urr'[v].bytes = urr[v].bytes
    <3>1. Exhausted(u, Alive(u), ok)
      BY <2>1, AliveIs, ExhaustIs DEF DoneStops
    <3>. QED
      BY <3>1, AliveIs DEF Exhausted, TypeOK
  <2>2. CASE DoneResumes(u)
    <3>1. urr' = [urr EXCEPT ![u] = urr'[u]] /\ urr'[u].bytes = urr[u].bytes
      BY <2>2, ReverseIs DEF DoneResumes
    <3>. QED
      BY <3>1 DEF TypeOK
  <2>3. CASE DoneKeeps(u)
    BY <2>3, AliveIs DEF DoneKeeps, TypeOK
  <2>. QED
    BY <2>1, <2>2, <2>3, DoneIs
<1>. QED
  BY <1>1, <1>2, KeptSame, UsageStays DEF usage

LEMMA UsageNext ==
  ASSUME OneCpu, StopInv, StopInv', UsageInv, [Next]_vars
  PROVE  UsageInv'
<1>. USE DEF StopInv
<1>1. CASE UNCHANGED <<urr, rx, usage>>
  BY <1>1, KeptSame, UsageStays DEF usage
<1>2. CASE Next
  <2>1. ASSUME NEW c \in Cpu, PacketStep(c) PROVE UsageInv'
    BY <2>1, UsagePacket
  <2>2. ASSUME NEW u \in Urr, AddUrrDone(u) PROVE UsageInv'
    BY <2>2, UsageDone
  <2>3. CASE Netlink
    BY <2>3, UsageNetlink
  <2>4. CASE Faults
    BY <1>1, <2>4 DEF Faults, history
  <2>. QED
    BY <1>2, <2>1, <2>2, <2>3, <2>4, NextIs
<1>3. CASE UNCHANGED vars
  BY <1>1, <1>3 DEF vars, history
<1>. QED
  BY <1>2, <1>3

LEMMA UsageInit == Init => UsageInv
  BY Facts DEF Init, UsageInv, NoneUnreported, LoadCovers, NoUrr, Idle

\* With one CPU counting, a URR holds all the volume that is due, but for what
\* the code has cleared without a report (START, reports that were not sent,
\* requests for several URRs that failed): whatever requests, grants and
\* deletions come between the load of a counter and its store.
THEOREM UsageIsKept == ASSUME OneCpu PROVE Spec => []NoneUnreported
<1>1. Init => StopInv /\ UsageInv
  BY StopInit, UsageInit
<1>2. StopInv /\ UsageInv /\ [Next]_vars => StopInv' /\ UsageInv'
  BY StopNext, UsageNext
<1>3. UsageInv => NoneUnreported
  BY DEF UsageInv
<1>. QED
  BY <1>1, <1>2, <1>3, PTL DEF Spec

-----------------------------------------------------------------------------
\* Stop and resume undo each other

\* What a step does to the gate and to the saved actions: nothing, a stop, a
\* resume, a new action or another FAR.
Undisturbed ==
  /\ UNCHANGED <<world, gate>>
  /\ \A u \in Urr : /\ urr'[u].exhausted = urr[u].exhausted
                    /\ urr[u].exhausted => urr'[u].saved = urr[u].saved
OthersSame(u) == \A v \in Urr : v # u => urr'[v] = urr[v]
StopsNow(u) ==
  /\ UNCHANGED world
  /\ ~urr[u].exhausted /\ CanStop(urr[u])
  /\ urr'[u].exhausted /\ urr'[u].saved = SavedActions(u)
  /\ OthersSame(u)
  /\ action' = [f \in Far |-> IF f \in Fars(u) THEN "DROP" ELSE action[f]]
  /\ tangled' = tangled \cup Tangles(u)
ResumesNow(u) ==
  /\ UNCHANGED world
  /\ urr[u].exhausted /\ ~urr'[u].exhausted
  /\ OthersSame(u)
  /\ action' = Restored(u) /\ tangled' = tangled
SetsNow(f) == \E a \in Action[f] : SetAction(f, a)
LinksNow(p) == \E f \in Far \cup {None} : LinkFar(p, f)
GateStep ==
  \/ Undisturbed
  \/ \E u \in Urr : StopsNow(u) \/ ResumesNow(u)
  \/ \E f \in Far : SetsNow(f)
  \/ \E p \in Pdr : LinksNow(p)

\* A URR can stop only if a message has let it.
StopsKept == \A u \in Urr : CanStop(urr'[u]) => CanStop(urr[u]) \/ MayStop(u)

LEMMA StepOfStop ==
  ASSUME TypeOK, UNCHANGED world, NEW u \in Urr, NEW w \in UrrType, CanStop(urr[u]),
         w.exhausted = urr[u].exhausted, w.saved = urr[u].saved, w.trigger = urr[u].trigger,
         NEW ok \in BOOLEAN, QuotaExhaust(u, w, ok)
  PROVE  GateStep /\ StopsKept
<1>1. urr[u] \in UrrType
  BY DEF TypeOK
<1>2. Exhausted(u, w, ok)
  BY ExhaustIs
<1>3. StopsKept
  BY <1>2 DEF StopsKept, Exhausted, TypeOK
<1>4. CASE w.exhausted
  <2>1. urr' = [urr EXCEPT ![u] = w] /\ UNCHANGED gate
    BY <1>4 DEF QuotaExhaust
  <2>. QED
    BY <1>3, <2>1 DEF GateStep, Undisturbed, TypeOK
<1>5. CASE ~w.exhausted /\ ~ok
  <2>1. urr' = [urr EXCEPT ![u] = [w EXCEPT !.saved = NothingSaved]] /\ UNCHANGED gate
    BY <1>5 DEF QuotaExhaust
  <2>2. \A v \in Urr : /\ urr'[v].exhausted = urr[v].exhausted
                       /\ urr[v].exhausted => urr'[v].saved = urr[v].saved
    BY <1>5, <2>1 DEF TypeOK, UrrType
  <2>. QED
    BY <1>3, <2>1, <2>2 DEF GateStep, Undisturbed
<1>6. CASE ~w.exhausted /\ ok
  <2>1. /\ urr' = [urr EXCEPT ![u] =
                    [w EXCEPT !.exhausted = TRUE, !.inam = TRUE, !.saved = SavedActions(u),
                              !.mem = IF Related(u) = {} THEN w.mem ELSE "held"]]
        /\ action' = [f \in Far |-> IF f \in Fars(u) THEN "DROP" ELSE action[f]]
        /\ tangled' = tangled \cup Tangles(u)
    BY <1>6 DEF QuotaExhaust
  <2>2. urr'[u].exhausted /\ urr'[u].saved = SavedActions(u) /\ OthersSame(u)
    BY <2>1 DEF TypeOK, UrrType, OthersSame
  <2>3. StopsNow(u)
    BY <1>6, <2>1, <2>2 DEF StopsNow
  <2>. QED
    BY <1>3, <2>3 DEF GateStep
<1>. QED
  BY <1>4, <1>5, <1>6

\* A step that leaves stops, triggers and saved actions as they are.
LEMMA StepOfNone ==
  ASSUME UNCHANGED <<world, gate>>,
         \A u \in Urr : /\ urr'[u].exhausted = urr[u].exhausted /\ urr'[u].saved = urr[u].saved
                        /\ urr'[u].trigger = urr[u].trigger
  PROVE  GateStep /\ StopsKept
  BY DEF GateStep, Undisturbed, StopsKept, CanStop

LEMMA GatePacket ==
  ASSUME TypeOK, RxWhole, NEW c \in Cpu, PacketStep(c)
  PROVE  GateStep /\ StopsKept
<1>1. CASE urr' = urr /\ UNCHANGED <<world, gate>>
  BY <1>1, StepOfNone
<1>2. ASSUME NEW u \in Urr, StartOfService(c, u)
      PROVE  GateStep /\ StopsKept
  <2>1. UNCHANGED world /\ CanStop(urr[u]) /\ urr[u] \in UrrType
    BY <1>2 DEF StartOfService, StartHere, CanStop, TypeOK
  <2>2. PICK ok \in BOOLEAN : QuotaExhaust(u, urr[u], ok)
    BY <1>2, OutcomeIs DEF StartOfService
  <2>. QED
    BY <2>1, <2>2, StepOfStop
<1>3. ASSUME StoreCounters(c), ~(urr' = urr /\ UNCHANGED gate)
      PROVE  GateStep /\ StopsKept
  <2> DEFINE u == Head(rx[c].left)
             w == Counted(c, u)
  <2>1. rx[c].at = "store" /\ UNCHANGED world
    BY <1>3 DEF StoreCounters
  <2>2. u \in Urr
    <3>1. u \in Urr \cup {None}
      BY <2>1, RxIs, InSeq DEF RxWhole
    <3>. QED
      BY <1>3, <3>1 DEF StoreCounters
  <2>3. \/ OverQuota(w) /\ \E ok \in BOOLEAN : QuotaExhaust(u, w, ok)
        \/ urr' = [urr EXCEPT ![u] = w] /\ UNCHANGED gate
    BY <1>3, <2>2, OutcomeIs, Facts DEF StoreCounters
  <2>4. /\ w \in UrrType /\ w.exhausted = urr[u].exhausted /\ w.saved = urr[u].saved
        /\ w.trigger = urr[u].trigger
    BY <2>2, CountedIs
  <2>. HIDE DEF u, w
  <2>5. CASE OverQuota(w) /\ \E ok \in BOOLEAN : QuotaExhaust(u, w, ok)
    <3>1. CanStop(urr[u])
      BY <2>4, <2>5 DEF OverQuota, CanStop
    <3>. QED
      BY <2>1, <2>2, <2>4, <2>5, <3>1, StepOfStop
  <2>6. CASE urr' = [urr EXCEPT ![u] = w] /\ UNCHANGED gate
    <3>1. \A v \in Urr : /\ urr'[v].exhausted = urr[v].exhausted /\ urr'[v].saved = urr[v].saved
                         /\ urr'[v].trigger = urr[v].trigger
      BY <2>2, <2>4, <2>6 DEF TypeOK
    <3>. QED
      BY <2>1, <2>6, <3>1, StepOfNone
  <2>. QED
    BY <2>3, <2>5, <2>6
<1>4. ASSUME SendReports(c) \/ SendFails(c)
      PROVE  GateStep /\ StopsKept
  <2>1. /\ UNCHANGED <<world, gate>>
        /\ urr' = urr \/ \E sent \in BOOLEAN : Convert(Reports(c), sent)
    BY <1>4 DEF SendReports, SendFails
  <2>2. ASSUME NEW sent \in BOOLEAN, Convert(Reports(c), sent)
        PROVE  GateStep /\ StopsKept
    BY <2>1, <2>2, ConvertIs, StepOfNone DEF Taken
  <2>. QED
    BY <1>1, <2>1, <2>2
<1>5. StoreCounters(c) => UNCHANGED world
  BY DEF StoreCounters
<1>. QED
  BY <1>1, <1>2, <1>3, <1>4, <1>5
  DEF PacketStep, Forward, ForwardUncounted, Skip, NoTrigger, LoadCounters

LEMMA GateDone ==
  ASSUME TypeOK, NEW u \in Urr, AddUrrDone(u)
  PROVE  GateStep /\ StopsKept
<1>0. UNCHANGED world
  BY DoneIs
<1>1. ASSUME NEW ok \in BOOLEAN, DoneStops(u, ok)
      PROVE  GateStep /\ StopsKept
  <2>1. CanStop(urr[u]) /\ QuotaExhaust(u, Alive(u), ok)
    BY <1>1 DEF DoneStops, AsksStop, CanStop
  <2>. QED
    BY <1>0, <2>1, AliveIs, StepOfStop
<1>2. CASE DoneResumes(u)
  <2>2. urr[u].exhausted /\ ReverseQuotaExhaust(u)
    BY <1>2 DEF DoneResumes
  <2>3. \A v \in Urr : v # u => urr'[v] = urr[v]
    BY <2>2, ReverseIs DEF TypeOK
  <2>1. /\ urr[u].exhausted /\ ~urr'[u].exhausted /\ OthersSame(u)
        /\ action' = Restored(u) /\ tangled' = tangled /\ urr'[u].trigger = urr[u].trigger
    BY <2>2, <2>3, ReverseIs DEF OthersSame
  <2>. QED
    BY <1>0, <2>1 DEF GateStep, ResumesNow, StopsKept, OthersSame, CanStop
<1>3. CASE DoneKeeps(u)
  <2>1. \A v \in Urr : /\ urr'[v].exhausted = urr[v].exhausted /\ urr'[v].saved = urr[v].saved
                       /\ urr'[v].trigger = urr[v].trigger
    BY <1>3, AliveIs DEF DoneKeeps, TypeOK
  <2>. QED
    BY <1>0, <1>3, <2>1, StepOfNone DEF DoneKeeps
<1>. QED
  BY <1>1, <1>2, <1>3, DoneIs

LEMMA GateNetlink ==
  ASSUME Polite, TypeOK, Netlink
  PROVE  GateStep /\ StopsKept
<1>1. ASSUME NEW u \in Urr, NEW m \in Msg[u], AddUrr(u, m)
      PROVE  GateStep /\ StopsKept
  <2>1. urr' = [urr EXCEPT ![u] = Filled(urr[u], m)] /\ UNCHANGED <<world, gate>>
    BY <1>1 DEF AddUrr
  <2>2. /\ Filled(urr[u], m).exhausted = urr[u].exhausted /\ Filled(urr[u], m).saved = urr[u].saved
        /\ Filled(urr[u], m).trigger = m.trigger
    BY FilledIs DEF TypeOK
  <2>3. CanStop(Filled(urr[u], m)) => CanStop(urr[u]) \/ MayStop(u)
    BY <2>2 DEF CanStop, MayStop
  <2>4. \A v \in Urr : /\ urr'[v].exhausted = urr[v].exhausted /\ urr'[v].saved = urr[v].saved
                       /\ CanStop(urr'[v]) => CanStop(urr[v]) \/ MayStop(v)
    BY <2>1, <2>2, <2>3 DEF TypeOK
  <2>. QED
    BY <2>1, <2>4 DEF GateStep, Undisturbed, StopsKept
<1>2. ASSUME NEW us, NEW sent \in BOOLEAN, Convert(us, sent),
             UNCHANGED <<world, gate, rx, nl, told, passed, oops>>
      PROVE  GateStep /\ StopsKept
  BY <1>2, ConvertIs, StepOfNone DEF Taken
<1>3. ASSUME NEW u \in Urr, DelUrr(u)
      PROVE  GateStep /\ StopsKept
  <2>1. urr' = [urr EXCEPT ![u] = NoUrr] /\ UNCHANGED <<world, gate>> /\ ~urr[u].exhausted
    BY <1>3 DEF DelUrr, Quiet
  <2>2. urr'[u] = NoUrr /\ \A v \in Urr : v # u => urr'[v] = urr[v]
    BY <2>1 DEF TypeOK
  <2>3. NoUrr.exhausted = FALSE /\ ~CanStop(NoUrr) /\ urr[u].exhausted = FALSE
    BY <2>1 DEF NoUrr, CanStop, TypeOK, UrrType
  <2>. QED
    BY <2>1, <2>2, <2>3 DEF GateStep, Undisturbed, StopsKept
<1>4. ASSUME NEW f \in Far, NEW a \in Action[f], SetAction(f, a)
      PROVE  GateStep /\ StopsKept
  BY <1>4 DEF GateStep, SetsNow, StopsKept, SetAction
<1>5. ASSUME NEW p \in Pdr, NEW f \in Far \cup {None}, LinkFar(p, f)
      PROVE  GateStep /\ StopsKept
  BY <1>5 DEF GateStep, LinksNow, StopsKept, LinkFar
<1>. QED
  BY <1>1, <1>2, <1>3, <1>4, <1>5, NetlinkIs

LEMMA GateSteps ==
  ASSUME Polite, StopInv, [Next]_vars
  PROVE  GateStep /\ StopsKept
<1>1. CASE UNCHANGED <<urr, world, gate>>
  BY <1>1, StepOfNone
<1>2. CASE Next
  <2>1. ASSUME NEW c \in Cpu, PacketStep(c) PROVE GateStep /\ StopsKept
    BY <2>1, GatePacket DEF StopInv
  <2>2. ASSUME NEW u \in Urr, AddUrrDone(u) PROVE GateStep /\ StopsKept
    BY <2>2, GateDone DEF StopInv
  <2>3. CASE Netlink
    BY <2>3, GateNetlink DEF StopInv
  <2>4. CASE Faults
    BY <1>1, <2>4 DEF Faults
  <2>. QED
    BY <1>2, <2>1, <2>2, <2>3, <2>4, NextIs
<1>3. CASE UNCHANGED vars
  BY <1>1, <1>3 DEF vars
<1>. QED
  BY <1>2, <1>3

\* Who is stopped depends on the URRs and the FARs of the PDRs alone.
LEMMA StoppedSame ==
  ASSUME farOf' = farOf, \A u \in Urr : urr'[u].exhausted = urr[u].exhausted
  PROVE  /\ \A f : Stopped(f)' <=> Stopped(f)
         /\ \A u : Related(u)' = Related(u) /\ Fars(u)' = Fars(u)
  BY Facts DEF Stopped, Related, Fars

\* An undisturbed gate has the same stopped FARs.
LEMMA UndisturbedIs ==
  ASSUME Undisturbed
  PROVE  /\ farOf' = farOf /\ normal' = normal /\ action' = action /\ tangled' = tangled
         /\ \A f : Stopped(f)' <=> Stopped(f)
         /\ \A u : Related(u)' = Related(u) /\ Fars(u)' = Fars(u)
<1>1. farOf' = farOf /\ normal' = normal /\ action' = action /\ tangled' = tangled
  BY DEF Undisturbed, world, gate
<1>2. \A u \in Urr : urr'[u].exhausted = urr[u].exhausted
  BY Zenon DEF Undisturbed
<1>. QED
  BY <1>1, <1>2, StoppedSame

\* Stopped by others than URR u.
LEMMA StopsApart ==
  ASSUME NEW u \in Urr, OthersSame(u), farOf' = farOf, NEW f \in Far, f \notin Fars(u)
  PROVE  Stopped(f)' <=> Stopped(f)
<1>1. \A p \in Pdr : farOf[p] = f => u \notin UrrsOn(p)
  BY Facts DEF Fars, Related
<1>2. \A p \in Pdr : \A v \in UrrsOn(p) : farOf[p] = f => urr'[v] = urr[v]
  BY <1>1, Facts DEF OthersSame
<1>. QED
  BY <1>2 DEF Stopped

\* A FAR is stopped by the URRs whose walk comes to it.
LEMMA StoppedBy ==
  ASSUME NEW f \in Far
  PROVE  Stopped(f) <=> \E u \in Urr : urr[u].exhausted /\ f \in Fars(u)
  BY Facts DEF Stopped, Fars, Related

LEMMA GateStop ==
  ASSUME TypeOK, GateInv, NEW u \in Urr, StopsNow(u)
  PROVE  GateInv'
<1>0. /\ farOf' = farOf /\ normal' = normal /\ tangled' = tangled \cup Tangles(u)
      /\ \A v : Related(v)' = Related(v) /\ Fars(v)' = Fars(v)
      /\ Fars(u) \subseteq Far
  BY DEF StopsNow, world, Related, Fars, TypeOK
\* What was saved of a FAR that is not tangled is what the control plane set.
<1>1. ASSUME NEW p \in Related(u), farOf[p] \notin tangled'
      PROVE  \A a \in ToSet(SavedActions(u)[p]) : a = normal[farOf[p]]
  <2>1. farOf[p] \in Fars(u) /\ farOf[p] \notin Tangles(u)
    BY <1>0, <1>1 DEF Fars
  <2>. QED
    BY <2>1 DEF Tangles
<1>2. ASSUME NEW f \in Far, f \notin tangled'
      PROVE  action'[f] = IF Stopped(f)' THEN "DROP" ELSE normal[f]
  <2>1. CASE f \in Fars(u)
    <3>1. Stopped(f)'
      BY <1>0, <2>1 DEF Stopped, Fars, Related, StopsNow
    <3>. QED
      BY <2>1, <3>1 DEF StopsNow
  <2>2. CASE f \notin Fars(u)
    <3>1. Stopped(f)' <=> Stopped(f)
      BY <1>0, <2>2, StopsApart DEF StopsNow
    <3>. QED
      BY <1>0, <1>2, <2>2, <3>1 DEF GateInv, FarsDo, StopsNow
  <2>. QED
    BY <2>1, <2>2
<1>3. ASSUME NEW v \in Urr, NEW p \in Pdr, urr'[v].exhausted
      PROVE  IF p \in Related(v)
             THEN /\ urr'[v].saved[p] # <<>>
                  /\ farOf[p] \notin tangled' => Last(urr'[v].saved[p]) = normal[farOf[p]]
             ELSE urr'[v].saved[p] = <<>>
  <2>1. CASE v # u
    <3>1. urr'[v] = urr[v]
      BY <2>1 DEF StopsNow, OthersSame
    <3>. QED
      BY <1>0, <1>3, <3>1 DEF GateInv, SavedLast
  <2>2. CASE v = u
    <3>1. urr'[v].saved[p] = SavedActions(u)[p]
      BY <2>2 DEF StopsNow
    <3>2. CASE p \in Related(u)
      <4>1. SavedActions(u)[p] # <<>> /\ Last(SavedActions(u)[p]) \in ToSet(SavedActions(u)[p])
        BY <3>2, SavedIs
      <4>. QED
        BY <1>1, <2>2, <3>1, <3>2, <4>1
    <3>3. CASE p \notin Related(u)
      BY <2>2, <3>1, <3>3, SavedIs
    <3>. QED
      BY <3>2, <3>3
  <2>. QED
    BY <2>1, <2>2
<1>4. ASSUME NEW f \in Far, f \notin tangled', normal[f] # "DROP", f \in Fars(u)
      PROVE  ~Stopped(f)
  <2>1. PICK p \in Related(u) : farOf[p] = f
    BY <1>4 DEF Fars
  <2>2. /\ SavedActions(u)[p][1] \in ToSet(SavedActions(u)[p])
        /\ SavedActions(u)[p][1] \in {action[f], "DROP"}
    BY <2>1, SavedIs
  <2>3. action[f] = normal[f]
    BY <1>1, <1>4, <2>1, <2>2
  <2>4. f \notin tangled
    BY <1>0, <1>4
  <2>. QED
    BY <1>4, <2>3, <2>4 DEF GateInv, FarsDo
<1>5. ASSUME NEW f \in Far, f \notin tangled', normal[f] # "DROP", NEW v \in Urr, NEW w \in Urr,
             urr'[v].exhausted, urr'[w].exhausted, f \in Fars(v), f \in Fars(w)
      PROVE  v = w
  <2>1. f \notin tangled
    BY <1>0, <1>5
  <2>2. \A x \in Urr : x # u /\ urr'[x].exhausted => urr[x].exhausted
    BY DEF StopsNow, OthersSame
  <2>3. CASE v # u /\ w # u
    BY <1>5, <2>1, <2>2, <2>3 DEF GateInv, StoppedOnce
  <2>4. CASE v = u \/ w = u
    BY <1>4, <1>5, <2>2, <2>4, StoppedBy
  <2>. QED
    BY <2>3, <2>4
<1>6. FarsDo'
  BY <1>0, <1>2 DEF FarsDo
<1>7. SavedLast'
  BY <1>0, <1>3 DEF SavedLast
<1>8. StoppedOnce'
  BY <1>0, <1>5 DEF StoppedOnce
<1>. QED
  BY <1>6, <1>7, <1>8 DEF GateInv

LEMMA RestoredIs ==
  ASSUME TypeOK, SavedLast, NEW u \in Urr, urr[u].exhausted, NEW f \in Far
  PROVE  /\ f \in Fars(u) /\ f \notin tangled => Restored(u)[f] = normal[f]
         /\ f \notin Fars(u) => Restored(u)[f] = action[f]
<1> DEFINE Hits(g) == {p \in Related(u) : farOf[p] = g /\ urr[u].saved[p] # <<>>}
           LastHit(g) == CHOOSE p \in Hits(g) : \A q \in Hits(g) : ~Before(p, q)
<1>1. Restored(u)[f] = IF Hits(f) = {} THEN action[f] ELSE Last(urr[u].saved[LastHit(f)])
  BY DEF Restored
<1>2. ASSUME f \in Fars(u), f \notin tangled
      PROVE  Restored(u)[f] = normal[f]
  <2>1. PICK p \in Related(u) : farOf[p] = f
    BY <1>2 DEF Fars
  <2>2. p \in Hits(f)
    BY <2>1 DEF SavedLast, Related
  <2>3. Hits(f) \in SUBSET Pdr /\ Hits(f) # {}
    BY <2>2 DEF Related
  <2>4. \E q \in Hits(f) : \A r \in Hits(f) : ~Before(q, r)
    BY <2>3, LastHitExists
  <2>5. LastHit(f) \in Hits(f)
    BY <2>4
  <2>. HIDE DEF LastHit
  <2>6. LastHit(f) \in Related(u) /\ LastHit(f) \in Pdr /\ farOf[LastHit(f)] = f
    BY <2>3, <2>5
  <2>7. Last(urr[u].saved[LastHit(f)]) = normal[f]
    BY <1>2, <2>6 DEF SavedLast
  <2>. QED
    BY <1>1, <2>3, <2>7
<1>3. f \notin Fars(u) => Hits(f) = {}
  BY DEF Fars
<1>. QED
  BY <1>1, <1>2, <1>3

LEMMA GateResume ==
  ASSUME TypeOK, GateInv, NEW u \in Urr, ResumesNow(u)
  PROVE  GateInv'
<1>0. /\ farOf' = farOf /\ normal' = normal /\ tangled' = tangled
      /\ \A v : Related(v)' = Related(v) /\ Fars(v)' = Fars(v)
      /\ \A v \in Urr : urr'[v].exhausted => v # u /\ urr[v].exhausted /\ urr'[v] = urr[v]
  BY DEF ResumesNow, OthersSame, world, Related, Fars
<1>1. ASSUME NEW f \in Far, f \notin tangled
      PROVE  action'[f] = IF Stopped(f)' THEN "DROP" ELSE normal[f]
  <2>1. CASE f \in Fars(u)
    <3>1. action'[f] = normal[f]
      BY <1>1, <2>1, RestoredIs DEF GateInv, ResumesNow
    <3>2. ASSUME normal[f] # "DROP"
          PROVE  ~Stopped(f)'
      <4>1. ~ \E v \in Urr : urr'[v].exhausted /\ f \in Fars(v)
        BY <1>0, <1>1, <2>1, <3>2 DEF GateInv, StoppedOnce, ResumesNow
      <4>. QED
        BY <1>0, <4>1, Facts DEF Stopped, Fars, Related
    <3>. QED
      BY <3>1, <3>2
  <2>2. CASE f \notin Fars(u)
    <3>1. Stopped(f)' <=> Stopped(f)
      BY <1>0, <2>2, StopsApart DEF ResumesNow
    <3>2. action'[f] = action[f]
      BY <2>2, RestoredIs DEF GateInv, ResumesNow
    <3>. QED
      BY <1>1, <3>1, <3>2 DEF GateInv, FarsDo
  <2>. QED
    BY <2>1, <2>2
<1>2. FarsDo'
  BY <1>0, <1>1 DEF FarsDo
<1>3. SavedLast'
  BY <1>0 DEF GateInv, SavedLast
<1>4. StoppedOnce'
  BY <1>0 DEF GateInv, StoppedOnce
<1>. QED
  BY <1>2, <1>3, <1>4 DEF GateInv

\* The FAR that gets a new action has no stopped URR.
LEMMA SetIs ==
  ASSUME Polite, TypeOK, NEW f \in Far, SetsNow(f)
  PROVE  /\ ~Stopped(f) /\ farOf' = farOf /\ urr' = urr
         /\ tangled' = tangled \ {f}
         /\ action'[f] = normal'[f]
         /\ \A g \in Far : g # f => action'[g] = action[g] /\ normal'[g] = normal[g]
<1>1. PICK a \in Action[f] : SetAction(f, a)
  BY DEF SetsNow
<1>2. \A u \in FarUrrs(f) : ~urr[u].exhausted
  BY <1>1 DEF SetAction, Quiet
<1>3. ~Stopped(f)
  BY <1>2 DEF Stopped, FarUrrs
<1>. QED
  BY <1>1, <1>3 DEF SetAction, TypeOK

LEMMA GateSet ==
  ASSUME Polite, TypeOK, GateInv, NEW f \in Far, SetsNow(f)
  PROVE  GateInv'
<1>0. /\ \A g : Stopped(g)' <=> Stopped(g)
      /\ \A u : Related(u)' = Related(u) /\ Fars(u)' = Fars(u)
  BY SetIs, StoppedSame
<1>1. FarsDo'
  BY <1>0, SetIs DEF GateInv, FarsDo
<1>2. SavedLast'
  <2>1. ASSUME NEW u \in Urr, NEW p \in Related(u), urr[u].exhausted
        PROVE  farOf[p] # f /\ farOf[p] \in Far
    BY <2>1, SetIs DEF Related, Stopped, TypeOK
  <2>2. \A u \in Urr : \A p \in Related(u) :
          urr[u].exhausted => normal'[farOf[p]] = normal[farOf[p]]
                              /\ (farOf[p] \notin tangled' => farOf[p] \notin tangled)
    BY <2>1, SetIs
  <2>. QED
    BY <1>0, <2>2, SetIs DEF GateInv, SavedLast
<1>3. StoppedOnce'
  <2>1. \A u \in Urr : urr[u].exhausted => f \notin Fars(u)
    BY SetIs, StoppedBy
  <2>. QED
    BY <1>0, <2>1, SetIs DEF GateInv, StoppedOnce
<1>. QED
  BY <1>1, <1>2, <1>3 DEF GateInv

\* Neither the old FAR of the PDR nor the new one has a URR of the PDR stopped.
LEMMA LinkIs ==
  ASSUME Polite, TypeOK, NEW p \in Pdr, LinksNow(p)
  PROVE  /\ urr' = urr /\ normal' = normal /\ UNCHANGED gate /\ farOf' \in Links
         /\ \A g : Stopped(g)' <=> Stopped(g)
         /\ \A u \in Urr : urr[u].exhausted =>
              /\ Related(u)' = Related(u) /\ Fars(u)' = Fars(u)
              /\ \A q \in Related(u) : farOf'[q] = farOf[q]
<1>1. PICK f \in Far \cup {None} : LinkFar(p, f)
  BY DEF LinksNow
<1>2. /\ farOf' = [farOf EXCEPT ![p] = f] /\ farOf' \in Links
      /\ urr' = urr /\ normal' = normal /\ UNCHANGED gate
      /\ \A u \in UrrsOn(p) : ~urr[u].exhausted
  BY <1>1 DEF LinkFar, Quiet
<1>3. \A q \in Pdr : farOf'[q] = IF q = p THEN f ELSE farOf[q]
  BY <1>2 DEF TypeOK
<1>4. \A g : Stopped(g)' => Stopped(g)
  BY <1>2, <1>3 DEF Stopped
<1>5. \A g : Stopped(g) => Stopped(g)'
  BY <1>2, <1>3 DEF Stopped
<1>6. ASSUME NEW u \in Urr, urr[u].exhausted
      PROVE  /\ Related(u)' = Related(u) /\ Fars(u)' = Fars(u)
             /\ \A q \in Related(u) : farOf'[q] = farOf[q]
  <2>1. \A q \in Pdr : u \in UrrsOn(q) => farOf'[q] = farOf[q]
    BY <1>2, <1>3, <1>6
  <2>2. Related(u)' = Related(u) /\ \A q \in Related(u) : farOf'[q] = farOf[q]
    BY <2>1 DEF Related
  <2>. QED
    BY <2>2 DEF Fars
<1>. QED
  BY <1>2, <1>4, <1>5, <1>6

LEMMA GateNext ==
  ASSUME Polite, StopInv, GateInv, [Next]_vars
  PROVE  GateInv'
<1>0. TypeOK /\ GateStep
  BY GateSteps DEF StopInv
<1>1. CASE Undisturbed
  <2>1. FarsDo'
    BY <1>1, UndisturbedIs DEF GateInv, FarsDo
  <2>2. \A u \in Urr : urr'[u].exhausted =>
                         urr[u].exhausted /\ urr'[u].saved = urr[u].saved
    BY <1>1, Zenon DEF Undisturbed
  <2>4. SavedLast'
    BY <1>1, <2>2, UndisturbedIs DEF GateInv, SavedLast
  <2>5. StoppedOnce'
    BY <1>1, <2>2, UndisturbedIs DEF GateInv, StoppedOnce
  <2>. QED
    BY <2>1, <2>4, <2>5 DEF GateInv
<1>2. ASSUME NEW p \in Pdr, LinksNow(p)
      PROVE  GateInv'
  <2>1. FarsDo'
    BY <1>0, <1>2, LinkIs DEF GateInv, FarsDo, gate
  <2>2. SavedLast'
    <3>1. ASSUME NEW u \in Urr, NEW q \in Pdr, urr[u].exhausted
          PROVE  IF q \in Related(u)'
                 THEN /\ urr[u].saved[q] # <<>>
                      /\ farOf'[q] \notin tangled => Last(urr[u].saved[q]) = normal[farOf'[q]]
                 ELSE urr[u].saved[q] = <<>>
      <4>1. Related(u)' = Related(u) /\ \A r \in Related(u) : farOf'[r] = farOf[r]
        BY <1>0, <1>2, <3>1, LinkIs
      <4>. QED
        BY <3>1, <4>1 DEF GateInv, SavedLast
    <3>. QED
      BY <1>0, <1>2, <3>1, LinkIs DEF SavedLast, gate
  <2>3. StoppedOnce'
    BY <1>0, <1>2, LinkIs DEF GateInv, StoppedOnce, gate
  <2>. QED
    BY <2>1, <2>2, <2>3 DEF GateInv
<1>. QED
  BY <1>0, <1>1, <1>2, GateStop, GateResume, GateSet DEF GateStep

LEMMA GateInit == Init => GateInv
<1> SUFFICES ASSUME Init PROVE GateInv
  OBVIOUS
<1>1. \A u \in Urr : ~urr[u].exhausted
  BY DEF Init, NoUrr
<1>2. \A f : ~Stopped(f)
  BY <1>1, Facts DEF Stopped
<1>. QED
  BY <1>1, <1>2 DEF Init, GateInv, FarsDo, SavedLast, StoppedOnce

\* While the control plane leaves stopped URRs alone, a FAR drops exactly while a
\* URR of one of its PDRs is stopped and otherwise does what the control plane
\* said last, until a stop finds it at another action than that: whatever PDRs
\* share a FAR, whatever URRs can stop and wherever their nodes are.
THEOREM GateIsExact == ASSUME Polite PROVE Spec => []GateExact
<1>1. Init => StopInv /\ GateInv
  BY StopInit, GateInit
<1>2. StopInv /\ GateInv /\ [Next]_vars => StopInv' /\ GateInv'
  BY StopNext, GateNext
<1>3. GateInv => GateExact
  <2>1. SUFFICES ASSUME GateInv, NEW f \in Far \ tangled
                 PROVE  action[f] = IF \E u \in FarUrrs(f) : urr[u].exhausted
                                    THEN "DROP" ELSE normal[f]
    BY DEF GateExact
  <2>2. Stopped(f) <=> \E u \in FarUrrs(f) : urr[u].exhausted
    BY DEF Stopped, FarUrrs
  <2>. QED
    BY <2>1, <2>2 DEF GateInv, FarsDo
<1>. QED
  BY <1>1, <1>2, <1>3, PTL DEF Spec

-----------------------------------------------------------------------------
\* Nothing passes a stopped URR

LEMMA Unshared ==
  ASSUME Apart, farOf \in Links, NEW p \in Pdr, NEW q \in Pdr, farOf[p] = farOf[q], farOf[p] # None
  PROVE  p = q
  BY DEF Apart

LEMMA ShutNext ==
  ASSUME QuotaConditions, StopInv, GateInv, ShutInv, [Next]_vars
  PROVE  ShutInv'
<1>0. TypeOK /\ GateStep /\ StopsKept /\ Polite
  BY GateSteps DEF StopInv, QuotaConditions
<1>1. StopsAllowed'
  BY <1>0 DEF ShutInv, StopsAllowed, StopsKept
<1>2. CASE Undisturbed
  BY <1>1, <1>2, UndisturbedIs DEF ShutInv, Shut
<1>3. ASSUME NEW u \in Urr, StopsNow(u)
      PROVE  ShutInv'
  <2>1. farOf' = farOf
    BY <1>3 DEF StopsNow, world
  <2>2. ASSUME NEW f \in Far, Stopped(f)', f \notin Fars(u)
        PROVE  action'[f] = "DROP"
    <3>1. Stopped(f)
      BY <1>3, <2>1, <2>2, StopsApart DEF StopsNow
    <3>. QED
      BY <1>3, <2>2, <3>1 DEF ShutInv, Shut, StopsNow
  <2>3. \A f \in Far : f \in Fars(u) => action'[f] = "DROP"
    BY <1>3 DEF StopsNow
  <2>. QED
    BY <1>1, <2>1, <2>2, <2>3 DEF ShutInv, Shut
<1>4. ASSUME NEW u \in Urr, ResumesNow(u)
      PROVE  ShutInv'
  <2>1. farOf' = farOf /\ MayStop(u)
    BY <1>4 DEF ResumesNow, world, ShutInv, StopsAllowed, CanStop
  <2>2. ASSUME NEW f \in Far, Stopped(f)'
        PROVE  f \notin Fars(u)
    <3>1. SUFFICES ASSUME f \in Fars(u) PROVE FALSE
      OBVIOUS
    <3>2. PICK p \in Pdr : u \in UrrsOn(p) /\ farOf[p] = f /\ f # None
      BY <3>1 DEF Fars, Related
    <3>3. PICK q \in Pdr : \E v \in UrrsOn(q) : farOf[q] = f /\ urr'[v].exhausted
      BY <2>1, <2>2 DEF Stopped
    <3>7. PICK v \in UrrsOn(q) : farOf[q] = f /\ urr'[v].exhausted
      BY <3>3
    <3>4. v \in Urr /\ v # u /\ urr[v].exhausted
      BY <1>4, <3>7, Facts DEF ResumesNow, OthersSame
    <3>5. q = p
      BY <3>2, <3>7, Unshared DEF QuotaConditions, ShutInv
    <3>6. MayStop(v)
      BY <3>4 DEF ShutInv, StopsAllowed, CanStop
    <3>. QED
      BY <2>1, <3>2, <3>4, <3>5, <3>6, <3>7 DEF QuotaConditions, OneStops
  <2>3. ASSUME NEW f \in Far, Stopped(f)'
        PROVE  action'[f] = "DROP"
    <3>1. f \notin Fars(u)
      BY <2>2, <2>3
    <3>2. Stopped(f)
      BY <1>4, <2>1, <2>3, <3>1, StopsApart DEF ResumesNow
    <3>3. action'[f] = action[f]
      BY <1>0, <1>4, <3>1, RestoredIs DEF GateInv, ResumesNow
    <3>. QED
      BY <3>2, <3>3 DEF ShutInv, Shut
  <2>. QED
    BY <1>1, <2>1, <2>3 DEF ShutInv, Shut
<1>5. ASSUME NEW f \in Far, SetsNow(f)
      PROVE  ShutInv'
  <2>1. \A g : Stopped(g)' <=> Stopped(g)
    BY <1>0, <1>5, SetIs, StoppedSame
  <2>2. Shut'
    BY <1>0, <1>5, <2>1, SetIs DEF ShutInv, Shut
  <2>3. farOf' \in Links
    BY <1>0, <1>5, SetIs DEF ShutInv
  <2>. QED
    BY <1>1, <2>2, <2>3 DEF ShutInv
<1>6. ASSUME NEW p \in Pdr, LinksNow(p)
      PROVE  ShutInv'
  BY <1>0, <1>1, <1>6, LinkIs DEF ShutInv, Shut, gate
<1>. QED
  BY <1>0, <1>2, <1>3, <1>4, <1>5, <1>6 DEF GateStep

LEMMA ShutInit == Init => ShutInv
<1> SUFFICES ASSUME Init PROVE ShutInv
  OBVIOUS
<1>1. \A u \in Urr : ~urr[u].exhausted /\ ~CanStop(urr[u])
  BY DEF Init, NoUrr, CanStop
<1>2. \A f : ~Stopped(f)
  BY <1>1, Facts DEF Stopped
<1>. QED
  BY <1>1, <1>2 DEF Init, ShutInv, StopsAllowed, Shut

-----------------------------------------------------------------------------
\* A quota is overrun by less than a packet

LEMMA QuotaTypes ==
  ASSUME TypeOK, NEW u \in Urr
  PROVE  /\ urr[u].quota \in Nat /\ urr[u].consumed \in Nat /\ passed[u] \in Nat \cup {None}
         /\ Pending(u) \subseteq Nat /\ 0 \in Pending(u)
         /\ Max(Lengths) \in Nat \ {0} /\ \A n \in Pending(u) : n <= Max(Lengths)
<1>1. urr[u].quota \in Nat /\ urr[u].consumed \in Nat /\ passed[u] \in Nat \cup {None}
  BY DEF TypeOK, UrrType
<1>2. Max(Lengths) \in Nat \ {0}
  BY Longest, Facts, UrrAssumption
<1>3. ASSUME NEW c \in Cpu
      PROVE  rx[c].len \in Nat /\ rx[c].len <= Max(Lengths)
  <2>1. rx[c].len \in Lengths \cup {0} /\ rx[c].len \in Nat
    BY RxIs DEF RxType
  <2>2. \A n \in Lengths : n <= Max(Lengths)
    BY Longest
  <2>3. 0 <= Max(Lengths)
    BY <1>2
  <2>. QED
    BY <2>1, <2>2, <2>3
<1>4. Pending(u) \subseteq Nat /\ 0 \in Pending(u) /\ \A n \in Pending(u) : n <= Max(Lengths)
  BY <1>2, <1>3 DEF Pending
<1>. QED
  BY <1>1, <1>2, <1>4

\* Within its quota, but for the packet under way, a URR is not overrun.
LEMMA WithinIs ==
  ASSUME TypeOK, NEW u \in Urr, Counting(u), NEW n \in Pending(u), Within(u, n)
  PROVE  ~Overrun(u)
<1>1. /\ urr[u].quota \in Nat \ {0} /\ urr[u].consumed \in Nat /\ passed[u] \in Nat
      /\ n \in Nat /\ Max(Lengths) \in Nat /\ n <= Max(Lengths)
  BY QuotaTypes DEF Counting
<1>2. /\ passed[u] <= urr[u].consumed + n
      /\ passed[u] <= n \/ urr[u].consumed < urr[u].quota
  BY DEF Within
<1>3. \A p, q, k, m, d \in Nat : q # 0 /\ m <= k /\ p <= d + m /\ (p <= m \/ d < q) => ~(p >= q + k)
  OBVIOUS
<1>4. ~(passed[u] >= urr[u].quota + Max(Lengths))
  BY <1>1, <1>2, <1>3
<1>. QED
  BY <1>4 DEF Overrun

\* Nothing happens to the URR but that it may become live, or unmetered.
LEMMA AccountStays ==
  ASSUME TypeOK, NEW u \in Urr, Accounted(u),
         urr'[u].trigger = urr[u].trigger, urr'[u].quota = urr[u].quota,
         urr'[u].consumed = urr[u].consumed, urr'[u].exhausted = urr[u].exhausted,
         urr'[u].inam = urr[u].inam,
         passed'[u] \in {passed[u], None},
         Pending(u) \subseteq Pending(u)',
         \A c \in Cpu : rx'[c].at = "store" /\ Head(rx'[c].left) = u =>
           /\ rx[c].at = "store" /\ Head(rx[c].left) = u
           /\ rx'[c].consumed = rx[c].consumed /\ rx'[c].len = rx[c].len
  PROVE  Accounted(u)'
<1>1. SUFFICES ASSUME Counting(u)' PROVE StoppedInTime(u)' /\ Consuming(u)' /\ StoreCounts(u)'
  BY DEF Accounted
<1>2. Counting(u) /\ passed'[u] = passed[u]
  BY <1>1 DEF Counting
<1>3. StoppedInTime(u) /\ Consuming(u) /\ StoreCounts(u)
  BY <1>2 DEF Accounted
<1>4. Overrun(u)' <=> Overrun(u)
  BY <1>2 DEF Overrun
<1>5. StoppedInTime(u)'
  BY <1>2, <1>3, <1>4 DEF StoppedInTime
<1>6. Consuming(u)'
  <2>1. \A n : Within(u, n) => Within(u, n)'
    BY <1>2 DEF Within
  <2>. QED
    BY <1>3, <2>1 DEF Consuming
<1>7. StoreCounts(u)'
  BY <1>2, <1>3, <1>4 DEF StoreCounts
<1>. QED
  BY <1>5, <1>6, <1>7

\* Nothing has passed since the last grant, or there is no quota to pass on.
LEMMA AccountFresh ==
  ASSUME TypeOK', NEW u \in Urr, Counting(u)' => passed'[u] = 0
  PROVE  Accounted(u)'
<1>1. SUFFICES ASSUME Counting(u)', passed'[u] = 0
               PROVE StoppedInTime(u)' /\ Consuming(u)' /\ StoreCounts(u)'
  BY DEF Accounted
<1>2. urr'[u].quota \in Nat \ {0} /\ urr'[u].consumed \in Nat
  BY <1>1 DEF TypeOK, UrrType, Counting
<1>3. Max(Lengths) \in Nat
  BY Longest, Facts, UrrAssumption
<1>4. ~Overrun(u)'
  <2>1. ~(0 >= urr'[u].quota + Max(Lengths))
    BY <1>2, <1>3
  <2>. QED
    BY <1>1, <2>1 DEF Overrun
<1>5. StoppedInTime(u)'
  BY <1>1, <1>4 DEF StoppedInTime
<1>6. Consuming(u)'
  <2>1. Within(u, 0)'
    BY <1>1, <1>2 DEF Within
  <2>2. 0 \in Pending(u)'
    BY DEF Pending
  <2>. QED
    BY <2>1, <2>2 DEF Consuming
<1>7. StoreCounts(u)'
  <2>1. ASSUME NEW c \in Cpu
        PROVE  0 <= rx'[c].consumed + rx'[c].len
    <3>1. rx'[c] \in RxType
      BY DEF TypeOK
    <3>2. rx'[c].consumed \in Nat /\ rx'[c].len \in Lengths \cup {0}
      BY <3>1 DEF RxType
    <3>3. \A n \in Lengths : n \in Nat
      BY Facts
    <3>4. rx'[c].len \in Nat
      BY <3>2, <3>3
    <3>. QED
      BY <3>2, <3>4
  <2>. QED
    BY <1>1, <1>4, <2>1 DEF StoreCounts
<1>. QED
  BY <1>5, <1>6, <1>7

LEMMA MetersStay ==
  ASSUME MetersAllowed, nl' \in {nl, NoFill},
         \A u \in Urr : urr'[u].trigger = urr[u].trigger /\ urr'[u].quota = urr[u].quota,
         \A u \in Urr : urr'[u].live \/ nl'.urr = u => urr[u].live \/ nl.urr = u
  PROVE  MetersAllowed'
<1>1. nl'.quota = "zero" => nl' = nl
  BY DEF NoFill
<1>. QED
  BY <1>1 DEF MetersAllowed

\* What is left of a packet's URRs is ordered as they were.
LEMMA OrderIs ==
  ASSUME NEW s \in Seq(Urr \cup {None}), s # <<>>, MeteredFirst(s)
  PROVE  /\ MeteredFirst(Tail(s))
         /\ \A u \in ToSet(s) : Head(s) # None /\ MayLackTrigger(Head(s)) /\ u # None /\ MayMeter(u)
              => u = Head(s)
         /\ \A t \in Seq(Urr \cup {None}) :
              t # <<>> /\ Tail(t) = Tail(s) /\ Head(t) \in {None, Head(s)} => MeteredFirst(t)
<1>1. /\ Len(s) \in Nat \ {0} /\ DOMAIN s = 1..Len(s) /\ Head(s) = s[1]
      /\ Tail(s) \in Seq(Urr \cup {None}) /\ Len(Tail(s)) = Len(s) - 1
      /\ \A i \in 1..Len(Tail(s)) : Tail(s)[i] = s[i + 1]
  BY HeadTailProperties, EmptySeq, LenProperties
<1>2. DOMAIN Tail(s) = 1..(Len(s) - 1)
  BY <1>1, LenProperties
<1>3. MeteredFirst(Tail(s))
  <2>1. ASSUME NEW i \in 1..(Len(s) - 1), NEW j \in 1..(Len(s) - 1), i < j
        PROVE  /\ i + 1 \in 1..Len(s) /\ j + 1 \in 1..Len(s) /\ i + 1 < j + 1
               /\ Tail(s)[i] = s[i + 1] /\ Tail(s)[j] = s[j + 1]
    BY <1>1, <2>1
  <2>. QED
    BY <1>1, <1>2, <2>1 DEF MeteredFirst
<1>4. ASSUME NEW u \in ToSet(s), Head(s) # None, MayLackTrigger(Head(s)), u # None, MayMeter(u)
      PROVE  u = Head(s)
  <2>1. PICK j \in 1..Len(s) : u = s[j]
    BY <1>1, <1>4 DEF ToSet
  <2>2. CASE j = 1
    BY <1>1, <2>1, <2>2
  <2>3. CASE j # 1
    <3>1. 1 \in 1..Len(s) /\ 1 < j
      BY <1>1, <2>1, <2>3
    <3>. QED
      BY <1>1, <1>4, <2>1, <3>1 DEF MeteredFirst
  <2>. QED
    BY <2>2, <2>3
<1>5. ASSUME NEW t \in Seq(Urr \cup {None}), t # <<>>, Tail(t) = Tail(s), Head(t) \in {None, Head(s)}
      PROVE  MeteredFirst(t)
  <2>1. /\ Len(t) \in Nat \ {0} /\ DOMAIN t = 1..Len(t) /\ Head(t) = t[1]
        /\ Len(Tail(t)) = Len(t) - 1
        /\ \A i \in 1..Len(Tail(t)) : Tail(t)[i] = t[i + 1]
    BY <1>5, HeadTailProperties, EmptySeq, LenProperties
  <2>2. Len(t) = Len(s)
    <3>1. Len(Tail(t)) = Len(Tail(s))
      BY <1>5
    <3>2. \A m, n \in Nat \ {0} : m - 1 = n - 1 => m = n
      OBVIOUS
    <3>. QED
      BY <1>1, <2>1, <3>1, <3>2
  <2>3. ASSUME NEW i \in 1..Len(t), i # 1
        PROVE  t[i] = s[i]
    <3>1. i - 1 \in 1..(Len(s) - 1) /\ (i - 1) + 1 = i
      BY <1>1, <2>1, <2>2, <2>3
    <3>. QED
      BY <1>1, <1>5, <2>1, <2>2, <3>1
  <2>4. \A i \in 1..Len(t) : t[i] \in {None, s[i]}
    BY <1>1, <1>5, <2>1, <2>3
  <2>. QED
    BY <1>1, <2>1, <2>2, <2>4 DEF MeteredFirst
<1>. QED
  BY <1>3, <1>4, <1>5

LEMMA PendingIs ==
  ASSUME OneCpu, TypeOK, RxWhole, NEW c \in Cpu, rx[c].at \in {"next", "store"},
         \A d \in Cpu : MeteredFirst(rx[d].left),
         NEW out \in Seq(Report), Len(out) <= Len(UrrsOf[rx[c].pdr]), Advance(c, out)
  PROVE  /\ \A v \in Urr : v # Head(rx[c].left) => Pending(v) \subseteq Pending(v)'
         /\ \A d \in Cpu : rx'[d].at # "store" /\ MeteredFirst(rx'[d].left)
<1>1. /\ rx'[c].left = Tail(rx[c].left) /\ rx'[c].at # "store"
      /\ rx'[c].left # <<>> => rx'[c].len = rx[c].len
  BY AdvanceIs
<1>2. rx[c].left \in Seq(Urr \cup {None}) /\ rx[c].left # <<>> /\ \A d \in Cpu : d = c
  BY RxIs DEF RxWhole, OneCpu
<1>3. MeteredFirst(rx'[c].left)
  BY <1>1, <1>2, OrderIs
<1>4. ASSUME NEW v \in Urr, v # Head(rx[c].left), v \in ToSet(rx[c].left)
      PROVE  v \in ToSet(rx'[c].left) /\ rx'[c].len = rx[c].len
  <2>1. v \in ToSet(Tail(rx[c].left))
    BY <1>2, <1>4, InSeq
  <2>2. Tail(rx[c].left) # <<>>
    BY <2>1 DEF ToSet
  <2>. QED
    BY <1>1, <2>1, <2>2
<1>5. ASSUME NEW v \in Urr, v # Head(rx[c].left)
      PROVE  Pending(v) \subseteq Pending(v)'
  <2>1. \A d \in {e \in Cpu : v \in ToSet(rx[e].left)} :
          d \in {e \in Cpu : v \in ToSet(rx'[e].left)} /\ rx'[d].len = rx[d].len
    BY <1>2, <1>4, <1>5
  <2>. QED
    BY <2>1 DEF Pending
<1>. QED
  BY <1>1, <1>2, <1>3, <1>5

\* A packet is forwarded only while no URR of its PDR is stopped.
LEMMA ForwardsOpen ==
  ASSUME TypeOK, ShutInv, NEW c \in Cpu, NEW p \in Pdr, Forwards(c, p), NEW u \in UrrsOn(p)
  PROVE  ~urr[u].exhausted
<1>1. farOf[p] \in Far /\ action[farOf[p]] = "FORW"
  BY DEF Forwards, TypeOK
<1>2. ~Stopped(farOf[p])
  BY <1>1 DEF ShutInv, Shut
<1>. QED
  BY <1>1, <1>2 DEF Stopped

LEMMA QuotaForward ==
  ASSUME QuotaConditions, TypeOK, RxWhole, ShutInv, QuotaInv, NEW c \in Cpu,
         NEW p \in Pdr, NEW len \in Lengths, Forward(c, p, len)
  PROVE  QuotaInv'
<1> DEFINE r == [at |-> "next", pdr |-> p, len |-> len, left |-> UrrsOf[p],
                 bytes |-> 0, consumed |-> 0, out |-> <<>>]
<1>1. /\ Forwards(c, p) /\ rx' = [rx EXCEPT ![c] = r] /\ urr' = urr /\ nl' = nl
      /\ passed' = [u \in Urr |-> IF u \in UrrsOn(p) /\ Metered(u) /\ passed[u] # None
                                  THEN passed[u] + len ELSE passed[u]]
  BY DEF Forward
<1>2. \A d \in Cpu : d = c
  BY DEF QuotaConditions, OneCpu
<1>3. rx'[c].at = "next" /\ rx'[c].len = len /\ rx'[c].left = UrrsOf[p] /\ rx[c].left = <<>>
  BY <1>1 DEF TypeOK, RxWhole, Forwards, Idle
<1>4. MetersAllowed'
  BY <1>1, MetersStay DEF QuotaInv
<1>5. \A d \in Cpu : MeteredFirst(rx'[d].left)
  BY <1>2, <1>3 DEF QuotaConditions, AllMeteredFirst
<1>6. \A u \in Urr : Pending(u) = {0} /\ Pending(u)' = IF u \in UrrsOn(p) THEN {0, len} ELSE {0}
  <2>1. ToSet(<<>>) = {}
    BY DEF ToSet
  <2>. QED
    BY <1>2, <1>3, <2>1 DEF Pending, UrrsOn
<1>7. ASSUME NEW u \in Urr
      PROVE  Accounted(u)'
  <2>1. CASE u \in UrrsOn(p) /\ Metered(u) /\ passed[u] # None
    <3>1. passed'[u] = passed[u] + len /\ Counting(u)
      BY <1>1, <2>1 DEF Metered, Counting
    <3>2. ~urr[u].exhausted
      BY <1>1, <2>1, ForwardsOpen
    <3>3. urr'[u].inam \/ Within(u, 0)
      BY <1>1, <1>6, <3>1, <3>2 DEF QuotaInv, Accounted, Consuming
    <3>4. /\ urr[u].quota \in Nat /\ urr[u].consumed \in Nat /\ passed[u] \in Nat
          /\ len \in Nat
      BY <2>1, QuotaTypes, Facts
    <3>5. Within(u, 0) => Within(u, len)'
      <4>1. \A a, b, m \in Nat : a <= b + 0 => a + m <= b + m
        OBVIOUS
      <4>2. \A a, m \in Nat : a <= 0 => a + m <= m
        OBVIOUS
      <4>. QED
        BY <1>1, <3>1, <3>4, <4>1, <4>2 DEF Within
    <3>6. StoppedInTime(u)'
      BY <1>1, <3>2 DEF StoppedInTime
    <3>7. Consuming(u)'
      BY <1>6, <2>1, <3>3, <3>5 DEF Consuming
    <3>8. StoreCounts(u)'
      BY <1>2, <1>3 DEF StoreCounts
    <3>. QED
      BY <3>6, <3>7, <3>8 DEF Accounted
  <2>2. CASE ~(u \in UrrsOn(p) /\ Metered(u) /\ passed[u] # None)
    <3>1. passed'[u] = passed[u]
      BY <1>1, <2>2
    <3>. QED
      BY <1>1, <1>2, <1>3, <1>6, <3>1, AccountStays DEF QuotaInv
  <2>. QED
    BY <2>1, <2>2
<1>. QED
  BY <1>4, <1>5, <1>7 DEF QuotaInv

LEMMA QuotaUncounted ==
  ASSUME QuotaConditions, TypeOK, QuotaInv, NEW c \in Cpu, NEW p \in Pdr, ForwardUncounted(c, p)
  PROVE  QuotaInv'
<1>1. UNCHANGED <<urr, rx, nl>> /\ \A u \in Urr : passed'[u] \in {passed[u], None}
  BY DEF ForwardUncounted
<1>2. \A u \in Urr : Accounted(u)'
  <2>1. \A u \in Urr : Pending(u)' = Pending(u)
    BY <1>1 DEF Pending
  <2>. QED
    BY <1>1, <2>1, AccountStays DEF QuotaInv
<1>. QED
  BY <1>1, <1>2, MetersStay DEF QuotaInv

\* The stop of a URR comes before its quota is overrun by a packet.
LEMMA QuotaStop ==
  ASSUME OneCpu, TypeOK, NEW u \in Urr, NEW w \in UrrType, NEW ok \in BOOLEAN,
         w.trigger = urr[u].trigger, w.quota = urr[u].quota, w.exhausted = urr[u].exhausted,
         w.inam = urr[u].inam,
         Exhausted(u, w, ok), Unmetered(u, ok),
         Counting(u) => ~Overrun(u) /\ (urr[u].exhausted /\ ~urr[u].inam => passed[u] = 0),
         \A d \in Cpu : rx'[d].at # "store"
  PROVE  Accounted(u)'
<1>1. SUFFICES ASSUME Counting(u)' PROVE StoppedInTime(u)' /\ Consuming(u)' /\ StoreCounts(u)'
  BY DEF Accounted
<1>2. ok /\ passed'[u] = passed[u]
  BY <1>1, UnmeteredIs DEF Counting
<1>3. /\ urr'[u].trigger = urr[u].trigger /\ urr'[u].quota = urr[u].quota /\ urr'[u].exhausted
      /\ urr'[u].inam = IF ~urr[u].exhausted THEN TRUE ELSE urr[u].inam
  BY <1>2 DEF Exhausted
<1>4. Counting(u) /\ ~Overrun(u)'
  BY <1>1, <1>2, <1>3 DEF Counting, Overrun
<1>5. StoppedInTime(u)'
  BY <1>2, <1>3, <1>4 DEF StoppedInTime
<1>. QED
  BY <1>3, <1>5 DEF Consuming, StoreCounts

LEMMA QuotaLoop ==
  ASSUME QuotaConditions, TypeOK, RxWhole, ShutInv, QuotaInv, NEW c \in Cpu, NEW u \in Urr,
         Skip(c, u) \/ NoTrigger(c, u) \/ StartOfService(c, u) \/ LoadCounters(c, u)
  PROVE  QuotaInv'
<1>0. /\ \A d \in Cpu : d = c
      /\ rx[c].at = "next" /\ Head(rx[c].left) = u /\ urr[u].live /\ nl' = nl
      /\ rx[c].left \in Seq(Urr \cup {None}) /\ rx[c].left # <<>>
      /\ rx[c].out \in Seq(Report) /\ rx[c].pdr \in Pdr
      /\ Len(rx[c].out) <= Len(UrrsOf[rx[c].pdr])
  <2>1. /\ rx[c].at = "next" /\ Head(rx[c].left) = u /\ urr[u].live /\ nl' = nl
    BY DEF Skip, NoTrigger, StartOfService, LoadCounters, AtUrr
  <2>. QED
    BY <2>1, RxIs, Facts DEF QuotaConditions, OneCpu, RxWhole
<1>1. MetersAllowed /\ (\A d \in Cpu : MeteredFirst(rx[d].left)) /\ \A v \in Urr : Accounted(v)
  BY DEF QuotaInv
<1>2. ASSUME Skip(c, u)
      PROVE  QuotaInv'
  <2>1. urr[u].inam /\ Advance(c, rx[c].out) /\ UNCHANGED <<urr, nl, passed>>
    BY <1>2 DEF Skip, history
  <2>2. /\ \A v \in Urr : v # u => Pending(v) \subseteq Pending(v)'
        /\ \A d \in Cpu : rx'[d].at # "store" /\ MeteredFirst(rx'[d].left)
    BY <1>0, <1>1, <2>1, PendingIs DEF QuotaConditions
  <2>3. \A v \in Urr : v # u => Accounted(v)'
    BY <1>1, <2>1, <2>2, AccountStays
  <2>4. Accounted(u)'
    <3>1. Counting(u)' <=> Counting(u)
      BY <2>1 DEF Counting
    <3>2. StoppedInTime(u)' <=> StoppedInTime(u)
      BY <2>1 DEF StoppedInTime, Overrun
    <3>3. Consuming(u)'
      BY <2>1 DEF Consuming
    <3>. QED
      BY <1>1, <2>2, <3>1, <3>2, <3>3 DEF Accounted, StoreCounts
  <2>. QED
    BY <1>1, <2>1, <2>2, <2>3, <2>4, MetersStay DEF QuotaInv
<1>3. ASSUME NoTrigger(c, u)
      PROVE  QuotaInv'
  <2>1. rx' = [rx EXCEPT ![c] = Idle] /\ urr[u].trigger = {} /\ UNCHANGED <<urr, nl, passed>>
    BY <1>3 DEF NoTrigger
  <2>2. rx'[c] = Idle
    BY <2>1 DEF TypeOK
  <2>3. MayLackTrigger(u)
    BY <1>0, <1>1, <2>1 DEF MetersAllowed
  <2>4. ASSUME NEW v \in Urr
        PROVE  Accounted(v)'
    <3>1. CASE Counting(v)
      <4>1. MayMeter(v) /\ v # u
        BY <1>1, <2>1, <3>1 DEF MetersAllowed, Counting
      <4>2. v \notin ToSet(rx[c].left)
        BY <1>0, <1>1, <2>3, <4>1, Facts, OrderIs
      <4>3. Pending(v) \subseteq Pending(v)'
        BY <1>0, <4>2 DEF Pending
      <4>4. \A d \in Cpu : rx'[d].at # "store"
        BY <1>0, <2>2 DEF Idle
      <4>. QED
        BY <1>1, <2>1, <4>3, <4>4, AccountStays
    <3>2. CASE ~Counting(v)
      BY <2>1, <3>2 DEF Accounted, Counting
    <3>. QED
      BY <3>1, <3>2
  <2>5. \A d \in Cpu : MeteredFirst(rx'[d].left)
    BY <1>0, <2>2 DEF MeteredFirst, Idle
  <2>. QED
    BY <1>1, <2>1, <2>4, <2>5, MetersStay DEF QuotaInv
<1>4. ASSUME StartOfService(c, u)
      PROVE  QuotaInv'
  <2> DEFINE l == Line(u, "start")
  <2>1. ~urr[u].inam /\ Advance(c, Append(rx[c].out, l)) /\ Room(c) > 0
    BY <1>4 DEF StartOfService
  <2>2. PICK ok \in BOOLEAN : QuotaExhaust(u, urr[u], ok) /\ Unmetered(u, ok)
    BY <1>4, OutcomeIs DEF StartOfService
  <2>3. l \in Report /\ Len(rx[c].out) \in Nat /\ Len(UrrsOf[rx[c].pdr]) \in Nat
    BY <1>0, Facts, LenProperties DEF Line, Report, Triggers
  <2>4. Append(rx[c].out, l) \in Seq(Report) /\ Len(Append(rx[c].out, l)) = Len(rx[c].out) + 1
    BY <1>0, <2>3, AppendProperties
  <2>5. Len(Append(rx[c].out, l)) <= Len(UrrsOf[rx[c].pdr])
    <3>1. \A m, n \in Nat : m - n > 0 => n + 1 <= m
      OBVIOUS
    <3>. QED
      BY <2>1, <2>3, <2>4, <3>1 DEF Room
  <2>. HIDE DEF l
  <2>6. /\ \A v \in Urr : v # u => Pending(v) \subseteq Pending(v)'
        /\ \A d \in Cpu : rx'[d].at # "store" /\ MeteredFirst(rx'[d].left)
    BY <1>0, <1>1, <2>1, <2>4, <2>5, PendingIs DEF QuotaConditions
  <2>7. urr[u] \in UrrType
    BY DEF TypeOK
  <2>8. Exhausted(u, urr[u], ok)
    BY <2>2, <2>7, ExhaustIs
  <2>9. \A v \in Urr : v # u => urr'[v] = urr[v] /\ passed'[v] = passed[v]
    BY <2>2, <2>8, UnmeteredIs DEF Exhausted, TypeOK
  <2>10. \A v \in Urr : v # u => Accounted(v)'
    BY <1>1, <2>6, <2>9, AccountStays
  <2>11. Counting(u) => ~Overrun(u) /\ (urr[u].exhausted /\ ~urr[u].inam => passed[u] = 0)
    BY <1>1, <2>1, WithinIs DEF Accounted, StoppedInTime, Consuming
  <2>12. Accounted(u)'
    BY <2>2, <2>6, <2>7, <2>8, <2>11, QuotaStop DEF QuotaConditions
  <2>13. \A v \in Urr : /\ urr'[v].trigger = urr[v].trigger /\ urr'[v].live = urr[v].live
                        /\ urr'[v].quota = urr[v].quota
    BY <2>8, <2>9 DEF Exhausted
  <2>. QED
    BY <1>0, <1>1, <2>6, <2>10, <2>12, <2>13, MetersStay DEF QuotaInv
<1>5. ASSUME LoadCounters(c, u)
      PROVE  QuotaInv'
  <2>1. /\ UNCHANGED <<urr, nl, passed>> /\ ~urr[u].inam
        /\ rx'[c].left = rx[c].left /\ rx'[c].len = rx[c].len /\ rx'[c].consumed = urr[u].consumed
    <3>1. rx[c] \in RxType
      BY RxIs
    <3>. QED
      BY <1>5, <3>1 DEF LoadCounters, TypeOK, history, RxType
  <2>2. \A v \in Urr : Pending(v)' = Pending(v)
    BY <1>0, <2>1 DEF Pending
  <2>3. \A v \in Urr : v # u => Accounted(v)'
    BY <1>0, <1>1, <2>1, <2>2, AccountStays
  <2>4. ASSUME Counting(u)'
        PROVE  StoppedInTime(u)' /\ Consuming(u)' /\ StoreCounts(u)'
    <3>1. Counting(u) /\ StoppedInTime(u) /\ Consuming(u)
      BY <1>1, <2>1, <2>4 DEF Counting, Accounted
    <3>2. StoppedInTime(u)'
      BY <2>1, <3>1 DEF StoppedInTime, Overrun
    <3>3. Consuming(u)'
      BY <2>1, <2>2, <3>1 DEF Consuming, Within
    <3>4. /\ urr[u].consumed \in Nat /\ passed[u] \in Nat /\ rx[c].len \in Nat
          /\ Pending(u) \subseteq {0, rx[c].len}
      BY <1>0, <3>1, QuotaTypes, RxIs DEF Counting, Pending
    <3>5. ~Overrun(u) /\ passed[u] <= urr[u].consumed + rx[c].len
      <4>1. CASE urr[u].exhausted
        BY <2>1, <3>1, <3>4, <4>1 DEF StoppedInTime
      <4>2. CASE ~urr[u].exhausted
        <5>1. PICK n \in Pending(u) : Within(u, n)
          BY <2>1, <3>1, <4>2 DEF Consuming
        <5>2. passed[u] <= urr[u].consumed + n /\ n \in {0, rx[c].len}
          BY <3>4, <5>1 DEF Within
        <5>3. passed[u] <= urr[u].consumed + rx[c].len
          BY <3>4, <5>2
        <5>. QED
          BY <3>1, <5>1, <5>3, WithinIs
      <4>. QED
        BY <4>1, <4>2
    <3>6. StoreCounts(u)'
      BY <1>0, <2>1, <3>5 DEF StoreCounts, Overrun
    <3>. QED
      BY <3>2, <3>3, <3>6
  <2>5. Accounted(u)'
    BY <2>4 DEF Accounted
  <2>6. \A d \in Cpu : MeteredFirst(rx'[d].left)
    BY <1>0, <1>1, <2>1
  <2>. QED
    BY <1>1, <2>1, <2>3, <2>5, <2>6, MetersStay DEF QuotaInv
<1>. QED
  BY <1>2, <1>3, <1>4, <1>5

LEMMA QuotaStore ==
  ASSUME QuotaConditions, TypeOK, RxWhole, QuotaInv, NEW c \in Cpu, StoreCounters(c)
  PROVE  QuotaInv'
<1>0. /\ \A d \in Cpu : d = c
      /\ rx[c].at = "store" /\ nl' = nl
      /\ rx[c].left \in Seq(Urr \cup {None}) /\ rx[c].left # <<>>
      /\ rx[c].out \in Seq(Report) /\ rx[c].pdr \in Pdr
      /\ Len(rx[c].out) <= Len(UrrsOf[rx[c].pdr])
      /\ Len(rx[c].out) \in Nat /\ Len(UrrsOf[rx[c].pdr]) \in Nat
  <2>1. rx[c].at = "store" /\ nl' = nl
    BY DEF StoreCounters
  <2>. QED
    BY <2>1, RxIs, Facts, LenProperties DEF QuotaConditions, OneCpu, RxWhole
<1>1. MetersAllowed /\ (\A d \in Cpu : MeteredFirst(rx[d].left)) /\ \A v \in Urr : Accounted(v)
  BY DEF QuotaInv
<1>2. Head(rx[c].left) \in Urr \cup {None}
  BY <1>0, InSeq
<1>3. CASE Head(rx[c].left) = None
  <2>1. Advance(c, rx[c].out) /\ UNCHANGED <<urr, passed>>
    BY <1>3 DEF StoreCounters
  <2>2. /\ \A v \in Urr : Pending(v) \subseteq Pending(v)'
        /\ \A d \in Cpu : rx'[d].at # "store" /\ MeteredFirst(rx'[d].left)
    BY <1>0, <1>1, <1>3, <2>1, PendingIs, Facts DEF QuotaConditions
  <2>3. \A v \in Urr : Accounted(v)'
    BY <1>1, <2>1, <2>2, AccountStays
  <2>. QED
    BY <1>0, <1>1, <2>1, <2>2, <2>3, MetersStay DEF QuotaInv
<1>4. ASSUME NEW u \in Urr, Head(rx[c].left) = u
      PROVE  QuotaInv'
  <2> DEFINE w == Counted(c, u)
  <2>1. /\ u \in Urr /\ Len(Lines(u, w)) <= Room(c) /\ Advance(c, rx[c].out \o Lines(u, w))
    BY <1>4, Facts DEF StoreCounters
  <2>2. /\ w \in UrrType
        /\ w.consumed = IF "volqu" \in urr[u].trigger THEN rx[c].consumed + rx[c].len ELSE urr[u].consumed
        /\ w.live = urr[u].live /\ w.trigger = urr[u].trigger /\ w.quota = urr[u].quota
        /\ w.inam = urr[u].inam /\ w.exhausted = urr[u].exhausted
    BY <2>1, CountedIs
  <2>3. Lines(u, w) \in Seq(Report) /\ Len(Lines(u, w)) \in Nat
    BY <2>1, LinesAre, LenProperties
  <2>4. \/ OverQuota(w) /\ \E ok \in BOOLEAN : QuotaExhaust(u, w, ok) /\ Unmetered(u, ok)
        \/ ~OverQuota(w) /\ urr' = [urr EXCEPT ![u] = w] /\ passed' = passed
    BY <1>4, Facts, OutcomeIs DEF StoreCounters
  <2>5. Counting(u) => passed[u] <= rx[c].consumed + rx[c].len /\ ~Overrun(u)
    BY <1>0, <1>1, <1>4 DEF Accounted, StoreCounts
  <2>6. rx[c].at \in {"next", "store"} /\ Head(rx[c].left) = u
    BY <1>0, <1>4
  <2>. HIDE DEF w
  <2>7. /\ rx[c].out \o Lines(u, w) \in Seq(Report)
        /\ Len(rx[c].out \o Lines(u, w)) <= Len(UrrsOf[rx[c].pdr])
    BY <1>0, <2>1, <2>3, ConcatProperties DEF Room
  <2>8. /\ \A v \in Urr : v # u => Pending(v) \subseteq Pending(v)'
        /\ \A d \in Cpu : rx'[d].at # "store" /\ MeteredFirst(rx'[d].left)
    BY <1>1, <2>1, <2>6, <2>7, PendingIs DEF QuotaConditions
  <2>9. CASE OverQuota(w) /\ \E ok \in BOOLEAN : QuotaExhaust(u, w, ok) /\ Unmetered(u, ok)
    <3>1. PICK ok \in BOOLEAN : QuotaExhaust(u, w, ok) /\ Unmetered(u, ok)
      BY <2>9
    <3>2. Exhausted(u, w, ok)
      BY <2>1, <2>2, <3>1, ExhaustIs
    <3>3. \A v \in Urr : v # u => urr'[v] = urr[v] /\ passed'[v] = passed[v]
      BY <2>1, <3>1, <3>2, UnmeteredIs DEF Exhausted, TypeOK
    <3>4. \A v \in Urr : v # u => Accounted(v)'
      BY <1>1, <2>8, <3>3, AccountStays
    <3>5. Counting(u) => ~Overrun(u) /\ (urr[u].exhausted /\ ~urr[u].inam => passed[u] = 0)
      BY <1>1, <2>1, <2>5 DEF Accounted, StoppedInTime
    <3>6. Accounted(u)'
      BY <2>1, <2>2, <2>8, <3>1, <3>2, <3>5, QuotaStop DEF QuotaConditions
    <3>7. \A v \in Urr : /\ urr'[v].trigger = urr[v].trigger /\ urr'[v].live = urr[v].live
                         /\ urr'[v].quota = urr[v].quota
      BY <2>2, <3>2, <3>3 DEF Exhausted
    <3>. QED
      BY <1>0, <1>1, <2>8, <3>4, <3>6, <3>7, MetersStay DEF QuotaInv
  <2>10. CASE ~OverQuota(w) /\ urr' = [urr EXCEPT ![u] = w] /\ passed' = passed
    <3>1. urr'[u] = w /\ \A v \in Urr : v # u => urr'[v] = urr[v]
      BY <2>1, <2>10 DEF TypeOK
    <3>2. \A v \in Urr : v # u => Accounted(v)'
      BY <1>1, <2>8, <2>10, <3>1, AccountStays
    <3>3. ASSUME Counting(u)'
          PROVE  StoppedInTime(u)' /\ Consuming(u)' /\ StoreCounts(u)'
      <4>1. Counting(u) /\ "volqu" \in w.trigger /\ w.quota # 0
        BY <2>2, <2>10, <3>1, <3>3 DEF Counting
      <4>2. StoppedInTime(u)'
        BY <1>1, <2>1, <2>2, <2>10, <3>1, <4>1 DEF Accounted, StoppedInTime, Overrun
      <4>3. /\ w.consumed = rx[c].consumed + rx[c].len /\ passed[u] <= w.consumed
            /\ ~(w.consumed >= w.quota)
        BY <2>2, <2>5, <2>10, <4>1 DEF OverQuota, Reached
      <4>4. w.consumed \in Nat /\ w.quota \in Nat /\ passed[u] \in Nat
        BY <2>1, <2>2, <4>1, QuotaTypes DEF Counting, UrrType
      <4>5. Within(u, 0)'
        BY <2>10, <3>1, <4>3, <4>4 DEF Within
      <4>6. Consuming(u)'
        BY <4>5 DEF Consuming, Pending
      <4>. QED
        BY <2>8, <4>2, <4>6 DEF StoreCounts
    <3>4. Accounted(u)'
      BY <3>3 DEF Accounted
    <3>5. \A v \in Urr : /\ urr'[v].trigger = urr[v].trigger /\ urr'[v].live = urr[v].live
                         /\ urr'[v].quota = urr[v].quota
      BY <2>2, <3>1
    <3>. QED
      BY <1>0, <1>1, <2>8, <3>2, <3>4, <3>5, MetersStay DEF QuotaInv
  <2>. QED
    BY <2>4, <2>9, <2>10
<1>. QED
  BY <1>2, <1>3, <1>4

\* A report or a request takes the bytes, and the packet, if it ends, was
\* counted for all its URRs.
LEMMA QuotaTaken ==
  ASSUME TypeOK, QuotaInv, \A u \in Urr : Taken(u), passed' = passed, nl' = nl,
         \A c \in Cpu : rx'[c] = rx[c] \/ (rx[c].left = <<>> /\ rx'[c] = Idle)
  PROVE  QuotaInv'
<1>1. \A c \in Cpu : MeteredFirst(rx'[c].left)
  BY DEF QuotaInv, MeteredFirst, Idle
<1>2. ASSUME NEW u \in Urr
      PROVE  Accounted(u)'
  <2>1. \A c \in Cpu : u \in ToSet(rx[c].left) => rx'[c] = rx[c]
    BY DEF ToSet
  <2>2. Pending(u) \subseteq Pending(u)'
    BY <2>1 DEF Pending
  <2>3. \A c \in Cpu : rx'[c].at = "store" => rx'[c] = rx[c]
    BY DEF Idle
  <2>. QED
    BY <2>2, <2>3, AccountStays DEF QuotaInv, Taken
<1>. QED
  BY <1>1, <1>2, MetersStay DEF QuotaInv, Taken

LEMMA QuotaPacket ==
  ASSUME QuotaConditions, TypeOK, RxWhole, ShutInv, QuotaInv, NEW c \in Cpu, PacketStep(c)
  PROVE  QuotaInv'
<1>1. ASSUME SendReports(c) \/ SendFails(c)
      PROVE  QuotaInv'
  <2>1. /\ rx' = [rx EXCEPT ![c] = Idle] /\ passed' = passed /\ nl' = nl /\ rx[c].at = "send"
        /\ (\E sent \in BOOLEAN : Convert(Reports(c), sent)) \/ urr' = urr
    BY <1>1 DEF SendReports, SendFails
  <2>2. \A u \in Urr : Taken(u)
    <3>1. ASSUME NEW sent \in BOOLEAN, Convert(Reports(c), sent)
          PROVE  \A u \in Urr : Taken(u)
      BY <3>1, ConvertIs
    <3>. QED
      BY <2>1, <3>1 DEF Taken
  <2>3. rx[c].left = <<>> /\ \A d \in Cpu : rx'[d] = IF d = c THEN Idle ELSE rx[d]
    BY <2>1 DEF RxWhole, TypeOK
  <2>. QED
    BY <2>1, <2>2, <2>3, QuotaTaken
<1>. QED
  BY <1>1, QuotaForward, QuotaUncounted, QuotaLoop, QuotaStore DEF PacketStep

LEMMA QuotaDone ==
  ASSUME TypeOK, TypeOK', QuotaInv, NEW u \in Urr, AddUrrDone(u)
  PROVE  QuotaInv'
<1>1. nl.urr = u /\ nl' = NoFill /\ rx' = rx /\ passed' = passed
  BY DoneIs
<1>2. /\ \A v \in Urr : v # u => urr'[v] = urr[v]
      /\ urr'[u].trigger = urr[u].trigger /\ urr'[u].quota = urr[u].quota
      /\ Accounted(u)'
  <2>1. ASSUME NEW ok \in BOOLEAN, DoneStops(u, ok)
        PROVE  /\ \A v \in Urr : v # u => urr'[v] = urr[v]
               /\ urr'[u].trigger = urr[u].trigger /\ urr'[u].quota = urr[u].quota
               /\ Accounted(u)'
    <3>1. Exhausted(u, Alive(u), ok)
      BY <2>1, AliveIs, ExhaustIs DEF DoneStops
    <3>2. urr[u].quota = 0
      BY <1>1, <2>1 DEF QuotaInv, MetersAllowed, DoneStops, AsksStop
    <3>3. \A v \in Urr : v # u => urr'[v] = urr[v]
      BY <3>1 DEF Exhausted, TypeOK
    <3>4. urr'[u].trigger = urr[u].trigger /\ urr'[u].quota = urr[u].quota
      BY <3>1, AliveIs DEF Exhausted
    <3>. QED
      BY <3>2, <3>3, <3>4 DEF Accounted, Counting
  <2>2. CASE DoneResumes(u)
    <3>1. /\ urr' = [urr EXCEPT ![u] = urr'[u]] /\ urr[u].exhausted
          /\ urr'[u].trigger = urr[u].trigger /\ urr'[u].quota = urr[u].quota
          /\ urr'[u].consumed = urr[u].consumed /\ urr'[u].inam = urr[u].inam
          /\ urr'[u].exhausted = FALSE
      BY <2>2, ReverseIs DEF DoneResumes
    <3>2. Accounted(u)'
      <4>1. CASE urr[u].inam
        <5>1. Counting(u)' <=> Counting(u)
          BY <1>1, <3>1 DEF Counting
        <5>2. StoreCounts(u)' <=> StoreCounts(u)
          BY <1>1, <3>1 DEF StoreCounts, Overrun
        <5>. QED
          BY <3>1, <4>1, <5>1, <5>2 DEF QuotaInv, Accounted, StoppedInTime, Consuming
      <4>2. CASE ~urr[u].inam
        <5>1. Counting(u)' => passed'[u] = 0
          BY <1>1, <3>1, <4>2 DEF QuotaInv, Accounted, StoppedInTime, Counting
        <5>. QED
          BY <5>1, AccountFresh
      <4>. QED
        BY <4>1, <4>2
    <3>. QED
      BY <3>1, <3>2 DEF TypeOK
  <2>3. CASE DoneKeeps(u)
    <3>1. urr'[u] = Alive(u) /\ \A v \in Urr : v # u => urr'[v] = urr[v]
      BY <2>3 DEF DoneKeeps, TypeOK
    <3>2. Accounted(u)'
      BY <1>1, <3>1, AliveIs, AccountStays DEF QuotaInv, Pending
    <3>. QED
      BY <3>1, <3>2, AliveIs
  <2>. QED
    BY <2>1, <2>2, <2>3, DoneIs
<1>3. \A v \in Urr : Accounted(v)'
  <2>1. \A v \in Urr : Pending(v)' = Pending(v)
    BY <1>1 DEF Pending
  <2>2. ASSUME NEW v \in Urr, v # u PROVE Accounted(v)'
    BY <1>1, <1>2, <2>1, <2>2, AccountStays DEF QuotaInv
  <2>. QED
    BY <1>2, <2>2
<1>4. MetersAllowed'
  <2>1. nl'.urr \notin Urr
    BY <1>1, Facts DEF NoFill
  <2>. QED
    BY <1>1, <1>2, <2>1, MetersStay DEF QuotaInv
<1>. QED
  BY <1>1, <1>3, <1>4 DEF QuotaInv

LEMMA QuotaNetlink ==
  ASSUME QuotaConditions, TypeOK, RxWhole, TypeOK', QuotaInv, Netlink
  PROVE  QuotaInv'
<1>0. MetersAllowed /\ (\A d \in Cpu : MeteredFirst(rx[d].left)) /\ \A v \in Urr : Accounted(v)
  BY DEF QuotaInv
<1>1. ASSUME NEW u \in Urr, NEW m \in Msg[u], AddUrr(u, m)
      PROVE  QuotaInv'
  <2>1. /\ urr' = [urr EXCEPT ![u] = Filled(urr[u], m)] /\ rx' = rx
        /\ nl' = [urr |-> u, quota |-> Kind(m)]
        /\ passed' = [passed EXCEPT ![u] = IF m.quota = None THEN passed[u] ELSE 0]
    BY <1>1 DEF AddUrr, Kind
  <2>2. urr'[u].trigger = m.trigger /\ \A v \in Urr : v # u => urr'[v] = urr[v] /\ passed'[v] = passed[v]
    BY <2>1, FilledIs DEF TypeOK
  <2>3. "volqu" \in m.trigger => m.quota # None /\ (m.zero => m.quota = 0)
    BY DEF QuotaConditions, QuotaGiven
  <2>4. \A v \in Urr : v # u => Accounted(v)'
    <3>1. \A v \in Urr : Pending(v)' = Pending(v)
      BY <2>1 DEF Pending
    <3>. QED
      BY <1>0, <2>1, <2>2, <3>1, AccountStays
  <2>5. Accounted(u)'
    <3>1. Counting(u)' => passed'[u] = 0
      BY <2>1, <2>2, <2>3 DEF Counting, TypeOK
    <3>. QED
      BY <3>1, AccountFresh
  <2>6. MetersAllowed'
    <3>1. /\ "volqu" \in m.trigger => MayMeter(u)
          /\ m.trigger = {} => MayLackTrigger(u)
      BY DEF MayMeter, MayLackTrigger
    <3>3. nl'.quota = "zero" /\ "volqu" \in m.trigger => urr'[u].quota = 0
      BY <2>1, <2>3, FilledIs DEF Kind, TypeOK
    <3>2. ASSUME NEW v \in Urr, v # u
          PROVE  /\ "volqu" \in urr'[v].trigger => MayMeter(v)
                 /\ (urr'[v].live \/ nl'.urr = v) /\ urr'[v].trigger = {} => MayLackTrigger(v)
                 /\ nl'.urr # v
      BY <1>0, <2>1, <2>2, <3>2 DEF MetersAllowed
    <3>. QED
      BY <2>2, <3>1, <3>2, <3>3 DEF MetersAllowed
  <2>. QED
    BY <1>0, <2>1, <2>4, <2>5, <2>6 DEF QuotaInv
<1>2. ASSUME NEW us, NEW sent \in BOOLEAN, Convert(us, sent),
             UNCHANGED <<world, gate, rx, nl, told, passed, oops>>
      PROVE  QuotaInv'
  BY <1>2, ConvertIs, QuotaTaken
<1>3. ASSUME NEW u \in Urr, DelUrr(u)
      PROVE  QuotaInv'
  <2>1. /\ urr' = [urr EXCEPT ![u] = NoUrr] /\ nl = NoFill /\ nl' = nl
        /\ rx' = [c \in Cpu |-> Orphaned(rx[c], u)]
        /\ passed' = [passed EXCEPT ![u] = 0]
    BY <1>3 DEF DelUrr, NetlinkReady
  <2>2. urr'[u] = NoUrr /\ \A v \in Urr : v # u => urr'[v] = urr[v] /\ passed'[v] = passed[v]
    BY <2>1 DEF TypeOK
  <2>3. ASSUME NEW c \in Cpu
        PROVE  /\ rx'[c].at = rx[c].at /\ rx'[c].len = rx[c].len /\ rx'[c].consumed = rx[c].consumed
               /\ rx'[c].left \in Seq(Urr \cup {None}) /\ rx[c].left \in Seq(Urr \cup {None})
               /\ rx'[c].left = <<>> <=> rx[c].left = <<>>
               /\ rx[c].left # <<>> => /\ Tail(rx'[c].left) = Tail(rx[c].left)
                                       /\ Head(rx'[c].left) \in {None, Head(rx[c].left)}
    <3>1. rx[c] \in RxType /\ (rx[c].at = "store" => rx[c].left # <<>>)
      BY DEF TypeOK, RxWhole
    <3>2. Orphaned(rx[c], u) \in RxType
      BY <3>1, OrphanedIs
    <3>3. rx[c].left \in Seq(Urr \cup {None}) /\ Orphaned(rx[c], u).left \in Seq(Urr \cup {None})
      BY <3>1, <3>2 DEF RxType
    <3>4. rx'[c] = Orphaned(rx[c], u)
      BY <2>1
    <3>. QED
      BY <3>1, <3>3, <3>4, OrphanedIs
  <2>4. \A c \in Cpu : MeteredFirst(rx'[c].left)
    <3>1. ASSUME NEW c \in Cpu PROVE MeteredFirst(rx'[c].left)
      <4>1. CASE rx[c].left = <<>>
        BY <2>3, <4>1 DEF MeteredFirst
      <4>2. CASE rx[c].left # <<>>
        BY <1>0, <2>3, <4>2, OrderIs
      <4>. QED
        BY <4>1, <4>2
    <3>. QED
      BY <3>1
  <2>5. ASSUME NEW v \in Urr, v # u
        PROVE  Accounted(v)'
    <3>1. ASSUME NEW c \in Cpu, v \in ToSet(rx[c].left)
          PROVE  v \in ToSet(rx'[c].left)
      <4>1. rx[c].left # <<>>
        BY <3>1 DEF ToSet
      <4>2. CASE rx[c].at = "store" /\ Head(rx[c].left) = u
        <5>1. v \in ToSet(Tail(rx[c].left))
          BY <2>3, <2>5, <3>1, <4>1, <4>2, InSeq
        <5>. QED
          BY <2>3, <4>1, <5>1, InSeq
      <4>3. CASE ~(rx[c].at = "store" /\ Head(rx[c].left) = u)
        <5>1. rx'[c].left = rx[c].left
          BY <2>1, <4>3 DEF Orphaned, TypeOK, RxType
        <5>. QED
          BY <3>1, <5>1
      <4>. QED
        BY <4>2, <4>3
    <3>2. Pending(v) \subseteq Pending(v)'
      BY <2>3, <3>1 DEF Pending
    <3>3. \A c \in Cpu : rx'[c].at = "store" /\ Head(rx'[c].left) = v =>
            /\ rx[c].at = "store" /\ Head(rx[c].left) = v
            /\ rx'[c].consumed = rx[c].consumed /\ rx'[c].len = rx[c].len
      BY <2>3, Facts DEF RxWhole
    <3>4. urr'[v] = urr[v] /\ passed'[v] = passed[v] /\ Accounted(v)
      BY <1>0, <2>2, <2>5
    <3>. QED
      BY <3>2, <3>3, <3>4, AccountStays
  <2>6. Accounted(u)'
    BY <2>2 DEF Accounted, Counting, NoUrr
  <2>7. MetersAllowed'
    <3>1. nl'.urr # u /\ ~urr'[u].live /\ urr'[u].trigger = {}
      BY <2>1, <2>2, Facts DEF NoFill, NoUrr
    <3>. QED
      BY <1>0, <2>1, <2>2, <3>1 DEF MetersAllowed
  <2>. QED
    BY <2>4, <2>5, <2>6, <2>7 DEF QuotaInv
<1>4. CASE UNCHANGED <<urr, rx, nl, passed>>
  BY <1>4, QuotaTaken DEF Taken
<1>5. (\E f \in Far : \E a \in Action[f] : SetAction(f, a)) => UNCHANGED <<urr, rx, nl, passed>>
  BY DEF SetAction, history
<1>6. (\E p \in Pdr : \E f \in Far \cup {None} : LinkFar(p, f)) => UNCHANGED <<urr, rx, nl, passed>>
  BY DEF LinkFar, history
<1>. QED
  BY <1>1, <1>2, <1>3, <1>4, <1>5, <1>6, NetlinkIs

LEMMA QuotaNext ==
  ASSUME QuotaConditions, StopInv, StopInv', ShutInv, QuotaInv, [Next]_vars
  PROVE  QuotaInv'
<1>. USE DEF StopInv
<1>1. CASE UNCHANGED <<urr, rx, nl, passed>>
  BY <1>1, QuotaTaken DEF Taken
<1>2. CASE Next
  <2>1. ASSUME NEW c \in Cpu, PacketStep(c) PROVE QuotaInv'
    BY <2>1, QuotaPacket
  <2>2. ASSUME NEW u \in Urr, AddUrrDone(u) PROVE QuotaInv'
    BY <2>2, QuotaDone
  <2>3. CASE Netlink
    BY <2>3, QuotaNetlink
  <2>4. CASE Faults
    BY <1>1, <2>4 DEF Faults, history
  <2>. QED
    BY <1>2, <2>1, <2>2, <2>3, <2>4, NextIs
<1>3. CASE UNCHANGED vars
  BY <1>1, <1>3 DEF vars, history
<1>. QED
  BY <1>2, <1>3

LEMMA QuotaInit == Init => QuotaInv
<1> SUFFICES ASSUME Init PROVE QuotaInv
  OBVIOUS
<1>1. MetersAllowed
  BY Facts DEF Init, MetersAllowed, NoUrr, NoFill
<1>2. \A c \in Cpu : MeteredFirst(rx[c].left)
  BY DEF Init, Idle, MeteredFirst
<1>3. \A u \in Urr : Accounted(u)
  BY DEF Init, Accounted, Counting, NoUrr
<1>. QED
  BY <1>1, <1>2, <1>3 DEF QuotaInv

\* On the conditions of QuotaConditions, a granted quota is overrun by less
\* than one packet: the packet that uses it up is the last of any PDR of the
\* URR to pass, whatever comes between its counting and the stop.
THEOREM QuotaIsHeld == ASSUME QuotaConditions PROVE Spec => []QuotaHeld
<1>1. Init => StopInv /\ GateInv /\ ShutInv /\ QuotaInv
  BY StopInit, GateInit, ShutInit, QuotaInit
<1>2. StopInv /\ GateInv /\ ShutInv /\ QuotaInv /\ [Next]_vars
        => StopInv' /\ GateInv' /\ ShutInv' /\ QuotaInv'
  BY StopNext, GateNext, ShutNext, QuotaNext DEF QuotaConditions
<1>3. StopInv /\ QuotaInv => QuotaHeld
  <2>1. SUFFICES ASSUME StopInv, QuotaInv, NEW u \in Urr, Metered(u), passed[u] # None,
                        urr[u].inam => urr[u].exhausted
                 PROVE  passed[u] < urr[u].quota + Max(Lengths)
    BY DEF QuotaHeld
  <2>2. TypeOK /\ Counting(u) /\ StoppedInTime(u) /\ Consuming(u)
    BY <2>1 DEF StopInv, QuotaInv, Accounted, Metered, Counting
  <2>3. ~Overrun(u)
    <3>1. CASE urr[u].exhausted
      BY <2>2, <3>1 DEF StoppedInTime
    <3>2. CASE ~urr[u].exhausted
      BY <2>1, <2>2, <3>2, WithinIs DEF Consuming
    <3>. QED
      BY <3>1, <3>2
  <2>4. urr[u].quota \in Nat /\ passed[u] \in Nat /\ Max(Lengths) \in Nat
    BY <2>1, <2>2, QuotaTypes
  <2>. QED
    BY <2>3, <2>4 DEF Overrun
<1>. QED
  BY <1>1, <1>2, <1>3, PTL DEF Spec

=============================================================================
