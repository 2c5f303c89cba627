--------------------------- MODULE PdrListsProofs ---------------------------
(***************************************************************************)
(* What insertion into and removal from a detection list do, for lists of *)
(* every length.                                                           *)
(***************************************************************************)
EXTENDS PdrLists, NaturalsInduction, WellFoundedInduction,
        SequenceTheorems, TLAPS

\* The smallest element that the list operators choose exists.
LEMMA MinIsLeast ==
  ASSUME NEW S \in SUBSET Nat, S # {}
  PROVE  Min(S) \in S /\ \A y \in S : Min(S) <= y
<1> DEFINE R == {ss \in Nat \X Nat : ss[1] < ss[2]}
<1>1. IsWellFoundedOn(R, Nat)
  BY NatLessThanWellFounded DEF OpToRel
<1>2. \E x \in S : \A y \in S : ~(<<y, x>> \in R)
  BY <1>1, WFMin
<1>3. PICK x \in S : \A y \in S : ~(<<y, x>> \in R)
  BY <1>2
<1>4. \A y \in S : x <= y
  <2>. SUFFICES ASSUME NEW y \in S PROVE x <= y
    OBVIOUS
  <2>1. ~(y < x)
    BY <1>3
  <2>. QED
    BY <2>1
<1>. QED
  BY <1>4 DEF Min

\* Where the insertion loop stops: every entry before that place has a
\* strictly smaller precedence, and the entry at it has not.
InsertPlace(s, p, prec) ==
  LET stops == Stops(s, p, prec) IN IF stops = {} THEN Len(s) + 1 ELSE Min(stops)

LEMMA InsertPlaceIs ==
  ASSUME NEW S, NEW s \in Seq(S), NEW p \in S, NEW prec \in [S -> Nat]
  PROVE  LET k == InsertPlace(s, p, prec)
         IN  /\ k \in 1..(Len(s) + 1)
             /\ \A j \in 1..(k - 1) : prec[s[j]] < prec[p]
             /\ k <= Len(s) => prec[p] <= prec[s[k]]
<1>1. \A j \in 1..Len(s) : prec[s[j]] \in Nat
  OBVIOUS
<1>2. prec[p] \in Nat
  OBVIOUS
<1>3. CASE Stops(s, p, prec) = {}
  BY <1>1, <1>2, <1>3 DEF InsertPlace, Stops
<1>4. CASE Stops(s, p, prec) # {}
  <2>1. Stops(s, p, prec) \in SUBSET Nat
    BY DEF Stops
  <2> DEFINE k == Min(Stops(s, p, prec))
  <2>2. /\ k \in Stops(s, p, prec)
        /\ \A y \in Stops(s, p, prec) : k <= y
    BY <1>4, <2>1, MinIsLeast
  <2>3. InsertPlace(s, p, prec) = k
    BY <1>4 DEF InsertPlace
  <2>. HIDE DEF k
  <2>4. k \in 1..Len(s) /\ prec[p] <= prec[s[k]]
    BY <2>2 DEF Stops
  <2>5. \A j \in 1..(k - 1) : prec[s[j]] < prec[p]
    <3>. SUFFICES ASSUME NEW j \in 1..(k - 1) PROVE prec[s[j]] < prec[p]
      OBVIOUS
    <3>1. j \in 1..Len(s) /\ j < k
      BY <2>4
    <3>2. j \notin Stops(s, p, prec)
      BY <2>2, <2>4, <3>1
    <3>. QED
      BY <1>1, <1>2, <3>1, <3>2 DEF Stops
  <2>. QED
    BY <2>3, <2>4, <2>5
<1>. QED
  BY <1>3, <1>4

\* The list after an insertion, entry by entry.
LEMMA InsertEntries ==
  ASSUME NEW S, NEW s \in Seq(S), NEW p \in S, NEW k \in 1..(Len(s) + 1)
  PROVE  /\ InsertAt(s, k, p) \in Seq(S)
         /\ Len(InsertAt(s, k, p)) = Len(s) + 1
         /\ \A j \in 1..(Len(s) + 1) :
              InsertAt(s, k, p)[j] = IF j < k THEN s[j]
                                     ELSE IF j = k THEN p ELSE s[j - 1]
<1> DEFINE before == SubSeq(s, 1, k - 1)
           after == SubSeq(s, k, Len(s))
<1>1. /\ before \in Seq(S)
      /\ Len(before) = k - 1
      /\ \A j \in 1..(k - 1) : before[j] = s[j]
  BY SubSeqProperties
<1>2. /\ after \in Seq(S)
      /\ Len(after) = Len(s) - k + 1
      /\ \A j \in 1..(Len(s) - k + 1) : after[j] = s[k + j - 1]
  BY SubSeqProperties
<1>3. <<p>> \in Seq(S) /\ Len(<<p>>) = 1 /\ <<p>>[1] = p
  OBVIOUS
<1>. HIDE DEF before, after
<1>4. /\ before \o <<p>> \in Seq(S)
      /\ Len(before \o <<p>>) = k
      /\ \A j \in 1..k : (before \o <<p>>)[j] = IF j < k THEN s[j] ELSE p
  BY <1>1, <1>3, ConcatProperties
<1>5. /\ (before \o <<p>>) \o after \in Seq(S)
      /\ Len((before \o <<p>>) \o after) = Len(s) + 1
      /\ \A j \in 1..(Len(s) + 1) :
           ((before \o <<p>>) \o after)[j] =
             IF j <= k THEN (before \o <<p>>)[j] ELSE after[j - k]
  <2> DEFINE u == before \o <<p>>
  <2>1. u \in Seq(S) /\ Len(u) = k
    BY <1>4
  <2>. HIDE DEF u
  <2>2. Len(u) + Len(after) = Len(s) + 1
    BY <1>2, <2>1
  <2>3. /\ u \o after \in Seq(S)
        /\ Len(u \o after) = Len(u) + Len(after)
        /\ \A j \in 1..(Len(u) + Len(after)) :
             (u \o after)[j] = IF j <= Len(u) THEN u[j] ELSE after[j - Len(u)]
    BY <1>2, <2>1, ConcatProperties
  <2>4. /\ u \o after \in Seq(S)
        /\ Len(u \o after) = Len(s) + 1
        /\ \A j \in 1..(Len(s) + 1) :
             (u \o after)[j] = IF j <= k THEN u[j] ELSE after[j - k]
    BY <2>1, <2>2, <2>3
  <2>. QED
    BY <2>4 DEF u
<1>6. InsertAt(s, k, p) = (before \o <<p>>) \o after
  BY DEF InsertAt, before, after
<1>. QED
  BY <1>2, <1>4, <1>5, <1>6

\* The list after a removal, entry by entry.
LEMMA RemoveEntries ==
  ASSUME NEW S, NEW s \in Seq(S), NEW k \in 1..Len(s)
  PROVE  /\ RemoveAt(s, k) \in Seq(S)
         /\ Len(RemoveAt(s, k)) = Len(s) - 1
         /\ \A j \in 1..(Len(s) - 1) :
              RemoveAt(s, k)[j] = IF j < k THEN s[j] ELSE s[j + 1]
<1> DEFINE before == SubSeq(s, 1, k - 1)
           after == SubSeq(s, k + 1, Len(s))
<1>1. /\ before \in Seq(S)
      /\ Len(before) = k - 1
      /\ \A j \in 1..(k - 1) : before[j] = s[j]
  BY SubSeqProperties
<1>2. /\ after \in Seq(S)
      /\ Len(after) = Len(s) - k
      /\ \A j \in 1..(Len(s) - k) : after[j] = s[k + j]
  BY SubSeqProperties
<1>. HIDE DEF before, after
<1>3. /\ before \o after \in Seq(S)
      /\ Len(before \o after) = Len(s) - 1
      /\ \A j \in 1..(Len(s) - 1) :
           (before \o after)[j] = IF j < k THEN before[j] ELSE after[j - (k - 1)]
  <2>1. Len(before) + Len(after) = Len(s) - 1
    BY <1>1, <1>2
  <2>2. /\ before \o after \in Seq(S)
        /\ Len(before \o after) = Len(before) + Len(after)
        /\ \A j \in 1..(Len(before) + Len(after)) :
             (before \o after)[j] =
               IF j <= Len(before) THEN before[j] ELSE after[j - Len(before)]
    BY <1>1, <1>2, ConcatProperties
  <2>. QED
    BY <1>1, <2>1, <2>2
<1>4. RemoveAt(s, k) = before \o after
  BY DEF RemoveAt, before, after
<1>5. ASSUME NEW j \in 1..(Len(s) - 1)
      PROVE  (before \o after)[j] = IF j < k THEN s[j] ELSE s[j + 1]
  <2>1. CASE j < k
    BY <1>1, <1>3, <2>1
  <2>2. CASE ~(j < k)
    <3>1. j - (k - 1) \in 1..(Len(s) - k) /\ k + (j - (k - 1)) = j + 1
      BY <2>2
    <3>. QED
      BY <1>2, <1>3, <2>2, <3>1
  <2>. QED
    BY <2>1, <2>2
<1>. QED
  BY <1>3, <1>4, <1>5

-----------------------------------------------------------------------------
\* The elements of a list, by their places.
LEMMA ToSetIs ==
  ASSUME NEW S, NEW s \in Seq(S)
  PROVE  /\ Len(s) \in Nat
         /\ \A x : x \in ToSet(s) <=> \E i \in 1..Len(s) : s[i] = x
<1>1. DOMAIN s = 1..Len(s)
  OBVIOUS
<1>. QED
  BY <1>1 DEF ToSet

\* Inserting a PDR by precedence adds it and nothing else, and leaves the
\* list in ascending order of precedence.
THEOREM SortedInsertIs ==
  ASSUME NEW S, NEW s \in Seq(S), NEW p \in S, NEW prec \in [S -> Nat]
  PROVE  LET t == SortedInsert(s, p, prec)
         IN  /\ t \in Seq(S)
             /\ ToSet(t) = ToSet(s) \cup {p}
             /\ NoRepeats(s) /\ p \notin ToSet(s) => NoRepeats(t)
             /\ Ascending(s, prec) => Ascending(t, prec)
<1> DEFINE k == InsertPlace(s, p, prec)
           t == SortedInsert(s, p, prec)
<1>1. /\ k \in 1..(Len(s) + 1)
      /\ \A j \in 1..(k - 1) : prec[s[j]] < prec[p]
      /\ k <= Len(s) => prec[p] <= prec[s[k]]
  BY InsertPlaceIs
<1>2. t = InsertAt(s, k, p)
  BY DEF SortedInsert, InsertPlace
<1>. HIDE DEF k, t
<1>. Len(s) \in Nat
  OBVIOUS
<1>3. /\ t \in Seq(S)
      /\ Len(t) = Len(s) + 1
      /\ \A j \in 1..(Len(s) + 1) :
           t[j] = IF j < k THEN s[j] ELSE IF j = k THEN p ELSE s[j - 1]
  <2>1. k \in 1..(Len(s) + 1)
    BY <1>1
  <2>2. /\ InsertAt(s, k, p) \in Seq(S)
        /\ Len(InsertAt(s, k, p)) = Len(s) + 1
        /\ \A j \in 1..(Len(s) + 1) :
             InsertAt(s, k, p)[j] = IF j < k THEN s[j]
                                    ELSE IF j = k THEN p ELSE s[j - 1]
    BY <2>1, InsertEntries
  <2>. QED
    BY <1>2, <2>2
<1>4. ToSet(t) = ToSet(s) \cup {p}
  <2>1. ASSUME NEW x \in ToSet(t) PROVE x \in ToSet(s) \cup {p}
    <3>1. PICK j \in 1..(Len(s) + 1) : t[j] = x
      BY <1>3, ToSetIs
    <3>2. CASE j < k
      <4>1. j \in 1..Len(s) /\ x = s[j]
        BY <1>1, <1>3, <3>1, <3>2
      <4>. QED
        BY <4>1, ToSetIs
    <3>3. CASE j = k
      BY <1>3, <3>1, <3>3
    <3>4. CASE j > k
      <4>1. j - 1 \in 1..Len(s) /\ x = s[j - 1]
        BY <1>1, <1>3, <3>1, <3>4
      <4>. QED
        BY <4>1, ToSetIs
    <3>. QED
      BY <1>1, <3>2, <3>3, <3>4
  <2>2. ASSUME NEW j \in 1..Len(s) PROVE s[j] \in ToSet(t)
    <3>1. CASE j < k
      <4>1. j \in 1..Len(t) /\ t[j] = s[j]
        BY <1>3, <3>1
      <4>. QED
        BY <1>3, <4>1, ToSetIs
    <3>2. CASE ~(j < k)
      <4>1. j + 1 \in 1..Len(t) /\ t[j + 1] = s[j]
        BY <1>1, <1>3, <3>2
      <4>. QED
        BY <1>3, <4>1, ToSetIs
    <3>. QED
      BY <3>1, <3>2
  <2>3. p \in ToSet(t)
    <3>1. k \in 1..Len(t) /\ t[k] = p
      BY <1>1, <1>3
    <3>. QED
      BY <1>3, <3>1, ToSetIs
  <2>. QED
    BY <2>1, <2>2, <2>3, ToSetIs
<1>5. ASSUME NoRepeats(s), p \notin ToSet(s) PROVE NoRepeats(t)
  <2>1. \A j \in 1..Len(s) : s[j] # p
    BY <1>5, ToSetIs
  <2>. SUFFICES ASSUME NEW i \in 1..Len(t), NEW j \in 1..Len(t), t[i] = t[j]
                PROVE  i = j
    BY DEF NoRepeats
  <2>2. i \in 1..(Len(s) + 1) /\ j \in 1..(Len(s) + 1)
    BY <1>3
  <2> DEFINE down(m) == IF m < k THEN m ELSE m - 1
  <2>3. \A m \in 1..(Len(s) + 1) : m # k => down(m) \in 1..Len(s) /\ t[m] = s[down(m)]
    <3>. SUFFICES ASSUME NEW m \in 1..(Len(s) + 1), m # k
                  PROVE  down(m) \in 1..Len(s) /\ t[m] = s[down(m)]
      OBVIOUS
    <3>1. k \in 1..(Len(s) + 1)
      BY <1>1
    <3>2. t[m] = IF m < k THEN s[m] ELSE IF m = k THEN p ELSE s[m - 1]
      BY <1>3
    <3>. QED
      BY <3>1, <3>2
  <2>4. t[k] = p
    BY <1>1, <1>3
  <2>5. i = k <=> j = k
    <3>1. \A m \in 1..(Len(s) + 1) : m # k => t[m] # p
      <4>. HIDE DEF down
      <4>. QED
        BY <2>1, <2>3
    <3>2. t[i] = p <=> t[j] = p
      OBVIOUS
    <3>. QED
      BY <2>2, <2>4, <3>1, <3>2
  <2>6. CASE i # k /\ j # k
    <3>1. down(i) = down(j)
      BY <1>5, <2>2, <2>3, <2>6 DEF NoRepeats
    <3>. QED
      BY <1>1, <2>2, <2>6, <3>1
  <2>. QED
    BY <2>5, <2>6
<1>6. ASSUME Ascending(s, prec) PROVE Ascending(t, prec)
  <2>. SUFFICES ASSUME NEW i \in 1..Len(t), NEW j \in 1..Len(t), i < j
                PROVE  prec[t[i]] <= prec[t[j]]
    BY DEF Ascending
  <2>1. i \in 1..(Len(s) + 1) /\ j \in 1..(Len(s) + 1)
    BY <1>3
  <2>2. /\ prec[p] \in Nat
        /\ \A m \in 1..Len(s) : prec[s[m]] \in Nat
        /\ \A m, n \in 1..Len(s) : m <= n => prec[s[m]] <= prec[s[n]]
    BY <1>6 DEF Ascending
  <2>3. \A m \in 1..Len(s) : m >= k => prec[p] <= prec[s[m]]
    BY <1>1, <2>2
  <2>4. CASE i = k
    <3>1. j - 1 \in 1..Len(s) /\ j - 1 >= k /\ t[j] = s[j - 1] /\ t[i] = p
      BY <1>1, <1>3, <2>1, <2>4
    <3>. QED
      BY <2>3, <3>1
  <2>5. CASE j = k
    <3>1. i \in 1..(k - 1) /\ i \in 1..Len(s) /\ t[i] = s[i] /\ t[j] = p
      BY <1>1, <1>3, <2>1, <2>5
    <3>. QED
      BY <1>1, <2>2, <3>1
  <2>6. CASE i # k /\ j # k
    <3> DEFINE down(m) == IF m < k THEN m ELSE m - 1
    <3>1. \A m \in 1..(Len(s) + 1) : m # k => down(m) \in 1..Len(s) /\ t[m] = s[down(m)]
      <4>. SUFFICES ASSUME NEW m \in 1..(Len(s) + 1), m # k
                    PROVE  down(m) \in 1..Len(s) /\ t[m] = s[down(m)]
        OBVIOUS
      <4>1. k \in 1..(Len(s) + 1)
        BY <1>1
      <4>2. t[m] = IF m < k THEN s[m] ELSE IF m = k THEN p ELSE s[m - 1]
        BY <1>3
      <4>. QED
        BY <4>1, <4>2
    <3>2. down(i) <= down(j)
      BY <1>1, <2>1, <2>6
    <3>. HIDE DEF down
    <3>. QED
      BY <2>1, <2>2, <2>6, <3>1, <3>2
  <2>. QED
    BY <2>4, <2>5, <2>6
<1>. QED
  BY <1>3, <1>4, <1>5, <1>6 DEF t

\* Unlinking a PDR that occurs at most once removes it and nothing else, and
\* keeps the order.
THEOREM UnlistIs ==
  ASSUME NEW S, NEW s \in Seq(S), NEW p, NoRepeats(s)
  PROVE  LET t == Unlist(s, p)
         IN  /\ t \in Seq(S)
             /\ ToSet(t) = ToSet(s) \ {p}
             /\ NoRepeats(t)
             /\ \A prec : Ascending(s, prec) => Ascending(t, prec)
<1>1. CASE ~ \E i \in 1..Len(s) : s[i] = p
  <2>1. Unlist(s, p) = s
    BY <1>1 DEF Unlist, RemoveFirst
  <2>2. p \notin ToSet(s)
    BY <1>1, ToSetIs
  <2>. QED
    BY <2>1, <2>2
<1>2. CASE \E i \in 1..Len(s) : s[i] = p
  <2> DEFINE I == {i \in 1..Len(s) : s[i] = p}
             k == Min(I)
             t == Unlist(s, p)
  <2>1. k \in I
    <3>1. I \in SUBSET Nat /\ I # {}
      BY <1>2
    <3>. QED
      BY <3>1, MinIsLeast
  <2>2. t = RemoveAt(s, k)
    BY <1>2 DEF Unlist, RemoveFirst, SelectInSeq
  <2>. HIDE DEF k, t
  <2>. Len(s) \in Nat
    OBVIOUS
  <2>3. k \in 1..Len(s) /\ s[k] = p
    BY <2>1
  <2>4. /\ t \in Seq(S)
        /\ Len(t) = Len(s) - 1
        /\ \A j \in 1..(Len(s) - 1) : t[j] = IF j < k THEN s[j] ELSE s[j + 1]
    BY <2>2, <2>3, RemoveEntries
  <2> DEFINE up(j) == IF j < k THEN j ELSE j + 1
  <2>5. \A j \in 1..Len(t) : up(j) \in 1..Len(s) /\ up(j) # k /\ t[j] = s[up(j)]
    BY <2>3, <2>4
  <2>6. \A i, j \in 1..Len(t) : (up(i) = up(j) => i = j) /\ (i < j => up(i) < up(j))
    BY <2>3, <2>4
  <2>7. \A i \in 1..Len(s) : i # k => \E j \in 1..Len(t) : up(j) = i
    <3>. SUFFICES ASSUME NEW i \in 1..Len(s), i # k
                  PROVE  \E j \in 1..Len(t) : up(j) = i
      OBVIOUS
    <3>1. CASE i < k
      BY <2>3, <2>4, <3>1
    <3>2. CASE i > k
      <4>1. i - 1 \in 1..Len(t) /\ up(i - 1) = i
        BY <2>3, <2>4, <3>2
      <4>. QED
        BY <4>1
    <3>. QED
      BY <2>3, <3>1, <3>2
  <2>. HIDE DEF up
  <2>8. ToSet(t) = ToSet(s) \ {p}
    <3>1. ASSUME NEW j \in 1..Len(t) PROVE t[j] \in ToSet(s) \ {p}
      BY <2>3, <2>5, ToSetIs DEF NoRepeats
    <3>2. ASSUME NEW i \in 1..Len(s), s[i] # p PROVE s[i] \in ToSet(t)
      <4>1. PICK j \in 1..Len(t) : up(j) = i
        BY <2>3, <2>7, <3>2
      <4>. QED
        BY <2>4, <2>5, <4>1, ToSetIs
    <3>. QED
      BY <2>4, <3>1, <3>2, ToSetIs
  <2>9. NoRepeats(t)
    BY <2>5, <2>6 DEF NoRepeats
  <2>10. \A prec : Ascending(s, prec) => Ascending(t, prec)
    BY <2>5, <2>6 DEF Ascending
  <2>. QED
    BY <2>4, <2>8, <2>9, <2>10 DEF t
<1>. QED
  BY <1>1, <1>2
=============================================================================
