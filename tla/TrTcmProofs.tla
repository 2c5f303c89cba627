---------------------------- MODULE TrTcmProofs ----------------------------
(***************************************************************************)
(* The meter, for every word size, rate, burst, packet length and gap.     *)
(***************************************************************************)
EXTENDS TrTcm, TLAPS

-----------------------------------------------------------------------------
\* Arithmetic

\* Division with remainder.
LEMMA DivMod ==
  ASSUME NEW a \in Nat, NEW d \in Nat \ {0}
  PROVE  /\ a \div d \in Nat /\ a % d \in Nat /\ a % d < d
         /\ a = d * (a \div d) + (a % d)
  OBVIOUS

LEMMA U64Is ==
  ASSUME NEW a \in Nat
  PROVE  /\ U64(a) \in Nat /\ U64(a) < Word /\ U64(a) <= a
         /\ a < Word => U64(a) = a
<1>1. Word \in Nat \ {0}
  BY MeterAssumption
<1>2. a \div Word \in Nat /\ a % Word \in Nat /\ a % Word < Word
      /\ a = Word * (a \div Word) + (a % Word)
  BY <1>1, DivMod
<1>3. Word * (a \div Word) \in Nat
  BY <1>1, <1>2
<1>4. a % Word <= a
  BY <1>1, <1>2, <1>3
<1>5. a < Word => a % Word = a
  BY <1>1
<1>. QED
  BY <1>2, <1>4, <1>5 DEF U64

LEMMA TimesNat == \A a, b \in Nat : a * b \in Nat
  OBVIOUS

LEMMA TimesZero == \A a \in Nat : a * 0 = 0 /\ a - a = 0
  OBVIOUS

LEMMA MinusNat ==
  ASSUME NEW a \in Nat, NEW b \in Nat, a <= b
  PROVE  b - a \in Nat /\ b = a + (b - a)
  OBVIOUS

LEMMA Distribute ==
  ASSUME NEW a \in Nat, NEW b \in Nat, NEW d \in Nat
  PROVE  d * (a + b) = d * a + d * b
  OBVIOUS

LEMMA TimesMonotone ==
  ASSUME NEW a \in Nat, NEW b \in Nat, NEW d \in Nat, a <= b
  PROVE  d * a <= d * b
<1>1. PICK e \in Nat : b = a + e
  <2>1. b - a \in Nat /\ b = a + (b - a)
    OBVIOUS
  <2>. QED
    BY <2>1
<1>2. d * b = d * a + d * e
  BY <1>1, Distribute
<1>3. d * a \in Nat /\ d * e \in Nat
  BY TimesNat, <1>1
<1>. QED
  BY <1>2, <1>3

-----------------------------------------------------------------------------
\* The refill

LEMMA CreditIs ==
  ASSUME NEW tokens \in Nat, NEW bits \in Nat, NEW rem \in Nat
  PROVE  /\ Credit([tokens |-> tokens, bits |-> bits, rem |-> rem]) \in Nat
         /\ Credit([tokens |-> tokens, bits |-> bits, rem |-> rem])
              = NsecPerSec * (8 * tokens + bits) + rem
<1>1. NsecPerSec \in Nat
  BY MeterAssumption
<1>2. NsecPerSec * (8 * tokens + bits) = NsecPerSec * (8 * tokens) + NsecPerSec * bits
  BY <1>1, Distribute
<1>3. NsecPerSec * (8 * tokens) = 8 * NsecPerSec * tokens
  BY <1>1
<1>4. NsecPerSec * (8 * tokens + bits) \in Nat
  BY <1>1, TimesNat
<1>. QED
  BY <1>1, <1>2, <1>3, <1>4 DEF Credit

\* A refill adds to the credit at most the rate times the gap, and exactly
\* that when nothing exceeds a word.
LEMMA RefilledIs ==
  ASSUME NEW b \in Bucket, b.rem < NsecPerSec, b.bits < 8,
         NEW rate \in Nat, NEW gap \in Nat
  PROVE  LET f == Refilled(b, rate, gap)
         IN  /\ f \in Bucket /\ f.rem < NsecPerSec /\ f.bits < 8
             /\ Credit(f) \in Nat /\ Credit(b) \in Nat
             /\ Credit(f) <= Credit(b) + rate * gap
             /\ Fits(b, rate, gap) => Credit(f) = Credit(b) + rate * gap
<1> DEFINE N == NsecPerSec
           low == rate % N
           high == rate \div N
           x == b.rem + U64(gap * low)
           rem == U64(x)
           q == rem \div N
           r == rem % N
           y == U64(gap * high) + q + b.bits
           bits == U64(y)
           t == bits \div 8
           odd == bits % 8
           tokens == U64(b.tokens + t)
           f == Refilled(b, rate, gap)
<1>1. N \in Nat \ {0}
  BY MeterAssumption
<1>2. /\ b.tokens \in Nat /\ b.rem \in Nat /\ b.bits \in Nat
      /\ b = [tokens |-> b.tokens, rem |-> b.rem, bits |-> b.bits]
  BY DEF Bucket
<1>3. low \in Nat /\ high \in Nat /\ rate = N * high + low
  BY <1>1, DivMod
<1>. HIDE DEF low, high
<1>4. gap * low \in Nat /\ gap * high \in Nat
  BY <1>3, TimesNat
<1>5. /\ U64(gap * low) \in Nat /\ U64(gap * low) <= gap * low
      /\ gap * low < Word => U64(gap * low) = gap * low
      /\ U64(gap * high) \in Nat /\ U64(gap * high) <= gap * high
      /\ gap * high < Word => U64(gap * high) = gap * high
  BY <1>4, U64Is
<1>6. /\ x \in Nat /\ rem \in Nat /\ rem <= x
      /\ x < Word => rem = x
  BY <1>2, <1>5, U64Is
<1>7. q \in Nat /\ r \in Nat /\ r < N /\ rem = N * q + r
  BY <1>1, <1>6, DivMod
<1>8. /\ y \in Nat /\ bits \in Nat /\ bits <= y
      /\ y < Word => bits = y
  BY <1>2, <1>5, <1>7, U64Is
<1>9. t \in Nat /\ odd \in Nat /\ odd < 8 /\ bits = 8 * t + odd
  <2>. HIDE DEF bits
  <2>. QED
    BY <1>8
<1>10. /\ tokens \in Nat /\ tokens <= b.tokens + t
       /\ b.tokens + t < Word => tokens = b.tokens + t
  BY <1>2, <1>9, U64Is
<1>11. f = [tokens |-> tokens, rem |-> r, bits |-> odd]
  BY DEF Refilled, low, high
<1>12. f \in Bucket /\ f.rem < NsecPerSec /\ f.bits < 8
  BY <1>7, <1>9, <1>10, <1>11 DEF Bucket
<1>13. Credit(b) \in Nat /\ Credit(b) = N * (8 * b.tokens + b.bits) + b.rem
  <2>1. Credit(b) = Credit([tokens |-> b.tokens, bits |-> b.bits, rem |-> b.rem])
    BY <1>2
  <2>. QED
    BY <1>2, <2>1, CreditIs
<1>14. Credit(f) \in Nat /\ Credit(f) = N * (8 * tokens + odd) + r
  <2>1. Credit(f) = Credit([tokens |-> tokens, bits |-> odd, rem |-> r])
    BY <1>11
  <2>. QED
    BY <1>7, <1>9, <1>10, <2>1, CreditIs
\* What the credit would be without a single wrap.
<1> DEFINE full == N * (8 * b.tokens + (gap * high + q + b.bits)) + r
<1>15. full \in Nat /\ full = Credit(b) - b.rem + N * (gap * high) + N * q + r
  <2> DEFINE left == 8 * b.tokens + b.bits
             gain == gap * high + q
  <2>1. left \in Nat /\ gain \in Nat
        /\ 8 * b.tokens + (gap * high + q + b.bits) = left + gain
    BY <1>2, <1>4, <1>7
  <2>2. N * (left + gain) = N * left + N * gain
    BY <1>1, <2>1, Distribute
  <2>3. N * gain = N * (gap * high) + N * q
    BY <1>1, <1>4, <1>7, Distribute
  <2>4. N * left \in Nat /\ N * (gap * high) \in Nat /\ N * q \in Nat
    BY <1>1, <1>4, <1>7, <2>1, TimesNat
  <2>. HIDE DEF left, gain
  <2>5. full = N * left + N * gain + r
    BY <2>1, <2>2
  <2>6. Credit(b) - b.rem = N * left
    BY <1>2, <1>13, <2>4 DEF left
  <2>. QED
    BY <1>7, <2>3, <2>4, <2>5, <2>6
<1>16. rate * gap = N * (gap * high) + gap * low
  <2>1. rate * gap = gap * (N * high) + gap * low
    <3>1. N * high \in Nat
      BY <1>1, <1>3, TimesNat
    <3>2. gap * (N * high + low) = gap * (N * high) + gap * low
      BY <1>3, <3>1, Distribute
    <3>. QED
      BY <1>3, <3>2
  <2>2. gap * (N * high) = N * (gap * high)
    BY <1>1, <1>3
  <2>. QED
    BY <2>1, <2>2
<1>17. Credit(f) <= full /\ (y < Word /\ b.tokens + t < Word /\ gap * high < Word => Credit(f) = full)
  <2> DEFINE got == 8 * tokens + odd
             due == 8 * b.tokens + (gap * high + q + b.bits)
  <2>1. got \in Nat /\ due \in Nat /\ got <= due
    BY <1>2, <1>4, <1>5, <1>7, <1>8, <1>9, <1>10
  <2>2. N * got <= N * due /\ N * got \in Nat /\ N * due \in Nat
    BY <1>1, <2>1, TimesMonotone, TimesNat
  <2>3. y < Word /\ b.tokens + t < Word /\ gap * high < Word => got = due
    BY <1>2, <1>4, <1>5, <1>7, <1>8, <1>9, <1>10
  <2>4. Credit(f) = N * got + r /\ full = N * due + r
    BY <1>14
  <2>. HIDE DEF got, due, full
  <2>. QED
    BY <1>7, <2>2, <2>3, <2>4
<1>18. N * q + r <= b.rem + gap * low /\ (x < Word /\ gap * low < Word => N * q + r = b.rem + gap * low)
  BY <1>2, <1>4, <1>5, <1>6, <1>7
<1>19. N * (gap * high) \in Nat /\ N * q \in Nat
  BY <1>1, <1>4, <1>7, TimesNat
<1>20. Fits(b, rate, gap) =>
         gap * low < Word /\ x < Word /\ gap * high < Word /\ y < Word /\ b.tokens + t < Word
  <2>. SUFFICES ASSUME Fits(b, rate, gap)
                PROVE  gap * low < Word /\ x < Word /\ gap * high < Word /\ y < Word
                       /\ b.tokens + t < Word
    OBVIOUS
  <2>1. LET w == b.rem + gap * low
            v == gap * high + w \div N + b.bits
        IN  w < Word /\ v < Word /\ b.tokens + v \div 8 < Word
    BY DEF Fits, low, high
  <2>2. Word \in Nat
    BY MeterAssumption
  <2>3. gap * low < Word /\ x = b.rem + gap * low /\ x < Word /\ rem = b.rem + gap * low
    <3>1. b.rem + gap * low < Word
      BY <2>1
    <3>2. gap * low < Word
      BY <1>2, <1>4, <2>2, <3>1
    <3>. QED
      BY <1>5, <1>6, <3>1, <3>2
  <2>4. gap * high + q + b.bits < Word /\ b.tokens + (gap * high + q + b.bits) \div 8 < Word
    BY <2>1, <2>3
  <2>5. gap * high < Word
    BY <1>2, <1>4, <1>7, <2>2, <2>4
  <2>6. y = gap * high + q + b.bits
    BY <1>5, <2>5
  <2>. QED
    BY <1>8, <2>3, <2>4, <2>5, <2>6
<1>. HIDE DEF N, x, rem, q, r, y, bits, t, odd, tokens, f, full
<1>21. Credit(f) <= Credit(b) + rate * gap
  BY <1>2, <1>4, <1>7, <1>13, <1>14, <1>15, <1>16, <1>17, <1>18, <1>19
<1>22. ASSUME Fits(b, rate, gap) PROVE Credit(f) = Credit(b) + rate * gap
  <2>1. Credit(f) = full
    BY <1>17, <1>20, <1>22
  <2>2. N * q + r = b.rem + gap * low
    BY <1>18, <1>20, <1>22
  <2>. QED
    BY <1>2, <1>4, <1>7, <1>13, <1>14, <1>15, <1>16, <1>19, <2>1, <2>2
<1>. QED
  BY <1>12, <1>13, <1>14, <1>21, <1>22 DEF f

-----------------------------------------------------------------------------
\* The cap and the payment

Proper(b) == b \in Bucket /\ b.rem < NsecPerSec /\ b.bits < 8

LEMMA ProperCredit ==
  ASSUME NEW b, Proper(b)
  PROVE  /\ Credit(b) \in Nat
         /\ Credit(b) = NsecPerSec * (8 * b.tokens + b.bits) + b.rem
<1>1. /\ b.tokens \in Nat /\ b.rem \in Nat /\ b.bits \in Nat
      /\ b = [tokens |-> b.tokens, bits |-> b.bits, rem |-> b.rem]
  BY DEF Proper, Bucket
<1>2. Credit(b) = Credit([tokens |-> b.tokens, bits |-> b.bits, rem |-> b.rem])
  BY <1>1
<1>. QED
  BY <1>1, <1>2, CreditIs

\* Taking whole bytes out of a bucket takes their price out of its credit.
LEMMA PayIs ==
  ASSUME NEW b, Proper(b), NEW k \in Nat, k <= b.tokens
  PROVE  LET d == [b EXCEPT !.tokens = b.tokens - k]
         IN  /\ Proper(d) /\ d.tokens = b.tokens - k
             /\ Credit(d) \in Nat
             /\ Credit(d) + 8 * NsecPerSec * k = Credit(b)
<1> DEFINE d == [b EXCEPT !.tokens = b.tokens - k]
           N == NsecPerSec
<1>1. N \in Nat
  BY MeterAssumption
<1>2. /\ b.tokens \in Nat /\ b.bits \in Nat /\ b.rem \in Nat /\ b.tokens - k \in Nat
      /\ d \in Bucket /\ d.tokens = b.tokens - k /\ d.bits = b.bits /\ d.rem = b.rem
  BY DEF Proper, Bucket
<1>3. Proper(d)
  BY <1>2 DEF Proper
<1>4. /\ Credit(d) \in Nat
      /\ Credit(d) = N * (8 * (b.tokens - k) + b.bits) + b.rem
      /\ Credit(b) = N * (8 * b.tokens + b.bits) + b.rem
  BY <1>2, <1>3, ProperCredit
<1>5. N * (8 * b.tokens + b.bits) = N * (8 * (b.tokens - k) + b.bits) + N * (8 * k)
  <2>1. /\ 8 * (b.tokens - k) + b.bits \in Nat /\ 8 * k \in Nat
        /\ 8 * b.tokens + b.bits = (8 * (b.tokens - k) + b.bits) + 8 * k
    BY <1>2
  <2>. QED
    BY <1>1, <2>1, Distribute
<1>6. 8 * N * k = N * (8 * k) /\ N * (8 * k) \in Nat
      /\ N * (8 * (b.tokens - k) + b.bits) \in Nat
  BY <1>1, <1>2
<1>. QED
  BY <1>2, <1>3, <1>4, <1>5, <1>6 DEF N, d

\* The cap takes whole bytes out, and leaves less than a byte above a burst.
LEMMA CappedIs ==
  ASSUME NEW b, Proper(b)
  PROVE  LET d == Capped(b)
         IN  /\ Proper(d) /\ d.tokens <= Burst
             /\ b.tokens - d.tokens \in Nat
             /\ Credit(d) \in Nat
             /\ Credit(d) + 8 * NsecPerSec * (b.tokens - d.tokens) = Credit(b)
<1> DEFINE k == IF b.tokens > Burst THEN b.tokens - Burst ELSE 0
<1>1. Burst \in Nat /\ b.tokens \in Nat /\ b \in Bucket
  BY MeterAssumption DEF Proper, Bucket
<1>2. k \in Nat /\ k <= b.tokens /\ b.tokens - k <= Burst
      /\ b.tokens - k = IF b.tokens > Burst THEN Burst ELSE b.tokens
  BY <1>1
<1>3. Capped(b) = [b EXCEPT !.tokens = b.tokens - k]
  BY <1>1, <1>2 DEF Capped, Bucket
<1>. HIDE DEF k
<1>4. b.tokens - (b.tokens - k) = k
  BY <1>1, <1>2
<1>. QED
  BY <1>2, <1>3, <1>4, PayIs

LEMMA CreditBelowBurst ==
  ASSUME NEW b, Proper(b), b.tokens <= Burst
  PROVE  Credit(b) < 8 * NsecPerSec * Burst + 8 * NsecPerSec
<1> DEFINE N == NsecPerSec
           held == 8 * b.tokens + b.bits
           room == 8 * Burst + 7
<1>1. N \in Nat \ {0} /\ Burst \in Nat
  BY MeterAssumption
<1>2. /\ held \in Nat /\ room \in Nat /\ held <= room /\ b.rem \in Nat /\ b.rem < N
  BY <1>1 DEF Proper, Bucket
<1>3. Credit(b) = N * held + b.rem
  BY ProperCredit
<1>4. N * held <= N * room /\ N * held \in Nat /\ N * room \in Nat
  <2>. HIDE DEF held, room
  <2>. QED
    BY <1>1, <1>2, TimesMonotone, TimesNat
<1>5. N * room + N = 8 * N * Burst + 8 * N
  BY <1>1
<1>. HIDE DEF held, room
<1>6. Credit(b) < N * room + N
  BY <1>1, <1>2, <1>3, <1>4
<1>. QED
  BY <1>5, <1>6 DEF N

\* Refill and cap together.
LEMMA RefillAndCap ==
  ASSUME NEW b, Proper(b), NEW rate \in Nat, NEW gap \in Nat
  PROVE  LET f == Refilled(b, rate, gap)
             d == Capped(f)
         IN  /\ Proper(d) /\ d.tokens <= Burst /\ d.tokens \in Nat
             /\ f.tokens - d.tokens \in Nat
             /\ Credit(b) \in Nat /\ Credit(d) \in Nat
             /\ Credit(d) <= Credit(b) + rate * gap
             /\ Fits(b, rate, gap) =>
                  Credit(d) + 8 * NsecPerSec * (f.tokens - d.tokens) = Credit(b) + rate * gap
<1> DEFINE f == Refilled(b, rate, gap)
           d == Capped(f)
           cut == 8 * NsecPerSec * (f.tokens - d.tokens)
<1>1. /\ Proper(f)
      /\ Credit(f) \in Nat /\ Credit(b) \in Nat
      /\ Credit(f) <= Credit(b) + rate * gap
      /\ Fits(b, rate, gap) => Credit(f) = Credit(b) + rate * gap
  BY RefilledIs DEF Proper
<1>. HIDE DEF f
<1>2. /\ Proper(d) /\ d.tokens <= Burst
      /\ f.tokens - d.tokens \in Nat
      /\ Credit(d) \in Nat
      /\ Credit(d) + cut = Credit(f)
  BY <1>1, CappedIs
<1>3. cut \in Nat
  BY <1>2, MeterAssumption, TimesNat
<1>4. rate * gap \in Nat
  BY TimesNat
<1>. HIDE DEF d, cut
<1>5. Credit(d) <= Credit(b) + rate * gap
  BY <1>1, <1>2, <1>3, <1>4
<1>6. Fits(b, rate, gap) => Credit(d) + cut = Credit(b) + rate * gap
  BY <1>1, <1>2
<1>7. d.tokens \in Nat
  BY <1>2 DEF Proper, Bucket
<1>. QED
  BY <1>1, <1>2, <1>5, <1>6, <1>7 DEF f, d, cut

-----------------------------------------------------------------------------
\* One call of the meter

\* A bucket that is refilled, capped and then pays k bytes.
Served(b, d, rate, gap, k) ==
  /\ Proper(d) /\ d.tokens <= Burst
  /\ Credit(b) \in Nat /\ Credit(d) \in Nat
  /\ Credit(d) + 8 * NsecPerSec * k <= Credit(b) + rate * gap

LEMMA TypeIsProper ==
  ASSUME TypeOK
  PROVE  Proper(c) /\ Proper(p) /\ cir \in Nat /\ pir \in Nat
<1>1. Word \in Nat
  BY MeterAssumption
<1>. QED
  BY <1>1 DEF TypeOK, Proper

LEMMA CheckIs ==
  ASSUME TypeOK, NEW len \in Nat, NEW gap \in Nat, ColorBlindCheck(len, gap)
  PROVE  /\ l_time' = l_time + gap
         /\ green' - green \in Nat /\ green' \in Nat
         /\ yellow' - yellow \in Nat /\ yellow' \in Nat
         /\ lost' - lost \in Nat /\ lost' \in Nat /\ fits' \in BOOLEAN
         /\ Served(c, c', cir, gap, green' - green)
         /\ Served(p, p', pir, gap, yellow' - yellow)
         /\ fits' => /\ fits
                     /\ Credit(c') + 8 * NsecPerSec * (lost' - lost)
                          + 8 * NsecPerSec * (green' - green) = Credit(c) + cir * gap
<1> DEFINE fc == Refilled(c, cir, gap)
           cc == Capped(fc)
           pp == Capped(Refilled(p, pir, gap))
           cut == 8 * NsecPerSec * (fc.tokens - cc.tokens)
<1>1. /\ Proper(cc) /\ cc.tokens <= Burst /\ cc.tokens \in Nat
      /\ fc.tokens - cc.tokens \in Nat
      /\ Credit(c) \in Nat /\ Credit(cc) \in Nat
      /\ Credit(cc) <= Credit(c) + cir * gap
      /\ Fits(c, cir, gap) => Credit(cc) + cut = Credit(c) + cir * gap
  BY TypeIsProper, RefillAndCap
<1>2. /\ Proper(pp) /\ pp.tokens <= Burst /\ pp.tokens \in Nat
      /\ Credit(p) \in Nat /\ Credit(pp) \in Nat
      /\ Credit(pp) <= Credit(p) + pir * gap
  BY TypeIsProper, RefillAndCap
<1>3. /\ l_time' = l_time + gap
      /\ lost' = lost + (fc.tokens - cc.tokens)
      /\ fits' = (fits /\ Fits(c, cir, gap))
      /\ \/ /\ cc.tokens >= len
            /\ c' = [cc EXCEPT !.tokens = cc.tokens - len]
            /\ p' = pp /\ green' = green + len /\ yellow' = yellow
         \/ /\ pp.tokens >= len
            /\ c' = cc
            /\ p' = [pp EXCEPT !.tokens = pp.tokens - len]
            /\ yellow' = yellow + len /\ green' = green
         \/ c' = cc /\ p' = pp /\ green' = green /\ yellow' = yellow
  BY DEF ColorBlindCheck
<1>. HIDE DEF fc, cc, pp
<1>4. /\ lost' - lost \in Nat /\ lost' \in Nat /\ lost' - lost = fc.tokens - cc.tokens
      /\ fits' \in BOOLEAN /\ (fits' => fits /\ Fits(c, cir, gap))
  <2>1. lost \in Nat /\ fits \in BOOLEAN
    BY DEF TypeOK
  <2>2. lost' - lost \in Nat /\ lost' \in Nat /\ lost' - lost = fc.tokens - cc.tokens
    BY <1>1, <1>3, <2>1
  <2>3. fits' <=> fits /\ Fits(c, cir, gap)
    BY <1>3
  <2>4. fits' \in BOOLEAN
    BY <1>3
  <2>. QED
    BY <2>2, <2>3, <2>4
<1> DEFINE paid == Served(c, c', cir, gap, green' - green)
                   /\ Served(p, p', pir, gap, yellow' - yellow)
                   /\ Credit(c') + 8 * NsecPerSec * (green' - green) = Credit(cc)
                   /\ green' - green \in Nat /\ green' \in Nat
                   /\ yellow' - yellow \in Nat /\ yellow' \in Nat
<1>5. NsecPerSec \in Nat /\ green \in Nat /\ yellow \in Nat /\ Burst \in Nat
      /\ 8 * NsecPerSec * 0 = 0
  BY MeterAssumption DEF TypeOK
<1>6. ASSUME /\ cc.tokens >= len
             /\ c' = [cc EXCEPT !.tokens = cc.tokens - len]
             /\ p' = pp /\ green' = green + len /\ yellow' = yellow
      PROVE  paid
  <2>1. /\ Proper(c') /\ c'.tokens = cc.tokens - len /\ Credit(c') \in Nat
        /\ Credit(c') + 8 * NsecPerSec * len = Credit(cc)
    BY <1>1, <1>6, PayIs
  <2>2. green' - green = len /\ yellow' - yellow = 0
    BY <1>5, <1>6
  <2>3. c'.tokens <= Burst
    BY <1>1, <1>5, <2>1
  <2>4. Served(c, c', cir, gap, green' - green)
    BY <1>1, <2>1, <2>2, <2>3 DEF Served
  <2>5. Served(p, p', pir, gap, yellow' - yellow)
    BY <1>2, <1>5, <1>6, <2>2 DEF Served
  <2>. QED
    BY <1>5, <1>6, <2>1, <2>2, <2>4, <2>5
<1>7. ASSUME /\ pp.tokens >= len
             /\ c' = cc
             /\ p' = [pp EXCEPT !.tokens = pp.tokens - len]
             /\ yellow' = yellow + len /\ green' = green
      PROVE  paid
  <2>1. /\ Proper(p') /\ p'.tokens = pp.tokens - len /\ Credit(p') \in Nat
        /\ Credit(p') + 8 * NsecPerSec * len = Credit(pp)
    BY <1>2, <1>7, PayIs
  <2>2. yellow' - yellow = len /\ green' - green = 0
    BY <1>5, <1>7
  <2>3. p'.tokens <= Burst
    BY <1>2, <1>5, <2>1
  <2>4. Served(p, p', pir, gap, yellow' - yellow)
    BY <1>2, <2>1, <2>2, <2>3 DEF Served
  <2>5. Served(c, c', cir, gap, green' - green)
    BY <1>1, <1>5, <1>7, <2>2 DEF Served
  <2>6. Credit(c') + 8 * NsecPerSec * (green' - green) = Credit(cc)
    BY <1>1, <1>5, <1>7, <2>2
  <2>. QED
    BY <1>5, <1>7, <2>2, <2>4, <2>5, <2>6
<1>8. ASSUME c' = cc /\ p' = pp /\ green' = green /\ yellow' = yellow
      PROVE  paid
  <2>1. green' - green = 0 /\ yellow' - yellow = 0
    BY <1>5, <1>8
  <2>2. Served(c, c', cir, gap, green' - green)
    BY <1>1, <1>5, <1>8, <2>1 DEF Served
  <2>3. Served(p, p', pir, gap, yellow' - yellow)
    BY <1>2, <1>5, <1>8, <2>1 DEF Served
  <2>. QED
    BY <1>1, <1>5, <1>8, <2>1, <2>2, <2>3
<1>9. paid
  BY <1>3, <1>6, <1>7, <1>8
<1>10. ASSUME fits'
       PROVE  Credit(c') + 8 * NsecPerSec * (lost' - lost)
                + 8 * NsecPerSec * (green' - green) = Credit(c) + cir * gap
  <2> DEFINE price == 8 * NsecPerSec * (green' - green)
  <2>1. Credit(cc) + cut = Credit(c) + cir * gap
    BY <1>1, <1>4, <1>10
  <2>2. 8 * NsecPerSec * (lost' - lost) = cut
    BY <1>4
  <2>3. Credit(c') + price = Credit(cc)
    BY <1>9
  <2>4. price \in Nat /\ cut \in Nat /\ Credit(c') \in Nat
    BY <1>1, <1>5, <1>9, TimesNat DEF Served
  <2>. HIDE DEF price, cut
  <2>5. Credit(c') + cut + price = Credit(c) + cir * gap
    BY <2>1, <2>3, <2>4
  <2>. QED
    BY <2>2, <2>5 DEF price
<1>. QED
  BY <1>3, <1>4, <1>9, <1>10

-----------------------------------------------------------------------------
\* The theorems

LEMMA RatesFit ==
  ASSUME NEW g \in Nat, NEW m \in Nat
  PROVE  Cir(g) \in 0..(Word - 1) /\ Pir(g, m) \in 0..(Word - 1)
<1>1. Word \in Nat \ {0} /\ Kilo \in Nat /\ DefaultPir \in Nat /\ DefaultPir < Word
  BY MeterAssumption
<1>2. g * Kilo \in Nat /\ m * Kilo \in Nat
  BY <1>1, TimesNat
<1>3. /\ Cir(g) \in Nat /\ Cir(g) < Word
      /\ U64(m * Kilo) \in Nat
  BY <1>2, U64Is DEF Cir
<1>4. U64(m * Kilo) + Word - Cir(g) \in Nat
  BY <1>1, <1>3
<1>5. /\ U64(U64(m * Kilo) + Word - Cir(g)) \in Nat
      /\ U64(U64(m * Kilo) + Word - Cir(g)) < Word
  BY <1>4, U64Is
<1>. QED
  BY <1>1, <1>3, <1>5 DEF Pir

LEMMA FullBucketIs ==
  /\ Proper(FullBucket) /\ FullBucket.tokens = Burst
  /\ Credit(FullBucket) = 8 * NsecPerSec * Burst
<1>1. NsecPerSec \in Nat \ {0} /\ Burst \in Nat
  BY MeterAssumption
<1>2. Proper(FullBucket) /\ FullBucket.tokens = Burst /\ FullBucket.bits = 0 /\ FullBucket.rem = 0
  BY <1>1 DEF Proper, Bucket, FullBucket
<1>. QED
  BY <1>1, <1>2, TimesNat DEF Credit

IInv == TypeOK /\ RefillExact

LEMMA InitIInv == Init => IInv
<1>. SUFFICES ASSUME Init PROVE IInv
  OBVIOUS
<1>1. PICK g \in Rates, m \in Rates :
        /\ gbr = g /\ mbr = m
        /\ cir = Cir(g) /\ pir = Pir(g, m)
        /\ c = FullBucket /\ p = FullBucket
        /\ green = 0 /\ yellow = 0 /\ lost = 0 /\ fits = TRUE
        /\ l_time = 0 /\ started = 0 /\ oops = FALSE
  BY DEF Init
<1>2. g \in Nat /\ m \in Nat /\ NsecPerSec \in Nat /\ Burst \in Nat /\ Word \in Nat
  BY MeterAssumption
<1>3. cir \in 0..(Word - 1) /\ pir \in 0..(Word - 1) /\ cir \in Nat
  BY <1>1, <1>2, RatesFit
<1>4. TypeOK
  <2>1. /\ gbr \in Nat /\ mbr \in Nat /\ l_time \in Nat /\ started \in 0..l_time
        /\ green \in Nat /\ yellow \in Nat /\ lost \in Nat
    BY <1>1, <1>2
  <2>3. fits \in BOOLEAN /\ oops \in BOOLEAN
    BY <1>1
  <2>2. /\ c \in Bucket /\ c.tokens <= Burst /\ c.rem < NsecPerSec /\ c.bits < 8
        /\ p \in Bucket /\ p.tokens <= Burst /\ p.rem < NsecPerSec /\ p.bits < 8
    BY <1>1, <1>2, FullBucketIs DEF Proper
  <2>. QED
    BY <1>3, <2>1, <2>2, <2>3 DEF TypeOK
<1>5. Credit(c) = 8 * NsecPerSec * Burst /\ 8 * NsecPerSec * Burst \in Nat
  BY <1>1, <1>2, FullBucketIs
<1>6. 8 * NsecPerSec * (green + lost) = 0 /\ cir * (l_time - started) = 0
  BY <1>1, <1>2, <1>3
<1>7. RefillExact
  BY <1>5, <1>6 DEF RefillExact
<1>. QED
  BY <1>4, <1>7 DEF IInv

\* A configuration: both buckets full, the clock moved on.
LEMMA QerFillIs ==
  ASSUME TypeOK, NEW g \in Rates, NEW m \in Rates, NEW gap \in Gaps, QerFill(g, m, gap)
  PROVE  /\ TypeOK' /\ RefillExact'
         /\ l_time <= started' /\ l_time' = started'
         /\ cir' \in Nat /\ pir' \in Nat
         /\ Credit(c') = 8 * NsecPerSec * Burst /\ Credit(p') = 8 * NsecPerSec * Burst
         /\ green' = 0 /\ yellow' = 0
<1>1. /\ g \in Nat /\ m \in Nat /\ gap \in Nat /\ l_time \in Nat
      /\ NsecPerSec \in Nat /\ Burst \in Nat /\ Word \in Nat
  BY MeterAssumption DEF TypeOK
<1>2. /\ gbr' = g /\ mbr' = m /\ cir' = Cir(g) /\ pir' = Pir(g, m)
      /\ c' = FullBucket /\ p' = FullBucket
      /\ green' = 0 /\ yellow' = 0 /\ lost' = 0 /\ fits' = TRUE
      /\ l_time' = l_time + gap /\ started' = l_time' /\ oops' = oops
  BY DEF QerFill, Configured
<1>3. cir' \in 0..(Word - 1) /\ pir' \in 0..(Word - 1) /\ cir' \in Nat /\ pir' \in Nat
  BY <1>1, <1>2, RatesFit
<1>4. TypeOK'
  BY <1>1, <1>2, <1>3, FullBucketIs DEF TypeOK, Proper
<1>5. /\ Credit(c') = 8 * NsecPerSec * Burst /\ 8 * NsecPerSec * Burst \in Nat
      /\ Credit(p') = 8 * NsecPerSec * Burst
  BY <1>1, <1>2, FullBucketIs
<1>6. 8 * NsecPerSec * (green' + lost') = 0 /\ cir' * (l_time' - started') = 0
  BY <1>1, <1>2, <1>3
<1>7. RefillExact'
  BY <1>5, <1>6 DEF RefillExact, Credit
<1>. QED
  BY <1>1, <1>2, <1>3, <1>4, <1>5, <1>7

LEMMA PoliceType ==
  ASSUME TypeOK, NEW len \in Lengths, NEW gap \in Gaps, Police(len, gap)
  PROVE  TypeOK'
<1>1. len \in Nat /\ gap \in Nat
  BY MeterAssumption
<1>2. /\ ColorBlindCheck(len, gap) /\ UNCHANGED <<gbr, mbr, cir, pir, started, oops>>
  BY DEF Police, config
<1>3. /\ l_time' = l_time + gap /\ green' \in Nat /\ yellow' \in Nat /\ lost' \in Nat
      /\ fits' \in BOOLEAN
      /\ Served(c, c', cir, gap, green' - green)
      /\ Served(p, p', pir, gap, yellow' - yellow)
  BY <1>1, <1>2, CheckIs
<1>4. l_time' \in Nat /\ started' \in 0..l_time'
  BY <1>1, <1>2, <1>3 DEF TypeOK
<1>5. /\ c' \in Bucket /\ c'.tokens <= Burst /\ c'.rem < NsecPerSec /\ c'.bits < 8
      /\ p' \in Bucket /\ p'.tokens <= Burst /\ p'.rem < NsecPerSec /\ p'.bits < 8
  BY <1>3 DEF Served, Proper
<1>. QED
  BY <1>2, <1>3, <1>4, <1>5 DEF TypeOK

LEMMA PoliceExact ==
  ASSUME IInv, NEW len \in Lengths, NEW gap \in Gaps, Police(len, gap)
  PROVE  RefillExact'
<1> DEFINE byte == 8 * NsecPerSec
           elapsed == l_time - started
<1>1. /\ len \in Nat /\ gap \in Nat /\ byte \in Nat /\ Burst \in Nat
      /\ green \in Nat /\ lost \in Nat /\ cir \in Nat /\ elapsed \in Nat
  BY MeterAssumption, TypeIsProper DEF IInv, TypeOK
<1>2. ColorBlindCheck(len, gap) /\ UNCHANGED <<cir, started>>
  BY DEF Police, config
<1>3. /\ l_time' = l_time + gap
      /\ green' - green \in Nat /\ lost' - lost \in Nat /\ green' \in Nat /\ lost' \in Nat
      /\ fits' => fits /\ Credit(c') + byte * (lost' - lost) + byte * (green' - green)
                            = Credit(c) + cir * gap
      /\ Credit(c') \in Nat /\ Credit(c) \in Nat
  BY <1>1, <1>2, CheckIs DEF IInv, Served
<1>. SUFFICES ASSUME fits'
              PROVE  Credit(c') + byte * (green' + lost')
                       = byte * Burst + cir * (l_time' - started)
  BY <1>2 DEF RefillExact, Credit
<1>4. Credit(c) + byte * (green + lost) = byte * Burst + cir * elapsed
  BY <1>3 DEF IInv, RefillExact
<1>5. byte * (green' + lost') =
        byte * (green + lost) + (byte * (green' - green) + byte * (lost' - lost))
  <2>1. byte * ((green + lost) + ((green' - green) + (lost' - lost))) =
          byte * (green + lost) + byte * ((green' - green) + (lost' - lost))
    BY <1>1, <1>3, Distribute
  <2>2. byte * ((green' - green) + (lost' - lost)) =
          byte * (green' - green) + byte * (lost' - lost)
    BY <1>1, <1>3, Distribute
  <2>3. (green + lost) + ((green' - green) + (lost' - lost)) = green' + lost'
    BY <1>1, <1>3
  <2>. QED
    BY <2>1, <2>2, <2>3
<1>6. cir * (l_time' - started) = cir * elapsed + cir * gap
  <2>1. l_time' - started = elapsed + gap
    BY <1>1, <1>3 DEF IInv, TypeOK
  <2>. QED
    BY <1>1, <2>1, Distribute
<1>. HIDE DEF byte, elapsed
<1>7. /\ byte * (green + lost) \in Nat /\ byte * (green' - green) \in Nat
      /\ byte * (lost' - lost) \in Nat /\ byte * Burst \in Nat
      /\ cir * elapsed \in Nat /\ cir * gap \in Nat
  <2>1. green + lost \in Nat
    BY <1>1
  <2>. QED
    BY <1>1, <1>3, <2>1, TimesNat
<1>8. Credit(c') + byte * (lost' - lost) + byte * (green' - green) = Credit(c) + cir * gap
  BY <1>3
<1>. QED
  BY <1>3, <1>4, <1>5, <1>6, <1>7, <1>8

LEMMA StepIInv == IInv /\ [Next]_vars => IInv'
<1>. SUFFICES ASSUME IInv, [Next]_vars PROVE IInv'
  OBVIOUS
<1>1. CASE \E g, m \in Rates, gap \in Gaps : QerFill(g, m, gap)
  BY <1>1, QerFillIs DEF IInv
<1>2. CASE \E len \in Lengths, gap \in Gaps : Police(len, gap)
  BY <1>2, PoliceType, PoliceExact DEF IInv
<1>3. CASE PoliceOops
  BY <1>3 DEF PoliceOops, config, IInv, TypeOK, RefillExact, Credit
<1>4. CASE UNCHANGED vars
  BY <1>4 DEF vars, config, IInv, TypeOK, RefillExact, Credit
<1>. QED
  BY <1>1, <1>2, <1>3, <1>4 DEF Next

THEOREM Invariance == Spec => []IInv
  BY InitIInv, StepIInv, PTL DEF Spec

\* The meter's integers stay in range: in particular no bucket ever holds
\* more than a burst, for every rate, gap and word size.
THEOREM Typed == Spec => []TypeOK
<1>1. IInv => TypeOK
  BY DEF IInv
<1>. QED
  BY <1>1, Invariance, PTL

\* The carried remainders make the integer refill exact.
THEOREM Exact == Spec => []RefillExact
<1>1. IInv => RefillExact
  BY DEF IInv
<1>. QED
  BY <1>1, Invariance, PTL

\* One call of the meter serves each bucket as TokenBucket allows.
LEMMA PoliceServes ==
  ASSUME TypeOK, NEW len \in Lengths, NEW gap \in Gaps, Police(len, gap)
  PROVE  C!Serve /\ P!Serve
<1>1. len \in Nat /\ gap \in Nat /\ l_time \in Nat /\ started \in Nat
      /\ green \in Nat /\ yellow \in Nat
  BY MeterAssumption DEF TypeOK
<1>2. ColorBlindCheck(len, gap) /\ UNCHANGED <<cir, pir, started>>
  BY DEF Police, config
<1>3. /\ l_time' = l_time + gap /\ green' - green \in Nat /\ yellow' - yellow \in Nat
      /\ green' \in Nat /\ yellow' \in Nat
      /\ Served(c, c', cir, gap, green' - green)
      /\ Served(p, p', pir, gap, yellow' - yellow)
  BY <1>1, <1>2, CheckIs
<1>4. /\ l_time <= l_time' /\ l_time' - l_time = gap
      /\ green <= green' /\ yellow <= yellow'
  <2>1. \A m, n \in Nat : n - m \in Nat => m <= n
    OBVIOUS
  <2>2. green <= green' /\ yellow <= yellow'
    BY <1>1, <1>3, <2>1
  <2>. QED
    BY <1>1, <1>3, <2>2
<1>5. /\ Credit(c') + 8 * NsecPerSec * (green' - green) <= Credit(c) + cir * gap
      /\ Credit(p') + 8 * NsecPerSec * (yellow' - yellow) <= Credit(p) + pir * gap
      /\ Credit(c') < 8 * NsecPerSec * Burst + 8 * NsecPerSec
      /\ Credit(p') < 8 * NsecPerSec * Burst + 8 * NsecPerSec
  BY <1>3, CreditBelowBurst DEF Served
<1>6. Credit(c)' = Credit(c') /\ Credit(p)' = Credit(p')
  BY DEF Credit
<1>7. C!Serve
  BY <1>2, <1>4, <1>5, <1>6 DEF C!Serve, C!Full
<1>8. P!Serve
  BY <1>2, <1>4, <1>5, <1>6 DEF P!Serve, P!Full
<1>. QED
  BY <1>7, <1>8

\* The C bucket is a token bucket of the committed rate, whatever the word
\* size: remainders, wrapping products and the cap never hand out a byte
\* that the rate has not earned.
THEOREM CommittedBucket == Spec => CBucket
<1>1. Init => C!Init
  <2>. SUFFICES ASSUME Init PROVE C!Init
    OBVIOUS
  <2>1. TypeOK
    BY InitIInv DEF IInv
  <2>2. c = FullBucket /\ green = 0 /\ l_time = 0 /\ started = 0
    BY DEF Init
  <2>3. Credit(c) = 8 * NsecPerSec * Burst /\ cir \in Nat
    BY <2>1, <2>2, FullBucketIs, TypeIsProper
  <2>. QED
    BY <2>2, <2>3 DEF C!Init, C!Fresh, C!Full
<1>2. IInv /\ [Next]_vars => [C!Next]_C!bucket
  <2>. SUFFICES ASSUME IInv, [Next]_vars PROVE [C!Next]_C!bucket
    OBVIOUS
  <2>1. CASE \E g, m \in Rates, gap \in Gaps : QerFill(g, m, gap)
    <3>1. /\ l_time <= started' /\ l_time' = started' /\ cir' \in Nat
          /\ Credit(c') = 8 * NsecPerSec * Burst /\ green' = 0
      BY <2>1, QerFillIs DEF IInv
    <3>2. Credit(c)' = Credit(c')
      BY DEF Credit
    <3>. QED
      BY <3>1, <3>2 DEF C!Next, C!Configure, C!Fresh, C!Full
  <2>2. CASE \E len \in Lengths, gap \in Gaps : Police(len, gap)
    BY <2>2, PoliceServes DEF IInv, C!Next
  <2>3. CASE PoliceOops
    BY <2>3 DEF PoliceOops, config, C!bucket, Credit
  <2>4. CASE UNCHANGED vars
    BY <2>4 DEF vars, config, C!bucket, Credit
  <2>. QED
    BY <2>1, <2>2, <2>3, <2>4 DEF Next
<1>. QED
  BY <1>1, <1>2, Invariance, PTL DEF Spec, CBucket, C!Spec

\* The P bucket is one of the peak rate.
THEOREM PeakBucket == Spec => PBucket
<1>1. Init => P!Init
  <2>. SUFFICES ASSUME Init PROVE P!Init
    OBVIOUS
  <2>1. TypeOK
    BY InitIInv DEF IInv
  <2>2. p = FullBucket /\ yellow = 0 /\ l_time = 0 /\ started = 0
    BY DEF Init
  <2>3. Credit(p) = 8 * NsecPerSec * Burst /\ pir \in Nat
    BY <2>1, <2>2, FullBucketIs, TypeIsProper
  <2>. QED
    BY <2>2, <2>3 DEF P!Init, P!Fresh, P!Full
<1>2. IInv /\ [Next]_vars => [P!Next]_P!bucket
  <2>. SUFFICES ASSUME IInv, [Next]_vars PROVE [P!Next]_P!bucket
    OBVIOUS
  <2>1. CASE \E g, m \in Rates, gap \in Gaps : QerFill(g, m, gap)
    <3>1. /\ l_time <= started' /\ l_time' = started' /\ pir' \in Nat
          /\ Credit(p') = 8 * NsecPerSec * Burst /\ yellow' = 0
      BY <2>1, QerFillIs DEF IInv
    <3>2. Credit(p)' = Credit(p')
      BY DEF Credit
    <3>. QED
      BY <3>1, <3>2 DEF P!Next, P!Configure, P!Fresh, P!Full
  <2>2. CASE \E len \in Lengths, gap \in Gaps : Police(len, gap)
    BY <2>2, PoliceServes DEF IInv, P!Next
  <2>3. CASE PoliceOops
    BY <2>3 DEF PoliceOops, config, P!bucket, Credit
  <2>4. CASE UNCHANGED vars
    BY <2>4 DEF vars, config, P!bucket, Credit
  <2>. QED
    BY <2>1, <2>2, <2>3, <2>4 DEF Next
<1>. QED
  BY <1>1, <1>2, Invariance, PTL DEF Spec, PBucket, P!Spec

-----------------------------------------------------------------------------
\* What a bucket has let through

\* A bucket that has kept within one burst and its rate keeps within them when
\* it earns for a gap and pays for what it lets through.
LEMMA ServeConforms ==
  ASSUME NEW byte \in Nat, NEW full \in Nat, NEW rate \in Nat,
         NEW elapsed \in Nat, NEW gap \in Nat,
         NEW held \in Nat, NEW left \in Nat, NEW past \in Nat, NEW more \in Nat,
         held + byte * past <= full + rate * elapsed,
         left + byte * more <= held + rate * gap
  PROVE  left + byte * (past + more) <= full + rate * (elapsed + gap)
<1>1. /\ byte * (past + more) = byte * past + byte * more
      /\ rate * (elapsed + gap) = rate * elapsed + rate * gap
  BY Distribute
<1>2. /\ byte * past \in Nat /\ byte * more \in Nat
      /\ rate * elapsed \in Nat /\ rate * gap \in Nat
  BY TimesNat
<1>. QED
  BY <1>1, <1>2

\* Both buckets keep their promise over any step of the meter.
LEMMA StepConforms ==
  ASSUME IInv, C!Conforms, P!Conforms, [Next]_vars
  PROVE  C!Conforms' /\ P!Conforms'
<1> DEFINE byte == 8 * NsecPerSec
           full == byte * Burst
<1>1. byte \in Nat /\ full \in Nat /\ NsecPerSec \in Nat /\ Burst \in Nat
  BY MeterAssumption, TimesNat
<1>2. IInv'
  BY StepIInv
<1>3. /\ Credit(c) \in Nat /\ Credit(p) \in Nat /\ Credit(c') \in Nat /\ Credit(p') \in Nat
      /\ Credit(c)' = Credit(c') /\ Credit(p)' = Credit(p')
  <2>1. Proper(c) /\ Proper(p)
    BY TypeIsProper DEF IInv
  <2>2. Proper(c') /\ Proper(p')
    BY <1>2 DEF IInv, TypeOK, Proper
  <2>. QED
    BY <2>1, <2>2, ProperCredit DEF Credit
<1>4. /\ cir \in Nat /\ pir \in Nat /\ cir' \in Nat /\ pir' \in Nat
      /\ l_time \in Nat /\ started \in Nat /\ started <= l_time
      /\ green \in Nat /\ yellow \in Nat /\ green' \in Nat /\ yellow' \in Nat
  BY <1>2, MeterAssumption DEF IInv, TypeOK
<1>5. CASE \E g, m \in Rates, gap \in Gaps : QerFill(g, m, gap)
  <2>1. /\ l_time' = started' /\ started' \in Nat /\ green' = 0 /\ yellow' = 0
        /\ Credit(c') = full /\ Credit(p') = full
    BY <1>2, <1>5, QerFillIs DEF IInv, TypeOK
  <2>2. started' - started' = 0 /\ cir' * 0 = 0 /\ pir' * 0 = 0 /\ byte * 0 = 0
    <3>1. started' \in Nat
      BY <2>1
    <3>. HIDE DEF byte
    <3>. QED
      BY <1>1, <1>4, <3>1, TimesZero
  <2>. HIDE DEF byte
  <2>3. Credit(c') + byte * green' <= full + cir' * (l_time' - started')
        /\ Credit(p') + byte * yellow' <= full + pir' * (l_time' - started')
    BY <1>1, <2>1, <2>2
  <2>. QED
    BY <1>3, <2>3 DEF C!Conforms, P!Conforms, C!Full, P!Full, byte
<1>6. CASE \E len \in Lengths, gap \in Gaps : Police(len, gap)
  <2>1. PICK len \in Lengths, gap \in Gaps : Police(len, gap)
    BY <1>6
  <2>2. C!Serve /\ P!Serve
    BY <2>1, PoliceServes DEF IInv
  <2> DEFINE elapsed == l_time - started
             past == l_time' - l_time
             moreC == green' - green
             moreP == yellow' - yellow
  <2>3. /\ l_time <= l_time' /\ green <= green' /\ yellow <= yellow'
        /\ l_time' \in Nat
        /\ Credit(c') + byte * moreC <= Credit(c) + cir * past
        /\ Credit(p') + byte * moreP <= Credit(p) + pir * past
        /\ started' = started /\ cir' = cir /\ pir' = pir
    BY <1>2, <1>3, <2>2, <2>1 DEF C!Serve, P!Serve, Police, config, IInv, TypeOK
  <2>4. /\ elapsed \in Nat /\ past \in Nat /\ moreC \in Nat /\ moreP \in Nat
        /\ green' = green + moreC /\ yellow' = yellow + moreP
        /\ l_time' - started = elapsed + past
    <3>1. /\ elapsed \in Nat /\ l_time = started + elapsed
          /\ past \in Nat /\ l_time' = l_time + past
          /\ moreC \in Nat /\ green' = green + moreC
          /\ moreP \in Nat /\ yellow' = yellow + moreP
      BY <1>4, <2>3, MinusNat
    <3>2. (started + elapsed + past) - started = elapsed + past
      BY <1>4, <3>1
    <3>. QED
      BY <3>1, <3>2
  <2>5. /\ Credit(c) + byte * green <= full + cir * elapsed
        /\ Credit(p) + byte * yellow <= full + pir * elapsed
    BY DEF C!Conforms, P!Conforms, C!Full, P!Full
  <2>. HIDE DEF byte, full, elapsed, past, moreC, moreP
  <2>6. /\ Credit(c') + byte * (green + moreC) <= full + cir * (elapsed + past)
        /\ Credit(p') + byte * (yellow + moreP) <= full + pir * (elapsed + past)
    BY <1>1, <1>3, <1>4, <2>3, <2>4, <2>5, ServeConforms
  <2>7. /\ Credit(c') + byte * green' <= full + cir' * (l_time' - started')
        /\ Credit(p') + byte * yellow' <= full + pir' * (l_time' - started')
    BY <2>3, <2>4, <2>6
  <2>. QED
    BY <1>3, <2>7 DEF C!Conforms, P!Conforms, C!Full, P!Full, byte, full
<1>7. CASE PoliceOops
  BY <1>7 DEF PoliceOops, config, C!Conforms, P!Conforms, C!Full, P!Full, Credit
<1>8. CASE UNCHANGED vars
  BY <1>8 DEF vars, config, C!Conforms, P!Conforms, C!Full, P!Full, Credit
<1>. QED
  BY <1>5, <1>6, <1>7, <1>8 DEF Next

LEMMA InitConforms == Init => C!Conforms /\ P!Conforms
<1>. SUFFICES ASSUME Init PROVE C!Conforms /\ P!Conforms
  OBVIOUS
<1>1. TypeOK
  BY InitIInv DEF IInv
<1>2. /\ Credit(c) = 8 * NsecPerSec * Burst /\ Credit(p) = 8 * NsecPerSec * Burst
      /\ green = 0 /\ yellow = 0 /\ l_time = 0 /\ started = 0 /\ cir \in Nat /\ pir \in Nat
  BY <1>1, FullBucketIs, TypeIsProper DEF Init
<1>3. /\ 8 * NsecPerSec \in Nat /\ 8 * NsecPerSec * Burst \in Nat
      /\ 8 * NsecPerSec * 0 = 0 /\ cir * 0 = 0 /\ pir * 0 = 0 /\ 0 - 0 = 0
  BY <1>2, MeterAssumption, TimesNat, TimesZero
<1>. QED
  BY <1>2, <1>3 DEF C!Conforms, P!Conforms, C!Full, P!Full

\* Since its configuration the meter has marked green at most one burst more
\* than the committed rate, and yellow at most one burst more than the peak
\* rate, for every word size, rate, packet length and gap: the wraps of
\* trtcm_color_blind_check lose tokens and never make any.
THEOREM BucketsConform == Spec => [](C!Conforms /\ P!Conforms)
<1>1. IInv /\ (C!Conforms /\ P!Conforms) /\ [Next]_vars => (C!Conforms /\ P!Conforms)'
  BY StepConforms
<1>. QED
  BY <1>1, InitConforms, Invariance, PTL DEF Spec
=============================================================================
