------------------------------- MODULE TrTcm -------------------------------
(***************************************************************************)
(* The two-rate meter of a QER, one direction, as one CPU runs it: two     *)
(* token buckets refilled by integer arithmetic of fixed width, with the   *)
(* remainders of every division carried to the next packet.                *)
(*                                                                         *)
(* uint64_t values are integers modulo Word; NSEC_PER_SEC, the 1000 of     *)
(* kilobits and the default peak rate are constants.  green, yellow and    *)
(* lost are counters of the model, not of the code.                        *)
(***************************************************************************)
EXTENDS Naturals

CONSTANTS
  Word,       \* 2^64
  NsecPerSec,
  Kilo,       \* bits per second in one unit of a configured rate
  DefaultPir,
  Burst,      \* MTU * 20
  Rates,      \* guaranteed and maximum bit rates that messages carry
  Lengths,    \* packet lengths
  Gaps,       \* time between two calls
  Horizon     \* bound on the clock

ASSUME MeterAssumption ==
  /\ Word \in Nat \ {0} /\ NsecPerSec \in Nat \ {0} /\ Kilo \in Nat
  /\ DefaultPir \in Nat /\ Burst \in Nat
  /\ DefaultPir < Word /\ Burst < Word
  /\ Rates \subseteq Nat /\ Lengths \subseteq Nat /\ Gaps \subseteq Nat
  /\ Horizon \in Nat

VARIABLES
  gbr, mbr,   \* as configured
  cir, pir,   \* rates in bits per second
  l_time,     \* last refill, and the clock of the model
  c, p,       \* buckets: tokens in bytes, remainder, remainder_bits
  started,    \* when the meter was configured
  green, yellow,                  \* bytes let through by each bucket
  lost,       \* bytes that the burst limit has cut off the C bucket
  fits,       \* no product of the C bucket has exceeded a word
  oops        \* division by zero

config == <<gbr, mbr, cir, pir, started>>
vars == <<config, l_time, c, p, green, yellow, lost, fits, oops>>

U64(n) == n % Word

Bucket == [tokens : Nat, rem : Nat, bits : Nat]
FullBucket == [tokens |-> Burst, rem |-> 0, bits |-> 0]

TypeOK ==
  /\ gbr \in Nat /\ mbr \in Nat
  /\ cir \in 0..(Word - 1) /\ pir \in 0..(Word - 1)
  /\ l_time \in Nat /\ started \in 0..l_time
  /\ c \in Bucket /\ c.tokens <= Burst /\ c.rem < NsecPerSec /\ c.bits < 8
  /\ p \in Bucket /\ p.tokens <= Burst /\ p.rem < NsecPerSec /\ p.bits < 8
  /\ green \in Nat /\ yellow \in Nat /\ lost \in Nat
  /\ fits \in BOOLEAN /\ oops \in BOOLEAN

\* trtcm_param_config.
Cir(g) == U64(g * Kilo)
Pir(g, m) ==
  LET excess == U64(U64(m * Kilo) + Word - Cir(g))
  IN  IF excess = 0 THEN DefaultPir ELSE excess

\* New parameters without trtcm_runtime_config for the P bucket.
Mut_Configured(g, m) ==
  /\ gbr' = g /\ mbr' = m
  /\ cir' = Cir(g) /\ pir' = Pir(g, m)
  /\ c' = FullBucket /\ p' = p
  /\ green' = 0 /\ yellow' = 0 /\ lost' = 0 /\ fits' = TRUE

\* qer_fill configures the meter anew and fills it, for a new QER and for a
\* replaced one.
Configured(g, m) ==
  /\ gbr' = g /\ mbr' = m
  /\ cir' = Cir(g) /\ pir' = Pir(g, m)
  /\ c' = FullBucket /\ p' = FullBucket
  /\ green' = 0 /\ yellow' = 0 /\ lost' = 0 /\ fits' = TRUE

Init ==
  \E g, m \in Rates :
    /\ gbr = g /\ mbr = m
    /\ cir = Cir(g) /\ pir = Pir(g, m)
    /\ c = FullBucket /\ p = FullBucket
    /\ green = 0 /\ yellow = 0 /\ lost = 0 /\ fits = TRUE
    /\ l_time = 0 /\ started = 0 /\ oops = FALSE

QerFill(g, m, gap) ==
  /\ ~oops
  /\ l_time + gap <= Horizon
  /\ l_time' = l_time + gap
  /\ started' = l_time'
  /\ Configured(g, m)
  /\ UNCHANGED oops

\* The refill with the odd bits kept and also paid out.
Mut_BitsKept(b, rate, gap) ==
  LET rem == U64(b.rem + U64(gap * (rate % NsecPerSec)))
      bits == U64(U64(gap * (rate \div NsecPerSec)) + rem \div NsecPerSec + b.bits)
  IN  [tokens |-> U64(b.tokens + bits \div 8), rem |-> rem % NsecPerSec, bits |-> bits]

\* The refill with the remainder of the last one forgotten.
Mut_RemainderForgotten(b, rate, gap) ==
  LET rem == U64(gap * (rate % NsecPerSec))
      bits == U64(U64(gap * (rate \div NsecPerSec)) + rem \div NsecPerSec + b.bits)
  IN  [tokens |-> U64(b.tokens + bits \div 8), rem |-> rem % NsecPerSec, bits |-> bits % 8]

\* The refill of one bucket for a gap, before its cap: the remainder of the
\* nanosecond division and the odd bits stay behind for the next one.
Refilled(b, rate, gap) ==
  LET rem == U64(b.rem + U64(gap * (rate % NsecPerSec)))
      bits == U64(U64(gap * (rate \div NsecPerSec)) + rem \div NsecPerSec + b.bits)
  IN  [tokens |-> U64(b.tokens + bits \div 8), rem |-> rem % NsecPerSec, bits |-> bits % 8]

\* The refill without its cap.
Mut_Capped(b) == b

Capped(b) == [b EXCEPT !.tokens = IF @ > Burst THEN Burst ELSE @]

\* Every product and sum of the refill is below a word.
Fits(b, rate, gap) ==
  LET rem == b.rem + gap * (rate % NsecPerSec)
      bits == gap * (rate \div NsecPerSec) + rem \div NsecPerSec + b.bits
  IN  rem < Word /\ bits < Word /\ b.tokens + bits \div 8 < Word

\* trtcm_color_blind_check: refill both buckets, then take the packet from
\* the first that can pay for it.
ColorBlindCheck(len, gap) ==
  LET fc == Refilled(c, cir, gap)
      cc == Capped(fc)
      pp == Capped(Refilled(p, pir, gap))
  IN  /\ l_time' = l_time + gap
      /\ lost' = lost + (fc.tokens - cc.tokens)
      /\ fits' = (fits /\ Fits(c, cir, gap))
      /\ \/ /\ cc.tokens >= len
            /\ c' = [cc EXCEPT !.tokens = @ - len]
            /\ p' = pp
            /\ green' = green + len
            /\ UNCHANGED yellow
         \/ /\ cc.tokens < len
            /\ pp.tokens >= len
            /\ c' = cc
            /\ p' = [pp EXCEPT !.tokens = @ - len]
            /\ yellow' = yellow + len
            /\ UNCHANGED green
         \/ /\ cc.tokens < len
            /\ pp.tokens < len
            /\ c' = cc
            /\ p' = pp
            /\ UNCHANGED <<green, yellow>>

\* gtp5g_rx and gtp5g_handle_skb_ipv4 divide by the guaranteed rate before
\* they meter; a division by zero is a fault or a zero, by the CPU's choice.
Police(len, gap) ==
  /\ ~oops
  /\ l_time + gap <= Horizon
  /\ ColorBlindCheck(len, gap)
  /\ UNCHANGED <<config, oops>>

PoliceOops ==
  /\ ~oops
  /\ gbr * Kilo = 0
  /\ oops' = TRUE
  /\ UNCHANGED <<config, l_time, c, p, green, yellow, lost, fits>>

Next ==
  \/ \E g, m \in Rates, gap \in Gaps : QerFill(g, m, gap)
  \/ \E len \in Lengths, gap \in Gaps : Police(len, gap)
  \/ PoliceOops

Spec == Init /\ [][Next]_vars

-----------------------------------------------------------------------------
\* Properties

\* Credit in bits times nanoseconds per second.
Credit(b) == 8 * NsecPerSec * b.tokens + NsecPerSec * b.bits + b.rem

C == INSTANCE TokenBucket WITH
       Byte <- 8 * NsecPerSec, rate <- cir, since <- started, clock <- l_time,
       credit <- Credit(c), passed <- green
P == INSTANCE TokenBucket WITH
       Byte <- 8 * NsecPerSec, rate <- pir, since <- started, clock <- l_time,
       credit <- Credit(p), passed <- yellow

\* The C bucket of trtcm_color_blind_check, with its remainders, its two
\* divisions and its wrapping products, is a token bucket of rate cir: what
\* it marks green never exceeds one burst plus the committed rate.
CBucket == C!Spec

\* The same of the P bucket and what it marks yellow.
PBucket == P!Spec

\* No fraction of a bit is ever lost to a division: unless a product has
\* exceeded 64 bits, what the C bucket has earned since its configuration is
\* what it holds, has let through and has cut off at the burst limit.
RefillExact ==
  fits => Credit(c) + 8 * NsecPerSec * (green + lost)
            = 8 * NsecPerSec * Burst + cir * (l_time - started)

\* The two buckets together let through at most two bursts above the maximum
\* rate, when a guaranteed and no lower maximum rate are configured.
MbrHonoured ==
  0 < gbr /\ gbr <= mbr =>
    8 * NsecPerSec * (green + yellow)
      <= 16 * NsecPerSec * Burst + mbr * Kilo * (l_time - started)
=============================================================================
