--------------------------- MODULE FarUpdateProofs ---------------------------
(***************************************************************************)
(* Proofs about what a change of the rules means to the packets under way, *)
(* for every set of rules, every way they name each other, and any number  *)
(* of sockets and tunnels.                                                 *)
(***************************************************************************)
EXTENDS FarUpdate, TLAPS

-----------------------------------------------------------------------------
\* The inductive invariant

\* The tables lead to every PDR that carries packets.
LiveListed == \A p \in Pdr : pdr[p].st = "live" => pdr[p].listed

SndWhole == snd # NoSnd => snd.pdr \in Pdr /\ snd.sock \in Sock

\* The FAR whose header a request is writing.
Writing(f) == req.at = "peer" /\ req.far = f

\* A header leads to one tunnel, and to one that has not ended, unless it is
\* being written; without a header no tunnel has ended.
HeadersWhole ==
  \A f \in Far :
    /\ far[f].hdr => /\ far[f].param
                     /\ far[f].teid \in Tunnel /\ far[f].teid \notin ended[f]
    /\ far[f].hdr /\ ~Writing(f) => far[f].peer = far[f].teid
    /\ ~far[f].hdr => ended[f] = {}

\* The TEID is written first; the old tunnel is kept for its end marker.
ReqWhole ==
  /\ req.at # "none" => /\ req.far \in Far
                        /\ far[req.far].hdr /\ far[req.far].teid = req.new
                        /\ req.mark => req.old \in Tunnel
  /\ req.at = "marker" => req.mark

\* The TEID that the packet under way will carry, as it is now.
TeidNow == IF pkt.teid = 0 THEN far[pkt.far].teid ELSE pkt.teid

PktWhole ==
  pkt # NoPkt =>
    /\ pkt.far \in Far
    /\ pkt.teid = 0 => far[pkt.far].hdr
    /\ TeidNow \notin pkt.ended
    /\ ~pkt.overlap => pkt.peer = TeidNow

IInv ==
  /\ TypeOK
  /\ SocketsExact /\ SndWhole
  /\ LiveListed /\ BufferReady
  /\ HeadersWhole /\ ReqWhole /\ PktWhole /\ TunnelsWhole

SockInv == SocketsExact /\ SndWhole /\ LiveListed
TunInv == HeadersWhole /\ ReqWhole /\ PktWhole /\ TunnelsWhole

-----------------------------------------------------------------------------
\* Lemmas about the rules and the sockets

LEMMA SetupIs ==
  ASSUME TypeOK
  PROVE  \A p \in Pdr : setup.far[p] \in Far
<1>1. setup \in Setups
  BY FarUpdateAssumption DEF TypeOK
<1>. QED
  BY <1>1 DEF Setups

LEMMA TunnelIs == \A t \in Tunnel : t # 0 /\ t \in Header
  BY FarUpdateAssumption DEF Header

\* Lists lead to PDRs.
LEMMA ListsOfPdrs ==
  /\ \A f : OfFar(f) \in SUBSET Pdr
  /\ \A r : OfRule(r) \in SUBSET Pdr
  BY DEF OfFar, OfRule

\* What SocketsExact says of one socket.
LEMMA SocketsAre ==
  ASSUME TypeOK
  PROVE  SocketsExact <=>
           /\ \A s \in Sock : s \in open <=> s \in lost \/ \E p \in Pdr : pdr[p].sock = s
           /\ \A p, q \in Pdr : pdr[p].sock # None =>
                pdr[p].sock \notin lost /\ (pdr[q].sock = pdr[p].sock => q = p)
           /\ snd # NoSnd /\ ~snd.torn => snd.sock \in open /\ pdr[snd.pdr].sock = snd.sock
<1>1. None \notin Sock
  BY FarUpdateAssumption
<1>2. \A p \in Pdr : pdr[p].sock \in Sock \cup {None}
  BY DEF TypeOK, PdrType
<1>3. open = ({pdr[p].sock : p \in Pdr} \ {None}) \cup lost
        <=> \A s \in Sock : s \in open <=> s \in lost \/ \E p \in Pdr : pdr[p].sock = s
  <2> DEFINE held == {pdr[p].sock : p \in Pdr} \ {None}
  <2>1. \A s \in Sock : s \in held <=> \E p \in Pdr : pdr[p].sock = s
    BY <1>1
  <2>2. open \in SUBSET Sock /\ lost \in SUBSET Sock /\ held \in SUBSET Sock
    BY <1>2 DEF TypeOK
  <2>. HIDE DEF held
  <2>3. open = held \cup lost <=> \A s \in Sock : s \in open <=> s \in lost \/ s \in held
    BY <2>2
  <2>. QED
    BY <2>1, <2>3 DEF held
<1>. QED
  BY <1>3 DEF SocketsExact

\* The same of the next state.
LEMMA SocketsAreNext ==
  ASSUME pdr' \in [Pdr -> PdrType], open' \in SUBSET Sock, lost' \in SUBSET Sock,
         \A s \in Sock : s \in open' <=> s \in lost' \/ \E p \in Pdr : pdr'[p].sock = s,
         \A p, q \in Pdr : pdr'[p].sock # None =>
           pdr'[p].sock \notin lost' /\ (pdr'[q].sock = pdr'[p].sock => q = p),
         snd' # NoSnd /\ ~snd'.torn => snd'.sock \in open' /\ pdr'[snd'.pdr].sock = snd'.sock
  PROVE  SocketsExact'
<1>1. None \notin Sock
  BY FarUpdateAssumption
<1>2. \A p \in Pdr : pdr'[p].sock \in Sock \cup {None}
  BY DEF PdrType
<1>3. open' = ({pdr'[p].sock : p \in Pdr} \ {None}) \cup lost'
  BY <1>1, <1>2
<1>. QED
  BY <1>3 DEF SocketsExact

\* The sockets of the PDRs R are closed, and new ones may take their place; a
\* packet handler that sends on one of those is torn.
SocketMove(R, gone) ==
  /\ gone = {pdr[p].sock : p \in R} \ {None}
  /\ pdr' \in [Pdr -> PdrType] /\ open' \in SUBSET Sock /\ UNCHANGED lost
  /\ \A p \in Pdr \ R : pdr'[p].sock = pdr[p].sock
  /\ \A p \in R : pdr'[p].sock # None => pdr'[p].sock \notin open \ gone
  /\ \A p, q \in R : pdr'[p].sock # None /\ pdr'[q].sock = pdr'[p].sock => q = p
  /\ open' = (open \ gone) \cup ({pdr'[p].sock : p \in R} \ {None})
  /\ snd' = [snd EXCEPT !.torn = @ \/ (snd.sock # None /\ snd.sock \in gone)]

\* Such a move leaves every open socket with one owner.
LEMMA SocketsMove ==
  ASSUME TypeOK, SocketsExact, SndWhole, NEW R \in SUBSET Pdr, NEW gone,
         SocketMove(R, gone)
  PROVE  SocketsExact' /\ SndWhole' /\ snd' \in SndType
<1>. USE DEF SocketMove
<1>1. None \notin Sock /\ None \notin Pdr
  BY FarUpdateAssumption
<1>2. /\ \A s \in Sock : s \in open <=> s \in lost \/ \E p \in Pdr : pdr[p].sock = s
      /\ \A p, q \in Pdr : pdr[p].sock # None =>
           pdr[p].sock \notin lost /\ (pdr[q].sock = pdr[p].sock => q = p)
      /\ snd # NoSnd /\ ~snd.torn => snd.sock \in open /\ pdr[snd.pdr].sock = snd.sock
  BY SocketsAre
<1>3. /\ \A p \in Pdr : pdr[p].sock \in Sock \cup {None}
      /\ \A p \in Pdr : pdr'[p].sock \in Sock \cup {None}
  BY DEF TypeOK, PdrType
<1>4. \A s \in lost : s \notin gone
  BY <1>2
<1>5. \A p \in Pdr \ R : pdr[p].sock \notin gone
  BY <1>2
<1>6. \A s \in Sock : s \in open' <=> s \in lost' \/ \E p \in Pdr : pdr'[p].sock = s
  <2>1. ASSUME NEW s \in Sock, s \in open'
        PROVE  s \in lost' \/ \E p \in Pdr : pdr'[p].sock = s
    <3>1. CASE \E p \in R : pdr'[p].sock = s
      BY <3>1
    <3>2. CASE s \in open \ gone
      <4>1. s # None
        BY <1>1
      <4>2. CASE s \in lost
        BY <4>2
      <4>3. CASE \E p \in Pdr : pdr[p].sock = s
        <5>1. PICK p \in Pdr : pdr[p].sock = s
          BY <4>3
        <5>2. p \notin R
          BY <3>2, <4>1, <5>1
        <5>. QED
          BY <5>1, <5>2
      <4>. QED
        BY <1>2, <3>2, <4>2, <4>3
    <3>. QED
      BY <2>1, <3>1, <3>2
  <2>2. ASSUME NEW s \in Sock, s \in lost'
        PROVE  s \in open'
    BY <1>2, <1>4, <2>2
  <2>3. ASSUME NEW s \in Sock, NEW p \in Pdr, pdr'[p].sock = s
        PROVE  s \in open'
    <3>1. CASE p \in R
      BY <1>1, <2>3, <3>1
    <3>2. CASE p \notin R
      <4>1. pdr[p].sock = s /\ s \in open /\ s \notin gone
        BY <1>2, <1>5, <2>3, <3>2
      <4>. QED
        BY <4>1
    <3>. QED
      BY <3>1, <3>2
  <2>. QED
    BY <2>1, <2>2, <2>3
<1>7. ASSUME NEW p \in Pdr, NEW q \in Pdr, pdr'[p].sock # None
      PROVE  pdr'[p].sock \notin lost' /\ (pdr'[q].sock = pdr'[p].sock => q = p)
  <2>1. CASE p \in R
    <3>1. pdr'[p].sock \notin open \ gone
      BY <1>7, <2>1
    <3>2. pdr'[p].sock \in Sock
      BY <1>3, <1>7
    <3>3. pdr'[p].sock \notin lost
      BY <1>2, <1>4, <3>1, <3>2
    <3>4. CASE q \in R
      BY <1>7, <2>1, <3>3, <3>4
    <3>5. CASE q \notin R
      <4>1. pdr'[q].sock = pdr[q].sock /\ pdr[q].sock \notin gone
        BY <1>5, <3>5
      <4>2. pdr[q].sock = pdr'[p].sock => pdr[q].sock \in open
        BY <1>2, <3>2
      <4>. QED
        BY <3>1, <3>3, <4>1, <4>2
    <3>. QED
      BY <3>4, <3>5
  <2>2. CASE p \notin R
    <3>1. pdr'[p].sock = pdr[p].sock /\ pdr[p].sock \notin gone /\ pdr[p].sock \in Sock
      BY <1>3, <1>5, <1>7, <2>2
    <3>2. pdr[p].sock \notin lost /\ pdr[p].sock \in open
      BY <1>2, <1>7, <3>1
    <3>3. CASE q \in R
      BY <1>7, <3>1, <3>2, <3>3
    <3>4. CASE q \notin R
      BY <1>2, <1>7, <3>1, <3>2, <3>4
    <3>. QED
      BY <3>3, <3>4
  <2>. QED
    BY <2>1, <2>2
<1>8. /\ snd' \in SndType /\ snd'.pdr = snd.pdr /\ snd'.sock = snd.sock
      /\ snd'.torn = (snd.torn \/ (snd.sock # None /\ snd.sock \in gone))
  BY DEF TypeOK, SndType
<1>9. snd = NoSnd => snd' = NoSnd
  <2>. SUFFICES ASSUME snd = NoSnd PROVE snd' = NoSnd
    OBVIOUS
  <2>1. snd.sock = None /\ snd.pdr = None /\ snd.torn = FALSE
    BY DEF NoSnd
  <2>2. snd'.sock = None /\ snd'.pdr = None /\ snd'.torn = FALSE
    BY <1>8, <2>1
  <2>. QED
    BY <1>8, <2>2 DEF NoSnd, SndType
<1>10. SndWhole'
  BY <1>8, <1>9 DEF SndWhole
<1>11. snd' # NoSnd /\ ~snd'.torn => snd'.sock \in open' /\ pdr'[snd'.pdr].sock = snd'.sock
  <2>. SUFFICES ASSUME snd' # NoSnd, ~snd'.torn
                PROVE  snd'.sock \in open' /\ pdr'[snd'.pdr].sock = snd'.sock
    OBVIOUS
  <2>1. snd # NoSnd /\ ~snd.torn /\ snd.sock \notin gone
    BY <1>1, <1>8, <1>9 DEF SndWhole
  <2>2. snd.sock \in open /\ pdr[snd.pdr].sock = snd.sock /\ snd.pdr \in Pdr /\ snd.sock # None
    BY <1>1, <1>2, <2>1 DEF SndWhole
  <2>3. snd.pdr \notin R
    BY <2>1, <2>2
  <2>. QED
    BY <1>8, <2>1, <2>2, <2>3
<1>12. lost' \in SUBSET Sock
  BY DEF TypeOK
<1>. QED
  BY <1>6, <1>7, <1>8, <1>10, <1>11, <1>12, SocketsAreNext

\* Nothing happens to a socket.
LEMMA SocketsSame ==
  ASSUME TypeOK, SocketsExact, SndWhole, pdr' \in [Pdr -> PdrType],
         \A p \in Pdr : pdr'[p].sock = pdr[p].sock, UNCHANGED <<open, lost, snd>>
  PROVE  SocketsExact' /\ SndWhole'
<1>1. SndWhole'
  BY DEF SndWhole
<1>2. /\ \A s \in Sock : s \in open <=> s \in lost \/ \E p \in Pdr : pdr[p].sock = s
      /\ \A p, q \in Pdr : pdr[p].sock # None =>
           pdr[p].sock \notin lost /\ (pdr[q].sock = pdr[p].sock => q = p)
      /\ snd # NoSnd /\ ~snd.torn => snd.sock \in open /\ pdr[snd.pdr].sock = snd.sock
  BY SocketsAre
<1>3. snd' # NoSnd /\ ~snd'.torn => snd'.sock \in open' /\ pdr'[snd'.pdr].sock = snd'.sock
  BY <1>2 DEF SndWhole
<1>4. open' \in SUBSET Sock /\ lost' \in SUBSET Sock
  BY DEF TypeOK
<1>. QED
  BY <1>1, <1>2, <1>3, <1>4, SocketsAreNext

-----------------------------------------------------------------------------
\* unix_sock_client_update and unix_sock_client_delete of several PDRs

\* unix_sock_client_update of the PDRs S, spelled out: which sockets there are,
\* and that no two PDRs are given the same one, nor one that is open.
LEMMA ClientUpdateOpens ==
  ASSUME TypeOK, NEW S \in SUBSET Pdr, NEW fars, ClientUpdate(S, fars)
  PROVE  LET R == {p \in S : pdr[p].path # "netlink"}
         IN  /\ pdr' \in [Pdr -> PdrType] /\ open' \in SUBSET Sock /\ UNCHANGED lost
             /\ excused' \in SUBSET Pdr /\ snd' = Torn(S)
             /\ open' = (open \ Closed(S)) \cup ({pdr'[p].sock : p \in R} \ {None})
             /\ \A p, q \in R : pdr'[p].sock # None /\ pdr'[q].sock = pdr'[p].sock => q = p
             /\ \A p \in R : pdr'[p].sock # None => pdr'[p].sock \notin open \ Closed(S)
             /\ \A p \in Pdr \ R : pdr'[p] = pdr[p]
             /\ \A p \in Pdr : /\ pdr'[p].st = pdr[p].st /\ pdr'[p].path = pdr[p].path
                               /\ pdr'[p].listed = pdr[p].listed
             /\ \A p \in Pdr \ S : p \in excused => p \in excused'
             /\ \A p \in S : pdr[p].st = "live" /\ pdr[p].path = "unix" /\ Wants(fars, p) =>
                  pdr'[p].sock # None \/ p \in excused'
<1> DEFINE R == {p \in S : pdr[p].path # "netlink"}
           tries == {p \in R : Wants(fars, p)}
           gone == Closed(S)
<1>0. PICK ok \in SUBSET {p \in tries : pdr[p].path = "unix"} :
        \E new \in Opened(S, ok) :
          /\ pdr' = [p \in Pdr |-> IF p \notin R THEN pdr[p]
                                   ELSE [pdr[p] EXCEPT !.sock = IF p \in ok THEN new[p] ELSE None]]
          /\ open' = (open \ gone) \cup Range(new)
          /\ snd' = Torn(S)
          /\ excused' = (excused \ R) \cup Alive(tries \ ok)
          /\ UNCHANGED lost
  BY DEF ClientUpdate
<1>1. PICK new \in Opened(S, ok) :
        /\ pdr' = [p \in Pdr |-> IF p \notin R THEN pdr[p]
                                 ELSE [pdr[p] EXCEPT !.sock = IF p \in ok THEN new[p] ELSE None]]
        /\ open' = (open \ gone) \cup Range(new)
        /\ snd' = Torn(S)
        /\ excused' = (excused \ R) \cup Alive(tries \ ok)
        /\ UNCHANGED lost
  BY <1>0
<1>2. R \in SUBSET Pdr /\ ok \in SUBSET R /\ gone = {pdr[p].sock : p \in R} \ {None}
  BY DEF Closed
<1>3. new \in [ok -> Sock \ (open \ gone)] /\ \A p, q \in ok : new[p] = new[q] => p = q
  BY <1>1 DEF Opened, IsInjective
<1>4. None \notin Sock
  BY FarUpdateAssumption
<1>. HIDE DEF gone
<1>5. \A p \in R : /\ pdr'[p] \in PdrType
                   /\ pdr'[p].sock = IF p \in ok THEN new[p] ELSE None
                   /\ pdr'[p].st = pdr[p].st /\ pdr'[p].path = pdr[p].path
                   /\ pdr'[p].listed = pdr[p].listed
  <2>1. ASSUME NEW p \in R
        PROVE  /\ pdr'[p] \in PdrType
               /\ pdr'[p].sock = IF p \in ok THEN new[p] ELSE None
               /\ pdr'[p].st = pdr[p].st /\ pdr'[p].path = pdr[p].path
               /\ pdr'[p].listed = pdr[p].listed
    <3>1. PICK x \in Sock \cup {None} : x = IF p \in ok THEN new[p] ELSE None
      BY <1>3
    <3>2. pdr'[p] = [pdr[p] EXCEPT !.sock = x]
      BY <1>1, <1>2, <3>1
    <3>3. pdr[p] \in PdrType
      BY <1>2 DEF TypeOK
    <3>4. /\ [pdr[p] EXCEPT !.sock = x] \in PdrType
          /\ [pdr[p] EXCEPT !.sock = x].sock = x
          /\ [pdr[p] EXCEPT !.sock = x].st = pdr[p].st
          /\ [pdr[p] EXCEPT !.sock = x].path = pdr[p].path
          /\ [pdr[p] EXCEPT !.sock = x].listed = pdr[p].listed
      BY <3>3 DEF PdrType
    <3>. QED
      BY <3>1, <3>2, <3>4
  <2>. QED
    BY <2>1
<1>6. \A p \in Pdr \ R : pdr'[p] = pdr[p]
  BY <1>1
<1>7. pdr' \in [Pdr -> PdrType]
  <2>1. \A p \in Pdr : pdr'[p] \in PdrType
    BY <1>5, <1>6 DEF TypeOK
  <2>2. pdr' = [p \in Pdr |-> pdr'[p]]
    BY <1>1
  <2>. QED
    BY <2>1, <2>2
<1>8. Range(new) = {pdr'[p].sock : p \in R} \ {None}
  <2>1. Range(new) = {new[p] : p \in ok}
    BY <1>3 DEF Range
  <2>2. {pdr'[p].sock : p \in R} \ {None} = {new[p] : p \in ok}
    BY <1>2, <1>3, <1>4, <1>5
  <2>. QED
    BY <2>1, <2>2
<1>9. Range(new) \in SUBSET Sock
  BY <1>3 DEF Range
<1>10. open' \in SUBSET Sock
  BY <1>1, <1>9 DEF TypeOK
<1>11. \A p, q \in R : pdr'[p].sock # None /\ pdr'[q].sock = pdr'[p].sock => q = p
  BY <1>3, <1>4, <1>5
<1>12. \A p \in R : pdr'[p].sock # None => pdr'[p].sock \notin open \ gone
  BY <1>3, <1>5
<1>15. excused' \in SUBSET Pdr
  BY <1>1, <1>2 DEF Alive, TypeOK
<1>16. \A p \in Pdr : /\ pdr'[p].st = pdr[p].st /\ pdr'[p].path = pdr[p].path
                        /\ pdr'[p].listed = pdr[p].listed
  BY <1>5, <1>6
<1>17. \A p \in Pdr \ S : p \in excused => p \in excused'
  BY <1>1
<1>18. ASSUME NEW p \in S, pdr[p].st = "live", pdr[p].path = "unix", Wants(fars, p)
       PROVE  pdr'[p].sock # None \/ p \in excused'
  <2>1. p \in tries
    BY <1>18
  <2>2. CASE p \in ok
    BY <1>3, <1>4, <1>5, <2>1, <2>2
  <2>3. CASE p \notin ok
    BY <1>1, <1>18, <2>1, <2>3 DEF Alive
  <2>. QED
    BY <2>2, <2>3
<1>19. open' = (open \ gone) \cup ({pdr'[p].sock : p \in R} \ {None})
  BY <1>1, <1>8
<1>. QED
  BY <1>1, <1>6, <1>7, <1>10, <1>11, <1>12, <1>15, <1>16, <1>17, <1>18, <1>19 DEF gone

\* The PDRs of S as they are after their sockets have been looked at.
LEMMA ClientUpdateIs ==
  ASSUME TypeOK, SockInv, NEW S \in SUBSET Pdr, NEW fars, ClientUpdate(S, fars)
  PROVE  /\ pdr' \in [Pdr -> PdrType] /\ open' \in SUBSET Sock /\ UNCHANGED lost
         /\ excused' \in SUBSET Pdr /\ snd' \in SndType
         /\ SockInv'
         /\ \A p \in Pdr : pdr'[p].st = pdr[p].st /\ pdr'[p].path = pdr[p].path
         /\ \A p \in Pdr \ S : pdr'[p] = pdr[p] /\ (p \in excused => p \in excused')
         /\ \A p \in S : pdr[p].st = "live" /\ pdr[p].path = "unix" /\ Wants(fars, p) =>
              pdr'[p].sock # None \/ p \in excused'
<1> DEFINE R == {p \in S : pdr[p].path # "netlink"}
           gone == Closed(S)
<1>1. /\ pdr' \in [Pdr -> PdrType] /\ open' \in SUBSET Sock /\ UNCHANGED lost
      /\ excused' \in SUBSET Pdr /\ snd' = Torn(S)
      /\ open' = (open \ gone) \cup ({pdr'[p].sock : p \in R} \ {None})
      /\ \A p, q \in R : pdr'[p].sock # None /\ pdr'[q].sock = pdr'[p].sock => q = p
      /\ \A p \in R : pdr'[p].sock # None => pdr'[p].sock \notin open \ gone
      /\ \A p \in Pdr \ R : pdr'[p] = pdr[p]
      /\ \A p \in Pdr : /\ pdr'[p].st = pdr[p].st /\ pdr'[p].path = pdr[p].path
                        /\ pdr'[p].listed = pdr[p].listed
  BY ClientUpdateOpens
<1>2. /\ \A p \in Pdr \ S : p \in excused => p \in excused'
      /\ \A p \in S : pdr[p].st = "live" /\ pdr[p].path = "unix" /\ Wants(fars, p) =>
           pdr'[p].sock # None \/ p \in excused'
  BY ClientUpdateOpens
<1>3. gone = {pdr[p].sock : p \in R} \ {None} /\ R \in SUBSET Pdr
  BY DEF Closed
<1>4. snd' = [snd EXCEPT !.torn = @ \/ (snd.sock # None /\ snd.sock \in gone)]
  BY <1>1 DEF Torn
<1>. HIDE DEF gone
<1>5. SocketsExact' /\ SndWhole' /\ snd' \in SndType
  <2>1. SocketsExact /\ SndWhole /\ \A p \in Pdr \ R : pdr'[p].sock = pdr[p].sock
    BY <1>1 DEF SockInv
  <2>2. pdr' \in [Pdr -> PdrType] /\ open' \in SUBSET Sock /\ UNCHANGED lost
    BY <1>1
  <2>3. /\ open' = (open \ gone) \cup ({pdr'[p].sock : p \in R} \ {None})
        /\ \A p, q \in R : pdr'[p].sock # None /\ pdr'[q].sock = pdr'[p].sock => q = p
        /\ \A p \in R : pdr'[p].sock # None => pdr'[p].sock \notin open \ gone
    BY <1>1
  <2>4. SocketMove(R, gone)
    BY <1>3, <1>4, <2>1, <2>2, <2>3 DEF SocketMove
  <2>. HIDE DEF R
  <2>. QED
    BY <1>3, <2>1, <2>4, SocketsMove
<1>6. LiveListed'
  BY <1>1 DEF SockInv, LiveListed
<1>7. \A p \in Pdr \ S : pdr'[p] = pdr[p]
  BY <1>1
<1>. QED
  BY <1>1, <1>2, <1>5, <1>6, <1>7 DEF SockInv

LEMMA ClientDeleteIs ==
  ASSUME TypeOK, SockInv, NEW S \in SUBSET Pdr, ClientDelete(S)
  PROVE  /\ pdr' \in [Pdr -> PdrType] /\ open' \in SUBSET Sock /\ UNCHANGED lost
         /\ excused' \in SUBSET Pdr /\ snd' \in SndType
         /\ SockInv'
         /\ \A p \in Pdr : pdr'[p].st = pdr[p].st /\ pdr'[p].path = pdr[p].path
         /\ \A p \in Pdr \ S : pdr'[p] = pdr[p]
         /\ \A p \in Pdr : p \in excused => p \in excused'
         /\ \A p \in S : pdr[p].st = "live" => p \in excused'
<1> DEFINE R == {p \in S : pdr[p].path # "netlink"}
           gone == Closed(S)
<1>1. /\ pdr' = [p \in Pdr |-> IF p \in S /\ pdr[p].path # "netlink"
                               THEN [pdr[p] EXCEPT !.sock = None] ELSE pdr[p]]
      /\ open' = open \ gone
      /\ snd' = Torn(S)
      /\ excused' = excused \cup Alive(S)
      /\ UNCHANGED lost
  BY DEF ClientDelete
<1>2. R \in SUBSET Pdr /\ gone = {pdr[p].sock : p \in R} \ {None}
  BY DEF Closed
<1>. HIDE DEF gone
<1>3. \A p \in R : /\ pdr'[p] \in PdrType /\ pdr'[p].sock = None
                   /\ pdr'[p].st = pdr[p].st /\ pdr'[p].path = pdr[p].path
                   /\ pdr'[p].listed = pdr[p].listed
  <2>1. \A p \in R : pdr'[p] = [pdr[p] EXCEPT !.sock = None] /\ pdr[p] \in PdrType
    BY <1>1, <1>2 DEF TypeOK
  <2>. QED
    BY <2>1 DEF PdrType
<1>4. \A p \in Pdr \ R : pdr'[p] = pdr[p]
  BY <1>1
<1>5. pdr' \in [Pdr -> PdrType]
  <2>1. \A p \in Pdr : pdr'[p] \in PdrType
    BY <1>3, <1>4 DEF TypeOK
  <2>2. pdr' = [p \in Pdr |-> pdr'[p]]
    BY <1>1
  <2>. QED
    BY <2>1, <2>2
<1>6. SocketsExact' /\ SndWhole' /\ snd' \in SndType
  <2>1. snd' = [snd EXCEPT !.torn = @ \/ (snd.sock # None /\ snd.sock \in gone)]
    BY <1>1 DEF Torn, gone
  <2>2. {pdr'[p].sock : p \in R} \ {None} = {}
    BY <1>3
  <2>3. open' = (open \ gone) \cup ({pdr'[p].sock : p \in R} \ {None})
    BY <1>1, <2>2
  <2>4. open' \in SUBSET Sock
    BY <1>1 DEF TypeOK
  <2>5. \A p \in R : pdr'[p].sock # None => pdr'[p].sock \notin open \ gone
    BY <1>3
  <2>6. \A p, q \in R : pdr'[p].sock # None /\ pdr'[q].sock = pdr'[p].sock => q = p
    BY <1>3
  <2>7. TypeOK /\ SocketsExact /\ SndWhole
    BY <1>1 DEF SockInv
  <2>8. \A p \in Pdr \ R : pdr'[p].sock = pdr[p].sock
    BY <1>4
  <2>9. UNCHANGED lost
    BY <1>1
  <2>10. R \in SUBSET Pdr
    BY <1>2
  <2>11. gone = {pdr[p].sock : p \in R} \ {None}
    BY <1>2
  <2>12. SocketMove(R, gone)
    BY <1>5, <2>1, <2>3, <2>4, <2>5, <2>6, <2>8, <2>9, <2>11 DEF SocketMove
  <2>. HIDE DEF R
  <2>. QED
    BY <2>7, <2>10, <2>12, SocketsMove
<1>7. LiveListed'
  BY <1>3, <1>4 DEF SockInv, LiveListed
<1>8. excused' \in SUBSET Pdr /\ open' \in SUBSET Sock
  BY <1>1 DEF Alive, TypeOK
<1>9. \A p \in Pdr : pdr'[p].st = pdr[p].st /\ pdr'[p].path = pdr[p].path
  BY <1>3, <1>4
<1>10. \A p \in S : pdr[p].st = "live" => p \in excused'
  BY <1>1 DEF Alive
<1>. QED
  BY <1>1, <1>4, <1>5, <1>6, <1>7, <1>8, <1>9, <1>10 DEF SockInv

-----------------------------------------------------------------------------
\* Tunnels

\* The parts of a FAR that a packet handler reads stay as they are.
LEMMA TunnelsSame ==
  ASSUME TypeOK, TunInv, UNCHANGED <<req, pkt, ended, wrong>>,
         \A f \in Far : /\ far'[f].param = far[f].param \/ far'[f].param
                        /\ far'[f].hdr = far[f].hdr
                        /\ far'[f].teid = far[f].teid /\ far'[f].peer = far[f].peer
  PROVE  TunInv'
<1>. USE DEF TunInv
<1>1. HeadersWhole'
  <2>1. \A f \in Far : Writing(f)' <=> Writing(f)
    BY DEF Writing
  <2>. QED
    BY <2>1 DEF HeadersWhole
<1>2. ReqWhole'
  BY DEF ReqWhole
<1>3. PktWhole'
  <2>1. pkt # NoPkt => TeidNow' = TeidNow
    BY DEF PktWhole, TeidNow
  <2>. QED
    BY <2>1 DEF PktWhole
<1>4. TunnelsWhole'
  BY DEF TunnelsWhole
<1>. QED
  BY <1>1, <1>2, <1>3, <1>4

-----------------------------------------------------------------------------
\* Faults and PDRs

LEMMA OopsInv ==
  ASSUME TypeOK, TunnelsWhole, NEW f \in {"locks", "stale node", "socket", "marker"}, Oops(f)
  PROVE  IInv'
<1>1. TypeOK'
  <2>1. NoPdr \in PdrType /\ NoReq \in ReqType /\ NoSnd \in SndType
    BY DEF NoPdr, NoReq, NoSnd, PdrType, ReqType, SndType, Header
  <2>2. NoFar \in FarType /\ NoPkt \in PktType
    BY DEF NoFar, NoPkt, FarType, PktType, Header
  <2>. QED
    BY <2>1, <2>2 DEF Oops, TypeOK
<1>2. SocketsExact'
  <2>1. \A p \in Pdr : pdr'[p].sock = None
    BY DEF Oops, NoPdr
  <2>2. open' = {} /\ lost' = {} /\ snd' = NoSnd
    BY DEF Oops
  <2>3. {pdr'[p].sock : p \in Pdr} \ {None} = {}
    BY <2>1
  <2>. QED
    BY <2>1, <2>2, <2>3 DEF SocketsExact
<1>3. SndWhole' /\ ReqWhole' /\ PktWhole'
  BY DEF Oops, SndWhole, ReqWhole, PktWhole, NoReq
<1>4. LiveListed' /\ BufferReady'
  BY DEF Oops, LiveListed, BufferReady, NoPdr
<1>5. HeadersWhole'
  BY DEF Oops, HeadersWhole, NoFar
<1>6. TunnelsWhole'
  BY DEF Oops, TunnelsWhole
<1>. QED
  BY <1>1, <1>2, <1>3, <1>4, <1>5, <1>6 DEF IInv

\* The PDR p is filled in, and its socket is another one, or none.
LEMMA SocketReplaced ==
  ASSUME TypeOK, SockInv, NEW p \in Pdr, NEW to \in PdrType, NEW old,
         old = {pdr[p].sock} \ {None}, to.listed,
         to.sock # None => to.sock \notin open \ old,
         pdr' = [pdr EXCEPT ![p] = to], UNCHANGED lost,
         open' = (open \ old) \cup ({to.sock} \ {None}),
         snd' = [snd EXCEPT !.torn = @ \/ (snd.sock # None /\ snd.sock \in old)]
  PROVE  SockInv' /\ pdr' \in [Pdr -> PdrType] /\ open' \in SUBSET Sock /\ snd' \in SndType
<1>1. PICK R \in SUBSET Pdr : R = {p}
  OBVIOUS
<1>2. old = {pdr[q].sock : q \in R} \ {None}
  BY <1>1
<1>3. pdr'[p] = to /\ \A q \in Pdr \ R : pdr'[q] = pdr[q]
  BY <1>1 DEF TypeOK
<1>4. pdr' \in [Pdr -> PdrType]
  BY DEF TypeOK
<1>5. open' \in SUBSET Sock
  BY DEF TypeOK, PdrType
<1>6. open' = (open \ old) \cup ({pdr'[q].sock : q \in R} \ {None})
  BY <1>1, <1>3
<1>7. \A q \in R : pdr'[q].sock # None => pdr'[q].sock \notin open \ old
  BY <1>1, <1>3
<1>8. \A q, r \in R : pdr'[q].sock # None /\ pdr'[r].sock = pdr'[q].sock => r = q
  BY <1>1
<1>9. \A q \in Pdr \ R : pdr'[q].sock = pdr[q].sock
  BY <1>3
<1>10. SocketsExact /\ SndWhole
  BY DEF SockInv
<1>11. SocketsExact' /\ SndWhole' /\ snd' \in SndType
  <2>1. SocketMove(R, old)
    BY <1>2, <1>4, <1>5, <1>6, <1>7, <1>8, <1>9 DEF SocketMove
  <2>. QED
    BY <1>10, <2>1, SocketsMove
<1>12. LiveListed'
  BY <1>1, <1>3 DEF SockInv, LiveListed
<1>. QED
  BY <1>4, <1>5, <1>11, <1>12 DEF SockInv

LEMMA FillPdrInv ==
  ASSUME IInv, Free, NEW p \in Pdr, NEW path \in {"empty", "unix", "netlink"},
         FillPdr(p, path)
  PROVE  IInv'
<1> DEFINE filled == [pdr[p] EXCEPT !.st = "live", !.path = path, !.listed = TRUE]
           gone == IF path = "netlink" THEN {} ELSE {pdr[p].sock} \ {None}
           Becomes(to, new) ==
             /\ pdr' = [pdr EXCEPT ![p] = to]
             /\ open' = (open \ gone) \cup ({new} \ {None})
             /\ snd' = [snd EXCEPT !.torn = @ \/ (snd.sock # None /\ snd.sock \in gone)]
             /\ excused' = IF path = "netlink" THEN excused ELSE excused \ {p}
             /\ UNCHANGED <<setup, far, lost, req, tunnels, fault>>
<1>1. /\ TypeOK /\ SockInv /\ BufferReady /\ TunInv /\ TunnelsWhole
      /\ pdr[p] \in PdrType /\ req = NoReq
  BY DEF IInv, SockInv, TunInv, TypeOK, Free
<1>2. /\ filled \in PdrType /\ filled.sock = pdr[p].sock /\ filled.path = path
      /\ filled.listed /\ filled.st = "live"
  BY <1>1 DEF PdrType
<1>3. ASSUME NEW s \in Sock \cup {None}
      PROVE  LET to == [filled EXCEPT !.sock = s]
             IN  /\ to \in PdrType /\ to.sock = s /\ to.path = path
                 /\ to.listed /\ to.st = "live"
  BY <1>2 DEF PdrType
<1>4. LET to == [filled EXCEPT !.st = "dying", !.sock = None]
      IN  /\ to \in PdrType /\ to.sock = None /\ to.path = path
          /\ to.listed /\ to.st = "dying"
  BY <1>2 DEF PdrType
<1>. HIDE DEF filled
<1>5. ASSUME NEW to \in PdrType, NEW s \in Sock \cup {None}, Becomes(to, s), to.listed,
             path = "netlink" => to.sock = pdr[p].sock /\ s = None,
             path # "netlink" => to.sock = s /\ (s # None => s \notin open \ gone),
             path = "unix" /\ to.st = "live" /\ Wants(far, p) => s # None,
             to.path = path
      PROVE  IInv'
  <2>1. SockInv' /\ pdr' \in [Pdr -> PdrType] /\ open' \in SUBSET Sock /\ snd' \in SndType
    <3>1. CASE path # "netlink"
      <4>1. gone = {pdr[p].sock} \ {None}
        BY <3>1
      <4>2. /\ to.sock # None => to.sock \notin open \ gone
            /\ pdr' = [pdr EXCEPT ![p] = to] /\ UNCHANGED lost
            /\ open' = (open \ gone) \cup ({to.sock} \ {None})
            /\ snd' = [snd EXCEPT !.torn = @ \/ (snd.sock # None /\ snd.sock \in gone)]
        BY <1>5, <3>1
      <4>. HIDE DEF gone
      <4>. QED
        BY <1>1, <1>5, <4>1, <4>2, SocketReplaced
    <3>2. CASE path = "netlink"
      <4>1. /\ pdr' = [pdr EXCEPT ![p] = to] /\ UNCHANGED lost
            /\ open' = open
            /\ snd' = [snd EXCEPT !.torn = @ \/ (snd.sock # None /\ snd.sock \in {})]
        BY <1>5, <3>2
      <4>2. pdr' \in [Pdr -> PdrType] /\ \A q \in Pdr : pdr'[q].sock = pdr[q].sock
        <5>1. pdr' \in [Pdr -> PdrType]
          BY <1>1, <1>5, <4>1 DEF TypeOK
        <5>2. to.sock = pdr[p].sock
          BY <1>5, <3>2
        <5>. QED
          BY <1>1, <4>1, <5>1, <5>2 DEF TypeOK
      <4>3. snd' = snd
        BY <1>1, <4>1 DEF TypeOK, SndType
      <4>4. SocketsExact' /\ SndWhole'
        BY <1>1, <4>1, <4>2, <4>3, SocketsSame DEF SockInv
      <4>5. LiveListed'
        BY <1>1, <1>5, <4>1 DEF SockInv, LiveListed, TypeOK
      <4>. QED
        BY <1>1, <4>1, <4>2, <4>3, <4>4, <4>5 DEF SockInv, TypeOK
    <3>. QED
      BY <3>1, <3>2
  <2>2. TypeOK'
    BY <1>1, <1>5, <2>1 DEF TypeOK, tunnels
  <2>3. BufferReady'
    <3>1. ASSUME NEW q \in Pdr, pdr'[q].st = "live", pdr'[q].path = "unix",
                 far'[setup'.far[q]].there, Wants(far, q)'
          PROVE  pdr'[q].sock # None \/ q \in excused'
      <4>1. Wants(far, q) /\ far[setup.far[q]].there /\ req = NoReq
        BY <1>1, <1>5, <3>1 DEF Wants, HasUrr
      <4>2. CASE q = p
        BY <1>1, <1>5, <3>1, <4>1, <4>2, FarUpdateAssumption DEF TypeOK
      <4>3. CASE q # p
        <5>1. pdr'[q] = pdr[q] /\ (q \in excused => q \in excused')
          BY <1>1, <1>5, <4>3 DEF TypeOK
        <5>. QED
          BY <1>1, <3>1, <4>1, <5>1 DEF BufferReady, NoReq
      <4>. QED
        BY <4>2, <4>3
    <3>. QED
      BY <3>1 DEF BufferReady
  <2>4. TunInv'
    <3>1. UNCHANGED <<far, req, pkt, ended, wrong>>
      BY <1>5 DEF tunnels
    <3>. QED
      BY <1>1, <3>1, TunnelsSame
  <2>. QED
    BY <2>1, <2>2, <2>3, <2>4 DEF IInv, SockInv, TunInv
<1>6. \/ path = "netlink" /\ Becomes(filled, None)
      \/ path # "netlink" /\ ~Wants(far, p) /\ Becomes([filled EXCEPT !.sock = None], None)
      \/ /\ path = "unix" /\ Wants(far, p)
         /\ \E s \in Sock \ (open \ gone) : Becomes([filled EXCEPT !.sock = s], s)
      \/ /\ path # "netlink" /\ Wants(far, p)
         /\ IF pdr[p].st = "live" THEN Oops("locks")
            ELSE Becomes([filled EXCEPT !.st = "dying", !.sock = None], None)
  BY DEF FillPdr, filled
<1>. HIDE DEF gone, Becomes
<1>7. CASE path = "netlink" /\ Becomes(filled, None)
  BY <1>2, <1>5, <1>7
<1>8. CASE path # "netlink" /\ ~Wants(far, p) /\ Becomes([filled EXCEPT !.sock = None], None)
  BY <1>3, <1>5, <1>8
<1>9. CASE /\ path = "unix" /\ Wants(far, p)
           /\ \E s \in Sock \ (open \ gone) : Becomes([filled EXCEPT !.sock = s], s)
  <2>1. PICK s \in Sock \ (open \ gone) : Becomes([filled EXCEPT !.sock = s], s)
    BY <1>9
  <2>2. s # None
    BY FarUpdateAssumption
  <2>. QED
    BY <1>3, <1>5, <1>9, <2>1, <2>2
<1>10. CASE /\ path # "netlink" /\ Wants(far, p)
            /\ IF pdr[p].st = "live" THEN Oops("locks")
               ELSE Becomes([filled EXCEPT !.st = "dying", !.sock = None], None)
  <2>1. CASE Oops("locks")
    BY <1>1, <2>1, OopsInv
  <2>2. CASE Becomes([filled EXCEPT !.st = "dying", !.sock = None], None)
    BY <1>4, <1>5, <1>10, <2>2
  <2>. QED
    BY <1>10, <2>1, <2>2
<1>. QED
  BY <1>6, <1>7, <1>8, <1>9, <1>10

-----------------------------------------------------------------------------
\* Requests that have sockets opened or closed

\* A PDR that is not looked at has the FAR it had, as it was.
LEMMA ClientUpdateReady ==
  ASSUME TypeOK, SockInv, BufferReady, NEW S \in SUBSET Pdr, NEW fars,
         ClientUpdate(S, fars), far' = fars, UNCHANGED setup,
         \A p \in Pdr \ S : pdr[p].st = "live" =>
           /\ fars[setup.far[p]] = far[setup.far[p]]
           /\ Writing(setup.far[p]) => Writing(setup.far[p])'
  PROVE  BufferReady'
<1>. SUFFICES ASSUME NEW p \in Pdr, pdr'[p].st = "live", pdr'[p].path = "unix",
                     fars[setup.far[p]].there, Wants(fars, p),
                     ~(req'.at = "peer" /\ req'.far = setup.far[p])
              PROVE  pdr'[p].sock # None \/ p \in excused'
  BY DEF BufferReady, Wants, HasUrr
<1>1. pdr[p].st = "live" /\ pdr[p].path = "unix"
  BY ClientUpdateIs
<1>2. CASE p \in S
  BY <1>1, <1>2, ClientUpdateIs
<1>3. CASE p \notin S
  <2>1. fars[setup.far[p]] = far[setup.far[p]] /\ ~Writing(setup.far[p])
    BY <1>1, <1>3 DEF Writing
  <2>2. Wants(far, p) /\ far[setup.far[p]].there
    BY <2>1 DEF Wants
  <2>3. pdr[p].sock # None \/ p \in excused
    BY <1>1, <2>1, <2>2 DEF BufferReady, Writing
  <2>. QED
    BY <1>3, <2>3, ClientUpdateIs
<1>. QED
  BY <1>2, <1>3

\* The PDRs whose sockets are closed are excused.
LEMMA ClientDeleteReady ==
  ASSUME TypeOK, SockInv, BufferReady, NEW S \in SUBSET Pdr,
         ClientDelete(S), UNCHANGED setup,
         \A p \in Pdr \ S : pdr[p].st = "live" =>
           /\ far'[setup.far[p]].there = far[setup.far[p]].there
           /\ far'[setup.far[p]].buff = far[setup.far[p]].buff
           /\ Writing(setup.far[p]) => Writing(setup.far[p])'
  PROVE  BufferReady'
<1>. SUFFICES ASSUME NEW p \in Pdr, pdr'[p].st = "live", pdr'[p].path = "unix",
                     far'[setup.far[p]].there, Wants(far, p)',
                     ~(req'.at = "peer" /\ req'.far = setup.far[p])
              PROVE  pdr'[p].sock # None \/ p \in excused'
  BY DEF BufferReady
<1>1. pdr[p].st = "live" /\ pdr[p].path = "unix"
  BY ClientDeleteIs
<1>2. CASE p \in S
  BY <1>1, <1>2, ClientDeleteIs
<1>3. CASE p \notin S
  <2>1. ~Writing(setup.far[p])
    BY <1>1, <1>3 DEF Writing
  <2>2. Wants(far, p) /\ far[setup.far[p]].there
    BY <1>1, <1>3 DEF Wants, HasUrr
  <2>3. pdr[p].sock # None \/ p \in excused
    BY <1>1, <2>1, <2>2 DEF BufferReady, Writing
  <2>. QED
    BY <1>3, <2>3, ClientDeleteIs
<1>. QED
  BY <1>2, <1>3

LEMMA Parts == IInv <=> TypeOK /\ SockInv /\ BufferReady /\ TunInv
  BY DEF IInv, SockInv, TunInv

\* The handler of a QER or URR: the FARs stay as they are.
LEMMA RuleSetInv ==
  ASSUME IInv, NEW S \in SUBSET Pdr, ClientUpdate(S, far),
         UNCHANGED <<setup, far, req, tunnels, fault>>
  PROVE  IInv'
<1>1. TypeOK /\ SockInv /\ BufferReady /\ TunInv
  BY Parts
<1>2. PICK fars : fars = far
  OBVIOUS
<1>3. /\ ClientUpdate(S, fars) /\ far' = fars
      /\ UNCHANGED <<setup, far, req, pkt, ended, wrong, fault>>
  BY <1>2 DEF tunnels
<1>4. TypeOK'
  <2>1. /\ pdr' \in [Pdr -> PdrType] /\ open' \in SUBSET Sock /\ UNCHANGED lost
        /\ excused' \in SUBSET Pdr /\ snd' \in SndType
    BY <1>1, <1>3, ClientUpdateIs
  <2>. QED
    BY <1>1, <1>3, <2>1 DEF TypeOK
<1>5. SockInv'
  BY <1>1, <1>3, ClientUpdateIs
<1>6. BufferReady'
  <2>1. \A p \in Pdr \ S : pdr[p].st = "live" =>
           /\ fars[setup.far[p]] = far[setup.far[p]]
           /\ Writing(setup.far[p]) => Writing(setup.far[p])'
    BY <1>2, <1>3 DEF Writing
  <2>. QED
    BY <1>1, <1>3, <2>1, ClientUpdateReady
<1>7. TunInv'
  BY <1>1, <1>3, TunnelsSame
<1>. QED
  BY <1>4, <1>5, <1>6, <1>7 DEF IInv, SockInv, TunInv

LEMMA SetQerInv ==
  ASSUME IInv, NEW q, SetQer(q)
  PROVE  IInv'
<1>1. CASE ClientUpdate(OfRule(q), far) /\ UNCHANGED <<setup, far, req, tunnels, fault>>
  BY <1>1, ListsOfPdrs, RuleSetInv
<1>2. CASE Oops("locks")
  BY <1>2, OopsInv DEF IInv
<1>. QED
  BY <1>1, <1>2 DEF SetQer

LEMMA SetUrrInv ==
  ASSUME IInv, NEW u, SetUrr(u)
  PROVE  IInv'
  BY ListsOfPdrs, RuleSetInv DEF SetUrr

LEMMA DeleteQerOrUrrInv ==
  ASSUME IInv, NEW r, DeleteQerOrUrr(r)
  PROVE  IInv'
<1>1. TypeOK /\ SockInv /\ BufferReady /\ TunInv
  BY Parts
<1>2. PICK S \in SUBSET Pdr : S = OfRule(r)
  BY ListsOfPdrs
<1>3. ClientDelete(S) /\ UNCHANGED <<setup, req, pkt, ended, wrong, fault>>
  BY <1>2 DEF DeleteQerOrUrr, tunnels
<1>4. /\ far' \in [Far -> FarType]
      /\ \A f \in Far : /\ far'[f].there = far[f].there /\ far'[f].buff = far[f].buff
                        /\ far'[f].param = far[f].param /\ far'[f].hdr = far[f].hdr
                        /\ far'[f].teid = far[f].teid /\ far'[f].peer = far[f].peer
  <2>1. CASE UNCHANGED far
    BY <1>1, <2>1 DEF TypeOK
  <2>2. CASE far' = [f \in Far |-> IF \E p \in OfFar(f) : r \in setup.urrs[p]
                                   THEN [far[f] EXCEPT !.saved = "none"] ELSE far[f]]
    <3>1. ASSUME NEW f \in Far
          PROVE  LET new == [far[f] EXCEPT !.saved = "none"]
                 IN  /\ new \in FarType
                     /\ new.there = far[f].there /\ new.buff = far[f].buff
                     /\ new.param = far[f].param /\ new.hdr = far[f].hdr
                     /\ new.teid = far[f].teid /\ new.peer = far[f].peer
      BY <1>1 DEF TypeOK, FarType
    <3>2. \A f \in Far : far'[f] = far[f] \/ far'[f] = [far[f] EXCEPT !.saved = "none"]
      BY <2>2
    <3>3. \A f \in Far : /\ far'[f] \in FarType
                        /\ far'[f].there = far[f].there /\ far'[f].buff = far[f].buff
                        /\ far'[f].param = far[f].param /\ far'[f].hdr = far[f].hdr
                        /\ far'[f].teid = far[f].teid /\ far'[f].peer = far[f].peer
      <4>. SUFFICES ASSUME NEW f \in Far
                    PROVE  /\ far'[f] \in FarType
                           /\ far'[f].there = far[f].there /\ far'[f].buff = far[f].buff
                           /\ far'[f].param = far[f].param /\ far'[f].hdr = far[f].hdr
                           /\ far'[f].teid = far[f].teid /\ far'[f].peer = far[f].peer
        OBVIOUS
      <4>1. CASE far'[f] = far[f]
        <5>1. far[f] \in FarType
          BY <1>1 DEF TypeOK
        <5>. QED
          BY <4>1, <5>1
      <4>2. CASE far'[f] = [far[f] EXCEPT !.saved = "none"]
        BY <3>1, <4>2
      <4>. QED
        BY <3>2, <4>1, <4>2
    <3>4. far' = [f \in Far |-> far'[f]]
      BY <2>2
    <3>. QED
      BY <3>3, <3>4
  <2>. QED
    BY <2>1, <2>2 DEF DeleteQerOrUrr
<1>5. TypeOK'
  <2>1. /\ pdr' \in [Pdr -> PdrType] /\ open' \in SUBSET Sock /\ UNCHANGED lost
        /\ excused' \in SUBSET Pdr /\ snd' \in SndType
    BY <1>1, <1>3, ClientDeleteIs
  <2>. QED
    BY <1>1, <1>3, <1>4, <2>1 DEF TypeOK
<1>6. SockInv'
  BY <1>1, <1>3, ClientDeleteIs
<1>7. BufferReady'
  <2>1. \A p \in Pdr \ S : pdr[p].st = "live" =>
           /\ far'[setup.far[p]].there = far[setup.far[p]].there
           /\ far'[setup.far[p]].buff = far[setup.far[p]].buff
           /\ Writing(setup.far[p]) => Writing(setup.far[p])'
    BY <1>1, <1>3, <1>4, SetupIs DEF Writing
  <2>2. UNCHANGED setup
    BY <1>3
  <2>. QED
    BY <1>1, <1>3, <2>1, <2>2, ClientDeleteReady
<1>8. TunInv'
  BY <1>1, <1>3, <1>4, TunnelsSame
<1>. QED
  BY <1>5, <1>6, <1>7, <1>8 DEF IInv, SockInv, TunInv

-----------------------------------------------------------------------------
\* FARs

\* The live PDRs of a FAR are on its list: another FAR than theirs is meant
\* when they are not.
LEMMA NotOfFar ==
  ASSUME TypeOK, SockInv, NEW f
  PROVE  \A p \in Pdr \ OfFar(f) : pdr[p].st = "live" => setup.far[p] # f
  BY DEF SockInv, LiveListed, OfFar

\* far_fill and far_update of a FAR whose header no packet handler can read
\* changes under its hands.
LEMMA FarSetInv ==
  ASSUME IInv, req = NoReq, NEW f \in Far, NEW new \in FarType,
         ClientUpdate(OfFar(f), [far EXCEPT ![f] = new]), far' = [far EXCEPT ![f] = new],
         UNCHANGED <<setup, req, tunnels, fault>>,
         \/ /\ new.param = far[f].param \/ new.param
            /\ new.hdr = far[f].hdr /\ new.teid = far[f].teid /\ new.peer = far[f].peer
         \/ /\ ~far[f].hdr
            /\ new.param /\ new.hdr /\ new.teid \in Tunnel /\ new.peer = new.teid
  PROVE  IInv'
<1>1. TypeOK /\ SockInv /\ BufferReady /\ TunInv
  BY Parts
<1>2. PICK S \in SUBSET Pdr : S = OfFar(f)
  BY ListsOfPdrs
<1>3. PICK fars : fars = [far EXCEPT ![f] = new]
  OBVIOUS
<1>4. /\ ClientUpdate(S, fars) /\ far' = fars
      /\ UNCHANGED <<setup, req, pkt, ended, wrong, fault>>
  BY <1>2, <1>3 DEF tunnels
<1>5. /\ fars \in [Far -> FarType] /\ fars[f] = new
      /\ \A g \in Far : g # f => fars[g] = far[g]
  BY <1>1, <1>3 DEF TypeOK
<1>6. TypeOK'
  <2>1. /\ pdr' \in [Pdr -> PdrType] /\ open' \in SUBSET Sock /\ UNCHANGED lost
        /\ excused' \in SUBSET Pdr /\ snd' \in SndType
    BY <1>1, <1>4, ClientUpdateIs
  <2>. QED
    BY <1>1, <1>4, <1>5, <2>1 DEF TypeOK
<1>7. SockInv'
  BY <1>1, <1>4, ClientUpdateIs
<1>8. BufferReady'
  <2>1. \A p \in Pdr \ S : pdr[p].st = "live" =>
           /\ fars[setup.far[p]] = far[setup.far[p]]
           /\ Writing(setup.far[p]) => Writing(setup.far[p])'
    BY <1>1, <1>2, <1>4, <1>5, SetupIs, NotOfFar DEF Writing
  <2>2. UNCHANGED setup
    BY <1>4
  <2>. QED
    BY <1>1, <1>4, <2>1, <2>2, ClientUpdateReady
<1>9. TunInv'
  <2>1. CASE /\ new.param = far[f].param \/ new.param
             /\ new.hdr = far[f].hdr /\ new.teid = far[f].teid /\ new.peer = far[f].peer
    <3>1. \A g \in Far : /\ far'[g].param = far[g].param \/ far'[g].param
                         /\ far'[g].hdr = far[g].hdr
                         /\ far'[g].teid = far[g].teid /\ far'[g].peer = far[g].peer
      BY <1>4, <1>5, <2>1
    <3>. QED
      BY <1>1, <1>4, <3>1, TunnelsSame
  <2>2. CASE /\ ~far[f].hdr
             /\ new.param /\ new.hdr /\ new.teid \in Tunnel /\ new.peer = new.teid
    <3>1. HeadersWhole'
      <4>1. ended[f] = {} /\ ~Writing(f)'
        BY <1>1, <1>4, <2>2 DEF TunInv, HeadersWhole, Writing, NoReq
      <4>2. \A g \in Far : Writing(g)' <=> Writing(g)
        BY <1>4 DEF Writing
      <4>. QED
        BY <1>1, <1>4, <1>5, <2>2, <4>1, <4>2 DEF TunInv, HeadersWhole
    <3>2. ReqWhole'
      BY <1>4 DEF ReqWhole, NoReq
    <3>3. PktWhole'
      <4>1. ASSUME pkt # NoPkt, pkt.teid = 0
            PROVE  pkt.far \in Far /\ pkt.far # f
        BY <1>1, <2>2, <4>1 DEF TunInv, PktWhole
      <4>2. pkt # NoPkt => TeidNow' = TeidNow
        BY <1>4, <1>5, <4>1 DEF TeidNow
      <4>. QED
        BY <1>1, <1>4, <1>5, <4>1, <4>2 DEF TunInv, PktWhole
    <3>4. TunnelsWhole'
      BY <1>1, <1>4 DEF TunInv, TunnelsWhole
    <3>. QED
      BY <3>1, <3>2, <3>3, <3>4 DEF TunInv
  <2>. QED
    BY <2>1, <2>2
<1>. QED
  BY <1>6, <1>7, <1>8, <1>9 DEF IInv, SockInv, TunInv

LEMMA SetFarInv ==
  ASSUME IInv, NEW f \in Far, NEW buff \in BOOLEAN, NEW t \in Header, SetFar(f, buff, t)
  PROVE  IInv'
<1> DEFINE acts == [far[f] EXCEPT !.there = TRUE, !.buff = buff]
           new == IF t = 0 THEN acts
                  ELSE [acts EXCEPT !.param = TRUE, !.hdr = TRUE, !.teid = t, !.peer = t]
<1>1. TypeOK /\ HeadersWhole /\ far[f] \in FarType
  BY DEF IInv, TypeOK
<1>2. /\ acts \in FarType /\ acts.param = far[f].param /\ acts.hdr = far[f].hdr
      /\ acts.teid = far[f].teid /\ acts.peer = far[f].peer
  BY <1>1 DEF FarType
<1>. HIDE DEF acts
<1>3. new \in FarType
  BY <1>2 DEF FarType
<1>4. \/ /\ new.param = far[f].param \/ new.param
         /\ new.hdr = far[f].hdr /\ new.teid = far[f].teid /\ new.peer = far[f].peer
      \/ /\ ~far[f].hdr
         /\ new.param /\ new.hdr /\ new.teid \in Tunnel /\ new.peer = new.teid
  <2>1. CASE t = 0
    BY <1>2, <2>1
  <2>2. CASE t # 0
    <3>1. ~far[f].hdr /\ t \in Tunnel
      BY <1>1, <2>2 DEF SetFar, HeadersWhole, Header
    <3>2. new.param /\ new.hdr /\ new.teid = t /\ new.peer = t
      BY <1>2, <2>2 DEF FarType
    <3>. QED
      BY <3>1, <3>2
  <2>. QED
    BY <2>1, <2>2
<1>5. /\ ClientUpdate(OfFar(f), [far EXCEPT ![f] = new]) /\ far' = [far EXCEPT ![f] = new]
      /\ UNCHANGED <<setup, req, tunnels, fault>> /\ req = NoReq
  BY DEF SetFar, Free, acts
<1>. HIDE DEF new
<1>. QED
  BY <1>3, <1>4, <1>5, FarSetInv

LEMMA SetPolicyInv ==
  ASSUME IInv, NEW f \in Far, SetPolicy(f)
  PROVE  IInv'
<1> DEFINE new == [far[f] EXCEPT !.param = TRUE]
<1>1. /\ new \in FarType /\ new.param /\ new.hdr = far[f].hdr
      /\ new.teid = far[f].teid /\ new.peer = far[f].peer
  BY DEF IInv, TypeOK, FarType
<1>2. [far EXCEPT ![f].param = TRUE] = [far EXCEPT ![f] = new]
  OBVIOUS
<1>3. /\ ClientUpdate(OfFar(f), [far EXCEPT ![f] = new]) /\ far' = [far EXCEPT ![f] = new]
      /\ UNCHANGED <<setup, req, tunnels, fault>> /\ req = NoReq
  BY <1>2 DEF SetPolicy, Free
<1>. HIDE DEF new
<1>. QED
  BY <1>1, <1>3, FarSetInv

LEMMA UpdateFarInv ==
  ASSUME IInv, UpdateFar
  PROVE  IInv'
<1>1. TypeOK /\ SockInv /\ BufferReady /\ TunInv
  BY Parts
<1>2. PICK f \in Far : /\ f = req.far /\ req.at = "peer"
                       /\ far[f].hdr /\ far[f].teid = req.new
                       /\ req.mark => req.old \in Tunnel
  BY <1>1 DEF UpdateFar, TunInv, ReqWhole
<1>3. PICK S \in SUBSET Pdr : S = OfFar(f)
  BY ListsOfPdrs
<1>4. PICK fars : fars = [far EXCEPT ![f].peer = req.new]
  OBVIOUS
<1>5. /\ ClientUpdate(S, fars) /\ far' = fars
      /\ UNCHANGED <<setup, pkt, ended, wrong, fault>>
      /\ \E p \in IF S = {} THEN {None} ELSE S :
           req' = IF req.mark THEN [req EXCEPT !.at = "marker", !.pdr = p] ELSE NoReq
  BY <1>2, <1>3, <1>4 DEF UpdateFar, tunnels
<1>6. /\ req' \in ReqType /\ req'.at # "peer"
      /\ req'.at # "none" => req'.at = "marker" /\ req.mark /\ req'.mark
                             /\ req'.far = f /\ req'.new = req.new /\ req'.old = req.old
  <2>1. PICK p \in Pdr \cup {None} :
          req' = IF req.mark THEN [req EXCEPT !.at = "marker", !.pdr = p] ELSE NoReq
    BY <1>5
  <2>2. CASE req.mark
    BY <1>1, <1>2, <2>1, <2>2 DEF TypeOK, ReqType
  <2>3. CASE ~req.mark
    BY <2>1, <2>3 DEF NoReq, ReqType, Header
  <2>. QED
    BY <2>2, <2>3
<1>7. /\ fars \in [Far -> FarType]
      /\ fars[f].hdr /\ fars[f].teid = req.new /\ fars[f].peer = req.new
      /\ \A g \in Far : /\ fars[g].hdr = far[g].hdr /\ fars[g].param = far[g].param
                        /\ fars[g].teid = far[g].teid
      /\ \A g \in Far : g # f => fars[g] = far[g]
  <2>1. far[f] \in FarType /\ req.new \in Header
    BY <1>1 DEF TypeOK, ReqType
  <2>2. PICK new : new = [far[f] EXCEPT !.peer = req.new]
    OBVIOUS
  <2>3. /\ new \in FarType /\ new.hdr = far[f].hdr /\ new.param = far[f].param
        /\ new.teid = far[f].teid /\ new.peer = req.new
    BY <2>1, <2>2 DEF FarType
  <2>4. fars = [far EXCEPT ![f] = new]
    BY <1>4, <2>2
  <2>. QED
    BY <1>1, <1>2, <2>3, <2>4 DEF TypeOK
<1>8. TypeOK'
  <2>1. /\ pdr' \in [Pdr -> PdrType] /\ open' \in SUBSET Sock /\ UNCHANGED lost
        /\ excused' \in SUBSET Pdr /\ snd' \in SndType
    BY <1>1, <1>5, ClientUpdateIs
  <2>. QED
    BY <1>1, <1>5, <1>6, <1>7, <2>1 DEF TypeOK
<1>9. SockInv'
  BY <1>1, <1>5, ClientUpdateIs
<1>10. BufferReady'
  <2>1. \A p \in Pdr \ S : pdr[p].st = "live" =>
           /\ fars[setup.far[p]] = far[setup.far[p]]
           /\ Writing(setup.far[p]) => Writing(setup.far[p])'
    BY <1>1, <1>2, <1>3, <1>7, SetupIs, NotOfFar DEF Writing
  <2>2. UNCHANGED setup
    BY <1>5
  <2>. QED
    BY <1>1, <1>5, <2>1, <2>2, ClientUpdateReady
<1>11. TunInv'
  <2>1. HeadersWhole'
    <3>1. \A g \in Far : g # f => ~Writing(g)
      BY <1>2 DEF Writing
    <3>. QED
      BY <1>1, <1>2, <1>5, <1>7, <3>1 DEF TunInv, HeadersWhole
  <2>2. ReqWhole'
    BY <1>2, <1>5, <1>6, <1>7 DEF ReqWhole
  <2>3. PktWhole'
    <3>1. pkt # NoPkt => TeidNow' = TeidNow
      BY <1>1, <1>5, <1>7 DEF TunInv, PktWhole, TeidNow
    <3>. QED
      BY <1>1, <1>5, <1>7, <3>1 DEF TunInv, PktWhole
  <2>4. TunnelsWhole'
    BY <1>1, <1>5 DEF TunInv, TunnelsWhole
  <2>. QED
    BY <2>1, <2>2, <2>3, <2>4 DEF TunInv
<1>. QED
  BY <1>8, <1>9, <1>10, <1>11 DEF IInv, SockInv, TunInv

\* A packet handler that has the FAR keeps the TEID it was to read.
LEMMA RemoveFarInv ==
  ASSUME IInv, NEW f \in Far, NEW hdr, RemoveFar(f, hdr), hdr = far[f].teid,
         req.at = "peer" => req.far = f,
         req' = NoReq, UNCHANGED <<setup, wrong, fault>>
  PROVE  IInv'
<1>1. TypeOK /\ SockInv /\ BufferReady /\ TunInv
  BY Parts
<1>2. PICK S \in SUBSET Pdr : S = OfFar(f)
  BY ListsOfPdrs
<1>3. /\ ClientDelete(S)
      /\ far' = [far EXCEPT ![f] = [NoFar EXCEPT !.saved = far[f].saved]]
      /\ ended' = [ended EXCEPT ![f] = {}]
      /\ pkt' = IF pkt.far = f /\ pkt.teid = 0 THEN [pkt EXCEPT !.teid = hdr] ELSE pkt
  BY <1>2 DEF RemoveFar
<1>4. far[f] \in FarType /\ hdr \in Header /\ pkt \in PktType
  BY <1>1 DEF TypeOK, FarType
<1>5. /\ far' \in [Far -> FarType] /\ ~far'[f].hdr
      /\ \A g \in Far : g # f => far'[g] = far[g]
  <2>1. PICK new : new = [NoFar EXCEPT !.saved = far[f].saved]
    OBVIOUS
  <2>2. new \in FarType /\ ~new.hdr
    BY <1>4, <2>1 DEF FarType, NoFar, Header
  <2>3. far' = [far EXCEPT ![f] = new]
    BY <1>3, <2>1
  <2>. QED
    BY <1>1, <2>2, <2>3 DEF TypeOK
<1>6. /\ ended' \in [Far -> SUBSET Tunnel] /\ ended'[f] = {}
      /\ \A g \in Far : g # f => ended'[g] = ended[g]
  BY <1>1, <1>3 DEF TypeOK
<1>7. /\ pkt' \in PktType /\ pkt'.far = pkt.far /\ pkt'.peer = pkt.peer
      /\ pkt'.ended = pkt.ended /\ pkt'.overlap = pkt.overlap
      /\ pkt'.teid = IF pkt.far = f /\ pkt.teid = 0 THEN hdr ELSE pkt.teid
  BY <1>3, <1>4 DEF PktType
<1>8. TypeOK'
  <2>1. /\ pdr' \in [Pdr -> PdrType] /\ open' \in SUBSET Sock /\ UNCHANGED lost
        /\ excused' \in SUBSET Pdr /\ snd' \in SndType
    BY <1>1, <1>3, ClientDeleteIs
  <2>2. req' \in ReqType
    BY DEF NoReq, ReqType, Header
  <2>. QED
    BY <1>1, <1>5, <1>6, <1>7, <2>1, <2>2 DEF TypeOK
<1>9. SockInv'
  BY <1>1, <1>3, ClientDeleteIs
<1>10. BufferReady'
  <2>1. \A p \in Pdr \ S : pdr[p].st = "live" =>
           /\ far'[setup.far[p]].there = far[setup.far[p]].there
           /\ far'[setup.far[p]].buff = far[setup.far[p]].buff
           /\ Writing(setup.far[p]) => Writing(setup.far[p])'
    BY <1>1, <1>2, <1>5, SetupIs, NotOfFar DEF Writing
  <2>2. UNCHANGED setup
    OBVIOUS
  <2>. QED
    BY <1>1, <1>3, <2>1, <2>2, ClientDeleteReady
<1>11. TunInv'
  <2>1. HeadersWhole'
    <3>1. \A g \in Far : g # f => ~Writing(g)
      BY DEF Writing
    <3>. QED
      BY <1>1, <1>5, <1>6, <3>1 DEF TunInv, HeadersWhole
  <2>2. ReqWhole'
    BY DEF ReqWhole, NoReq
  <2>3. PktWhole'
    <3>1. CASE pkt = NoPkt
      BY <1>3, <3>1, FarUpdateAssumption DEF PktWhole, NoPkt
    <3>2. CASE pkt # NoPkt
      <4>1. pkt.far \in Far /\ (pkt.teid = 0 => far[pkt.far].hdr /\ far[pkt.far].teid \in Tunnel)
        BY <1>1, <3>2 DEF TunInv, PktWhole, HeadersWhole
      <4>2. TeidNow' = TeidNow /\ (pkt'.teid = 0 => pkt.teid = 0 /\ pkt.far # f)
        BY <1>5, <1>7, <4>1, TunnelIs DEF TeidNow
      <4>. QED
        BY <1>1, <1>5, <1>7, <3>2, <4>1, <4>2 DEF TunInv, PktWhole
    <3>. QED
      BY <3>1, <3>2
  <2>4. TunnelsWhole'
    BY <1>1 DEF TunInv, TunnelsWhole
  <2>. QED
    BY <2>1, <2>2, <2>3, <2>4 DEF TunInv
<1>. QED
  BY <1>8, <1>9, <1>10, <1>11 DEF IInv, SockInv, TunInv

LEMMA FarGoneInv ==
  ASSUME IInv, NEW f \in Far, UpdateFarFails \/ DeleteFar(f) \/ SetFarFails(f)
  PROVE  IInv'
<1>1. CASE UpdateFarFails
  <2>1. PICK g \in Far : g = req.far /\ far[g].teid = req.new /\ req.at = "peer"
    BY <1>1 DEF IInv, ReqWhole, UpdateFarFails
  <2>2. RemoveFar(g, far[g].teid) /\ req' = NoReq /\ UNCHANGED <<setup, wrong, fault>>
    BY <1>1, <2>1 DEF UpdateFarFails
  <2>. QED
    BY <2>1, <2>2, RemoveFarInv
<1>2. CASE DeleteFar(f) \/ SetFarFails(f)
  <2>1. /\ RemoveFar(f, far[f].teid) /\ req = NoReq
        /\ req' = NoReq /\ UNCHANGED <<setup, wrong, fault>>
    BY <1>2 DEF DeleteFar, SetFarFails, Free
  <2>2. req.at = "peer" => req.far = f
    BY <2>1 DEF NoReq
  <2>. QED
    BY <2>1, <2>2, RemoveFarInv
<1>. QED
  BY <1>1, <1>2

LEMMA BeginUpdateFarInv ==
  ASSUME IInv, NEW f \in Far, NEW buff \in BOOLEAN, NEW t \in Tunnel, NEW mark \in BOOLEAN,
         BeginUpdateFar(f, buff, t, mark)
  PROVE  IInv'
<1>1. TypeOK /\ SockInv /\ BufferReady /\ TunInv
  BY Parts
<1>2. /\ req' = [NoReq EXCEPT !.at = "peer", !.far = f, !.new = t, !.old = far[f].teid,
                              !.mark = mark /\ far[f].hdr]
      /\ far' = [far EXCEPT ![f] = [SetTeid(f, t) EXCEPT !.buff = buff]]
      /\ ended' = [ended EXCEPT ![f] = @ \ {t}]
      /\ pkt' = IF pkt.far = f /\ pkt.teid = 0
                THEN [pkt EXCEPT !.ended = @ \ {t}, !.overlap = TRUE] ELSE pkt
      /\ far[f].param /\ req = NoReq
      /\ UNCHANGED <<setup, pdr, open, lost, excused, snd, wrong, fault>>
  BY DEF BeginUpdateFar, Revive, Free, sockets
<1>3. far[f] \in FarType /\ pkt \in PktType /\ t \in Header /\ t # 0
  BY <1>1, TunnelIs DEF TypeOK
<1>4. /\ req' \in ReqType /\ req'.at = "peer" /\ req'.far = f /\ req'.new = t
      /\ req'.old = far[f].teid /\ req'.mark = (mark /\ far[f].hdr)
  <2>1. PICK m \in BOOLEAN : m = (mark /\ far[f].hdr)
    BY <1>3 DEF FarType
  <2>2. req' = [NoReq EXCEPT !.at = "peer", !.far = f, !.new = t, !.old = far[f].teid, !.mark = m]
    BY <1>2, <2>1
  <2>3. far[f].teid \in Header
    BY <1>3 DEF FarType
  <2>4. /\ req' \in ReqType /\ req'.at = "peer" /\ req'.far = f /\ req'.new = t
        /\ req'.old = far[f].teid /\ req'.mark = m
    BY <1>3, <2>2, <2>3 DEF NoReq, ReqType, Header
  <2>. QED
    BY <2>1, <2>4
<1>5. /\ far' \in [Far -> FarType] /\ far'[f].hdr /\ far'[f].param /\ far'[f].teid = t
      /\ \A g \in Far : g # f => far'[g] = far[g]
  <2>1. PICK new : new = [SetTeid(f, t) EXCEPT !.buff = buff]
    OBVIOUS
  <2>2. new \in FarType /\ new.hdr /\ new.param /\ new.teid = t
    BY <1>2, <1>3, <2>1 DEF SetTeid, FarType
  <2>3. far' = [far EXCEPT ![f] = new]
    BY <1>2, <2>1
  <2>. QED
    BY <1>1, <2>2, <2>3 DEF TypeOK
<1>6. /\ ended' \in [Far -> SUBSET Tunnel] /\ t \notin ended'[f]
      /\ \A g \in Far : g # f => ended'[g] = ended[g]
  BY <1>1, <1>2 DEF TypeOK
<1>7. /\ pkt' \in PktType /\ pkt'.far = pkt.far /\ pkt'.teid = pkt.teid /\ pkt'.peer = pkt.peer
      /\ IF pkt.far = f /\ pkt.teid = 0
         THEN t \notin pkt'.ended /\ pkt'.overlap
         ELSE pkt' = pkt
  BY <1>2, <1>3 DEF PktType
<1>8. TypeOK'
  BY <1>1, <1>2, <1>4, <1>5, <1>6, <1>7 DEF TypeOK
<1>9. SockInv'
  <2>1. SocketsExact' /\ SndWhole'
    BY <1>1, <1>2, <1>8, SocketsSame DEF SockInv, TypeOK
  <2>. QED
    BY <1>1, <1>2, <2>1 DEF SockInv, LiveListed
<1>10. BufferReady'
  <2>. SUFFICES ASSUME NEW p \in Pdr, pdr[p].st = "live", pdr[p].path = "unix",
                       far'[setup.far[p]].there, Wants(far, p)',
                       ~(req'.at = "peer" /\ req'.far = setup.far[p])
                PROVE  pdr[p].sock # None \/ p \in excused
    BY <1>2 DEF BufferReady
  <2>1. setup.far[p] \in Far /\ setup.far[p] # f
    BY <1>1, <1>4, SetupIs
  <2>2. far[setup.far[p]].there /\ Wants(far, p)
    BY <1>2, <1>5, <2>1 DEF Wants, HasUrr
  <2>. QED
    BY <1>1, <1>2, <2>2 DEF BufferReady, NoReq
<1>11. TunInv'
  <2>1. HeadersWhole'
    <3>1. Writing(f)' /\ \A g \in Far : ~Writing(g)
      BY <1>2, <1>4 DEF Writing, NoReq
    <3>. QED
      BY <1>1, <1>5, <1>6, <3>1 DEF TunInv, HeadersWhole
  <2>2. ReqWhole'
    BY <1>1, <1>4, <1>5 DEF TunInv, ReqWhole, HeadersWhole
  <2>3. PktWhole'
    <3>1. CASE pkt.far = f /\ pkt.teid = 0
      <4>1. TeidNow' = t
        BY <1>5, <1>7, <3>1 DEF TeidNow
      <4>. QED
        BY <1>5, <1>7, <3>1, <4>1 DEF PktWhole
    <3>2. CASE ~(pkt.far = f /\ pkt.teid = 0)
      <4>1. pkt # NoPkt => TeidNow' = TeidNow
        BY <1>1, <1>5, <1>7, <3>2 DEF TunInv, PktWhole, TeidNow
      <4>. QED
        BY <1>1, <1>5, <1>7, <3>2, <4>1 DEF TunInv, PktWhole
    <3>. QED
      BY <3>1, <3>2
  <2>4. TunnelsWhole'
    BY <1>1, <1>2 DEF TunInv, TunnelsWhole
  <2>. QED
    BY <2>1, <2>2, <2>3, <2>4 DEF TunInv
<1>. QED
  BY <1>8, <1>9, <1>10, <1>11 DEF IInv, SockInv, TunInv

\* A URR stops or resumes: the FAR changes its action, no socket moves.
LEMMA QuotaInv ==
  ASSUME IInv, NEW f \in Far, QuotaStops(f) \/ QuotaResumes(f)
  PROVE  IInv'
<1>1. TypeOK /\ SockInv /\ BufferReady /\ TunInv /\ far[f] \in FarType
  BY Parts DEF TypeOK
<1>2. UNCHANGED <<setup, pdr, open, lost, req, snd, pkt, ended, wrong, fault>>
  BY DEF QuotaStops, QuotaResumes, sockets, tunnels
<1>3. PICK back \in BOOLEAN, saved \in {"none", "buff", "other"} :
        /\ far' = [far EXCEPT ![f] = [far[f] EXCEPT !.buff = back, !.saved = saved]]
        /\ excused' = IF back THEN excused \cup Alive(OfFar(f)) ELSE excused
  <2>1. CASE QuotaStops(f)
    <3>1. /\ far' = [far EXCEPT ![f].saved = IF far[f].buff THEN "buff" ELSE "other",
                                ![f].buff = FALSE]
          /\ excused' = excused
      BY <2>1 DEF QuotaStops, sockets
    <3>2. PICK s \in {"buff", "other"} : s = IF far[f].buff THEN "buff" ELSE "other"
      OBVIOUS
    <3>3. far' = [far EXCEPT ![f] = [far[f] EXCEPT !.saved = s, !.buff = FALSE]]
      BY <1>1, <3>1, <3>2 DEF TypeOK
    <3>4. [far[f] EXCEPT !.saved = s, !.buff = FALSE]
            = [far[f] EXCEPT !.buff = FALSE, !.saved = s]
      BY <1>1 DEF FarType
    <3>. QED
      BY <3>1, <3>3, <3>4
  <2>2. CASE QuotaResumes(f)
    <3>1. PICK back : back = (far[f].there /\ far[f].saved = "buff")
      OBVIOUS
    <3>2. back \in BOOLEAN
      BY <1>1, <3>1 DEF FarType
    <3>3. /\ far' = [far EXCEPT ![f].buff = back, ![f].saved = "none"]
          /\ excused' = IF back THEN excused \cup Alive(OfFar(f)) ELSE excused
      BY <2>2, <3>1 DEF QuotaResumes
    <3>4. far' = [far EXCEPT ![f] = [far[f] EXCEPT !.buff = back, !.saved = "none"]]
      BY <1>1, <3>3 DEF TypeOK
    <3>. QED
      BY <3>2, <3>3, <3>4
  <2>. QED
    BY <2>1, <2>2
<1>4. /\ far' \in [Far -> FarType] /\ far'[f].buff = back
      /\ \A g \in Far : /\ far'[g].there = far[g].there /\ (g # f => far'[g] = far[g])
                        /\ far'[g].param = far[g].param /\ far'[g].hdr = far[g].hdr
                        /\ far'[g].teid = far[g].teid /\ far'[g].peer = far[g].peer
  <2>1. PICK new : new = [far[f] EXCEPT !.buff = back, !.saved = saved]
    OBVIOUS
  <2>2. /\ new \in FarType /\ new.buff = back /\ new.there = far[f].there
        /\ new.param = far[f].param /\ new.hdr = far[f].hdr
        /\ new.teid = far[f].teid /\ new.peer = far[f].peer
    BY <1>1, <2>1 DEF FarType
  <2>. QED
    BY <1>1, <1>3, <2>1, <2>2 DEF TypeOK
<1>5. TypeOK'
  BY <1>1, <1>2, <1>3, <1>4 DEF TypeOK, Alive, OfFar
<1>6. SockInv'
  <2>1. SocketsExact' /\ SndWhole'
    BY <1>1, <1>2, <1>5, SocketsSame DEF SockInv, TypeOK
  <2>. QED
    BY <1>1, <1>2, <2>1 DEF SockInv, LiveListed
<1>7. BufferReady'
  <2>. SUFFICES ASSUME NEW p \in Pdr, pdr[p].st = "live", pdr[p].path = "unix",
                       far'[setup.far[p]].there, Wants(far, p)',
                       ~(req.at = "peer" /\ req.far = setup.far[p])
                PROVE  pdr[p].sock # None \/ p \in excused'
    BY <1>2 DEF BufferReady
  <2>1. CASE back /\ setup.far[p] = f
    BY <1>1, <1>3, <2>1 DEF Alive, OfFar, SockInv, LiveListed
  <2>2. CASE ~(back /\ setup.far[p] = f)
    <3>1. far[setup.far[p]].there /\ Wants(far, p)
      BY <1>1, <1>2, <1>4, <2>2, SetupIs DEF Wants, HasUrr
    <3>. QED
      BY <1>1, <1>3, <3>1 DEF BufferReady
  <2>. QED
    BY <2>1, <2>2
<1>8. TunInv'
  BY <1>1, <1>2, <1>4, TunnelsSame
<1>. QED
  BY <1>5, <1>6, <1>7, <1>8 DEF IInv, SockInv, TunInv

-----------------------------------------------------------------------------
\* A PDR goes

LEMMA DeletePdrInv ==
  ASSUME IInv, NEW p \in Pdr, DeletePdr(p)
  PROVE  IInv'
<1>1. TypeOK /\ SockInv /\ BufferReady /\ TunInv /\ pdr[p] \in PdrType
  BY Parts DEF TypeOK
<1>2. /\ pdr' = [pdr EXCEPT ![p].st = "dying", ![p].listed = FALSE]
      /\ excused' = excused \ {p}
      /\ UNCHANGED <<setup, far, open, lost, req, snd, pkt, ended, wrong, fault>>
  BY DEF DeletePdr, tunnels
<1>3. PICK new : new = [pdr[p] EXCEPT !.st = "dying", !.listed = FALSE]
  OBVIOUS
<1>4. /\ new \in PdrType /\ new.st = "dying" /\ new.sock = pdr[p].sock
      /\ pdr' = [pdr EXCEPT ![p] = new]
  BY <1>1, <1>2, <1>3 DEF TypeOK, PdrType
<1>5. /\ pdr' \in [Pdr -> PdrType] /\ pdr'[p].st = "dying" /\ pdr'[p].sock = pdr[p].sock
      /\ \A q \in Pdr : q # p => pdr'[q] = pdr[q]
  BY <1>1, <1>4 DEF TypeOK
<1>6. TypeOK'
  BY <1>1, <1>2, <1>5 DEF TypeOK
<1>7. SockInv'
  <2>1. \A q \in Pdr : pdr'[q].sock = pdr[q].sock
    BY <1>5
  <2>2. SocketsExact' /\ SndWhole'
    BY <1>1, <1>2, <1>5, <2>1, SocketsSame DEF SockInv
  <2>. QED
    BY <1>1, <1>5, <2>2 DEF SockInv, LiveListed
<1>8. BufferReady'
  BY <1>1, <1>2, <1>5 DEF BufferReady, Wants, HasUrr
<1>9. TunInv'
  BY <1>1, <1>2, TunnelsSame
<1>. QED
  BY <1>6, <1>7, <1>8, <1>9 DEF IInv, SockInv, TunInv

\* The socket that goes is that of no packet handler: none has the PDR.
LEMMA FreePdrInv ==
  ASSUME IInv, NEW p \in Pdr, FreePdr(p)
  PROVE  IInv'
<1>1. TypeOK /\ SockInv /\ BufferReady /\ TunInv /\ pdr[p] \in PdrType
  BY Parts DEF TypeOK
<1>2. /\ pdr[p].st = "dying" /\ snd.pdr # p
      /\ pdr' = [pdr EXCEPT ![p] = [NoPdr EXCEPT !.listed = pdr[p].listed]]
      /\ IF pdr[p].path = "netlink"
         THEN lost' = lost \cup ({pdr[p].sock} \ {None}) /\ UNCHANGED open
         ELSE open' = open \ {pdr[p].sock} /\ UNCHANGED lost
      /\ UNCHANGED <<setup, far, excused, req, snd, pkt, ended, wrong, fault>>
  BY DEF FreePdr, tunnels
<1>3. PICK new : new = [NoPdr EXCEPT !.listed = pdr[p].listed]
  OBVIOUS
<1>4. new \in PdrType /\ new.st = "free" /\ new.sock = None
  BY <1>1, <1>3 DEF NoPdr, PdrType
<1>5. /\ pdr' \in [Pdr -> PdrType] /\ pdr'[p].st = "free" /\ pdr'[p].sock = None
      /\ \A q \in Pdr : q # p => pdr'[q] = pdr[q]
  BY <1>1, <1>2, <1>3, <1>4 DEF TypeOK
<1>6. open' \in SUBSET Sock /\ lost' \in SUBSET Sock
  BY <1>1, <1>2 DEF TypeOK, PdrType
<1>7. /\ None \notin Sock
      /\ \A s \in Sock : s \in open <=> s \in lost \/ \E q \in Pdr : pdr[q].sock = s
      /\ \A q, r \in Pdr : pdr[q].sock # None =>
           pdr[q].sock \notin lost /\ (pdr[r].sock = pdr[q].sock => r = q)
      /\ snd # NoSnd /\ ~snd.torn => snd.sock \in open /\ pdr[snd.pdr].sock = snd.sock
  BY <1>1, SocketsAre, FarUpdateAssumption DEF SockInv
<1>8. \A q \in Pdr : q # p => pdr[q].sock = None \/ pdr[q].sock # pdr[p].sock
  BY <1>7
<1>9. \A s \in Sock : s \in open' <=> s \in lost' \/ \E q \in Pdr : pdr'[q].sock = s
  <2>1. ASSUME NEW s \in Sock
        PROVE  (\E q \in Pdr : pdr'[q].sock = s) <=> \E q \in Pdr : q # p /\ pdr[q].sock = s
    BY <1>5, <1>7
  <2>2. CASE pdr[p].path = "netlink"
    BY <1>2, <1>7, <2>1, <2>2
  <2>3. CASE pdr[p].path # "netlink"
    BY <1>2, <1>7, <1>8, <2>1, <2>3
  <2>. QED
    BY <2>2, <2>3
<1>10. \A q, r \in Pdr : pdr'[q].sock # None =>
         pdr'[q].sock \notin lost' /\ (pdr'[r].sock = pdr'[q].sock => r = q)
  <2>1. ASSUME NEW q \in Pdr, NEW r \in Pdr, pdr'[q].sock # None
        PROVE  pdr'[q].sock \notin lost' /\ (pdr'[r].sock = pdr'[q].sock => r = q)
    <3>1. q # p /\ pdr'[q] = pdr[q] /\ pdr[q].sock # pdr[p].sock
      BY <1>5, <1>8, <2>1
    <3>2. pdr'[q].sock \notin lost'
      BY <1>2, <1>7, <2>1, <3>1
    <3>. QED
      BY <1>5, <1>7, <2>1, <3>1, <3>2
  <2>. QED
    BY <2>1
<1>11. snd' # NoSnd /\ ~snd'.torn => snd'.sock \in open' /\ pdr'[snd'.pdr].sock = snd'.sock
  <2>1. ASSUME snd # NoSnd, ~snd.torn
        PROVE  snd.sock \in open' /\ pdr'[snd.pdr].sock = snd.sock
    <3>1. /\ snd.pdr \in Pdr /\ snd.pdr # p /\ snd.sock \in Sock
          /\ snd.sock \in open /\ pdr[snd.pdr].sock = snd.sock
      BY <1>1, <1>2, <1>7, <2>1 DEF SockInv, SndWhole
    <3>2. pdr'[snd.pdr].sock = snd.sock /\ snd.sock # pdr[p].sock
      BY <1>5, <1>7, <1>8, <3>1
    <3>. QED
      BY <1>2, <3>1, <3>2
  <2>. QED
    BY <1>2, <2>1
<1>12. SockInv'
  <2>1. SocketsExact'
    BY <1>5, <1>6, <1>9, <1>10, <1>11, SocketsAreNext
  <2>. QED
    BY <1>1, <1>2, <1>5, <2>1 DEF SockInv, SndWhole, LiveListed
<1>13. TypeOK'
  BY <1>1, <1>2, <1>5, <1>6 DEF TypeOK
<1>14. BufferReady'
  BY <1>1, <1>2, <1>5 DEF BufferReady, Wants, HasUrr
<1>15. TunInv'
  BY <1>1, <1>2, TunnelsSame
<1>. QED
  BY <1>12, <1>13, <1>14, <1>15 DEF IInv, SockInv, TunInv

-----------------------------------------------------------------------------
\* Packets and end markers

\* Nothing that the sockets rest on changes.
LEMMA PdrsSame ==
  ASSUME TypeOK, BufferReady, LiveListed,
         UNCHANGED <<setup, pdr, far, excused>>, req' = req \/ req.at # "peer"
  PROVE  BufferReady' /\ LiveListed'
<1>1. LiveListed'
  BY DEF LiveListed
<1>2. BufferReady'
  BY DEF BufferReady, Wants, HasUrr
<1>. QED
  BY <1>1, <1>2

LEMMA SendInv ==
  ASSUME IInv, NEW p \in Pdr, StartSend(p) \/ EndSend
  PROVE  IInv'
<1>1. TypeOK /\ SockInv /\ BufferReady /\ TunInv
  BY Parts
<1>2. UNCHANGED <<setup, pdr, far, open, lost, excused, req, pkt, ended, wrong, fault>>
  BY DEF StartSend, EndSend, sockets, tunnels
<1>3. /\ snd' \in SndType
      /\ snd' # NoSnd => /\ snd'.pdr \in Pdr /\ snd'.sock \in Sock /\ ~snd'.torn
                         /\ pdr[snd'.pdr].sock = snd'.sock
  <2>1. CASE EndSend
    BY <2>1 DEF EndSend, NoSnd, SndType
  <2>2. CASE StartSend(p)
    BY <1>1, <2>2 DEF StartSend, NoSnd, SndType, TypeOK, PdrType
  <2>. QED
    BY <2>1, <2>2
<1>4. TypeOK'
  BY <1>1, <1>2, <1>3 DEF TypeOK
<1>5. SocketsExact' /\ SndWhole'
  <2>1. SndWhole'
    BY <1>3 DEF SndWhole
  <2>2. /\ \A s \in Sock : s \in open <=> s \in lost \/ \E q \in Pdr : pdr[q].sock = s
        /\ \A q, r \in Pdr : pdr[q].sock # None =>
             pdr[q].sock \notin lost /\ (pdr[r].sock = pdr[q].sock => r = q)
    BY <1>1, SocketsAre DEF SockInv
  <2>3. /\ \A s \in Sock : s \in open' <=> s \in lost' \/ \E q \in Pdr : pdr'[q].sock = s
        /\ \A q, r \in Pdr : pdr'[q].sock # None =>
             pdr'[q].sock \notin lost' /\ (pdr'[r].sock = pdr'[q].sock => r = q)
        /\ pdr' \in [Pdr -> PdrType] /\ open' \in SUBSET Sock /\ lost' \in SUBSET Sock
    BY <1>1, <1>2, <2>2 DEF TypeOK
  <2>4. snd' # NoSnd /\ ~snd'.torn => snd'.sock \in open' /\ pdr'[snd'.pdr].sock = snd'.sock
    BY <1>2, <1>3, <2>2
  <2>. QED
    BY <2>1, <2>3, <2>4, SocketsAreNext
<1>6. BufferReady' /\ LiveListed'
  BY <1>1, <1>2, PdrsSame DEF SockInv
<1>7. TunInv'
  BY <1>1, <1>2, TunnelsSame
<1>. QED
  BY <1>4, <1>5, <1>6, <1>7 DEF IInv, TunInv

\* The tunnel that ends is not the one the header leads to.
LEMMA SendMarkerInv ==
  ASSUME IInv, SendMarker
  PROVE  IInv'
<1>1. TypeOK /\ SockInv /\ BufferReady /\ TunInv
  BY Parts
<1>2. /\ req.at = "marker" /\ req' = NoReq
      /\ \/ ended' = [ended EXCEPT ![req.far] = @ \cup ({req.old} \ {req.new})]
         \/ UNCHANGED ended
      /\ UNCHANGED <<setup, pdr, far, open, lost, excused, snd, pkt, wrong, fault>>
  BY DEF SendMarker, sockets
<1>3. PICK f \in Far : /\ f = req.far /\ far[f].hdr /\ far[f].teid = req.new
                       /\ req.old \in Tunnel
  BY <1>1, <1>2 DEF TunInv, ReqWhole
<1>4. /\ ended' \in [Far -> SUBSET Tunnel]
      /\ \A g \in Far : g # f => ended'[g] = ended[g]
      /\ \A t : t \in ended'[f] => t \in ended[f] \/ t # far[f].teid
  <2>1. ended \in [Far -> SUBSET Tunnel] /\ {req.old} \ {req.new} \in SUBSET Tunnel
    BY <1>1, <1>3 DEF TypeOK
  <2>2. CASE ended' = [ended EXCEPT ![f] = @ \cup ({req.old} \ {req.new})]
    <3>1. ended'[f] = ended[f] \cup ({req.old} \ {req.new})
      BY <2>1, <2>2
    <3>2. ended' \in [Far -> SUBSET Tunnel] /\ \A g \in Far : g # f => ended'[g] = ended[g]
      BY <2>1, <2>2
    <3>. QED
      BY <1>3, <3>1, <3>2
  <2>3. CASE UNCHANGED ended
    BY <2>1, <2>3
  <2>. QED
    BY <1>2, <1>3, <2>2, <2>3
<1>5. TypeOK'
  <2>1. req' \in ReqType
    BY <1>2 DEF NoReq, ReqType, Header
  <2>. QED
    BY <1>1, <1>2, <1>4, <2>1 DEF TypeOK
<1>6. SocketsExact' /\ SndWhole'
  BY <1>1, <1>2, <1>5, SocketsSame DEF SockInv, TypeOK
<1>7. BufferReady' /\ LiveListed'
  BY <1>1, <1>2, PdrsSame DEF SockInv
<1>8. HeadersWhole'
  <2>1. \A g \in Far : ~Writing(g)
    BY <1>2 DEF Writing
  <2>. QED
    BY <1>1, <1>2, <1>3, <1>4, <2>1 DEF TunInv, HeadersWhole
<1>9. ReqWhole' /\ TunnelsWhole'
  BY <1>1, <1>2 DEF TunInv, ReqWhole, TunnelsWhole, NoReq
<1>10. PktWhole'
  BY <1>1, <1>2 DEF TunInv, PktWhole, TeidNow
<1>. QED
  BY <1>5, <1>6, <1>7, <1>8, <1>9, <1>10 DEF IInv

\* A packet that sets out has read the peer of the tunnel it will leave on.
LEMMA RoutePacketInv ==
  ASSUME IInv, NEW f \in Far, RoutePacket(f)
  PROVE  IInv'
<1>1. TypeOK /\ SockInv /\ BufferReady /\ TunInv
  BY Parts
<1>2. /\ far[f].hdr
      /\ UNCHANGED <<setup, pdr, far, open, lost, excused, req, snd, ended, wrong, fault>>
  BY DEF RoutePacket, sockets
<1>3. PICK over \in BOOLEAN : over = (req.at = "peer" /\ req.far = f)
  OBVIOUS
<1>4. pkt' = [far |-> f, peer |-> far[f].peer, teid |-> 0, ended |-> ended[f],
              overlap |-> over]
  BY <1>3 DEF RoutePacket
<1>5. pkt' \in PktType
  BY <1>1, <1>4 DEF TypeOK, FarType, PktType, Header
<1>6. TypeOK'
  BY <1>1, <1>2, <1>5 DEF TypeOK
<1>7. SocketsExact' /\ SndWhole'
  BY <1>1, <1>2, SocketsSame DEF SockInv, TypeOK
<1>8. BufferReady' /\ LiveListed'
  BY <1>1, <1>2, PdrsSame DEF SockInv
<1>9. PktWhole'
  <2>1. TeidNow' = far[f].teid
    BY <1>2, <1>4 DEF TeidNow
  <2>2. far[f].teid \notin ended[f] /\ (~over => far[f].peer = far[f].teid)
    BY <1>1, <1>2, <1>3 DEF TunInv, HeadersWhole, Writing
  <2>. QED
    BY <1>2, <1>4, <2>1, <2>2 DEF PktWhole
<1>10. HeadersWhole'
  BY <1>1, <1>2 DEF TunInv, HeadersWhole, Writing
<1>11. ReqWhole' /\ TunnelsWhole'
  BY <1>1, <1>2 DEF TunInv, ReqWhole, TunnelsWhole
<1>. QED
  BY <1>6, <1>7, <1>8, <1>9, <1>10, <1>11 DEF IInv

LEMMA PushPacketInv ==
  ASSUME IInv, PushPacket
  PROVE  IInv'
<1>1. TypeOK /\ SockInv /\ BufferReady /\ TunInv
  BY Parts
<1>2. /\ pkt # NoPkt /\ pkt' = NoPkt
      /\ wrong' = IF pkt.peer = TeidNow /\ TeidNow \in pkt.ended THEN "late"
                  ELSE IF pkt.peer # TeidNow /\ ~pkt.overlap THEN "mixed"
                  ELSE wrong
      /\ UNCHANGED <<setup, pdr, far, open, lost, excused, req, snd, ended, fault>>
  BY DEF PushPacket, TeidNow, sockets
<1>3. wrong' = wrong
  BY <1>1, <1>2 DEF TunInv, PktWhole
<1>4. pkt' \in PktType
  BY <1>2 DEF NoPkt, PktType, Header
<1>5. TypeOK'
  BY <1>1, <1>2, <1>3, <1>4 DEF TypeOK
<1>6. SocketsExact' /\ SndWhole'
  BY <1>1, <1>2, SocketsSame DEF SockInv, TypeOK
<1>7. BufferReady' /\ LiveListed'
  BY <1>1, <1>2, PdrsSame DEF SockInv
<1>8. HeadersWhole'
  BY <1>1, <1>2 DEF TunInv, HeadersWhole, Writing
<1>9. ReqWhole' /\ TunnelsWhole' /\ PktWhole'
  BY <1>1, <1>2, <1>3 DEF TunInv, ReqWhole, TunnelsWhole, PktWhole
<1>. QED
  BY <1>5, <1>6, <1>7, <1>8, <1>9 DEF IInv

LEMMA FaultInv ==
  ASSUME IInv, WalkOops \/ SendOops \/ MarkerOops
  PROVE  IInv'
<1>1. TypeOK /\ TunnelsWhole
  BY DEF IInv
<1>2. PICK f \in {"locks", "stale node", "socket", "marker"} : Oops(f)
  BY DEF WalkOops, SendOops, MarkerOops
<1>. QED
  BY <1>1, <1>2, OopsInv

-----------------------------------------------------------------------------
\* The invariant of the specification

LEMMA InitInv == Init => IInv
<1>. SUFFICES ASSUME Init PROVE IInv
  OBVIOUS
<1>1. TypeOK
  <2>1. NoPdr \in PdrType /\ NoReq \in ReqType /\ NoSnd \in SndType
    BY DEF NoPdr, NoReq, NoSnd, PdrType, ReqType, SndType, Header
  <2>2. NoFar \in FarType /\ NoPkt \in PktType
    BY DEF NoFar, NoPkt, FarType, PktType, Header
  <2>. QED
    BY <2>1, <2>2 DEF Init, TypeOK
<1>2. SocketsExact
  <2>1. \A p \in Pdr : pdr[p].sock = None
    BY DEF Init, NoPdr
  <2>2. {pdr[p].sock : p \in Pdr} \ {None} = {}
    BY <2>1
  <2>. QED
    BY <2>1, <2>2 DEF Init, SocketsExact
<1>3. SndWhole /\ ReqWhole /\ PktWhole /\ TunnelsWhole
  BY DEF Init, SndWhole, ReqWhole, PktWhole, TunnelsWhole, NoReq
<1>4. LiveListed /\ BufferReady
  BY DEF Init, LiveListed, BufferReady, NoPdr
<1>5. HeadersWhole
  BY DEF Init, HeadersWhole, NoFar
<1>. QED
  BY <1>1, <1>2, <1>3, <1>4, <1>5 DEF IInv

LEMMA StutterInv == IInv /\ UNCHANGED vars => IInv'
<1>. SUFFICES ASSUME IInv, UNCHANGED vars PROVE IInv'
  OBVIOUS
<1>1. TypeOK /\ SockInv /\ BufferReady /\ TunInv
  BY Parts
<1>2. UNCHANGED <<setup, pdr, far, open, lost, excused, req, snd, pkt, ended, wrong, fault>>
  BY DEF vars, sockets, tunnels
<1>3. TypeOK'
  BY <1>1, <1>2 DEF TypeOK
<1>4. SocketsExact' /\ SndWhole'
  BY <1>1, <1>2, SocketsSame DEF SockInv, TypeOK
<1>5. BufferReady' /\ LiveListed'
  BY <1>1, <1>2, PdrsSame DEF SockInv
<1>6. TunInv'
  BY <1>1, <1>2, TunnelsSame
<1>. QED
  BY <1>3, <1>4, <1>5, <1>6 DEF IInv, TunInv

LEMMA StepInv == IInv /\ [Next]_vars => IInv'
<1>. SUFFICES ASSUME IInv, [Next]_vars PROVE IInv'
  OBVIOUS
<1>1. TypeOK
  BY DEF IInv
<1>2. ASSUME NEW p \in Pdr, NEW path \in {"empty", "unix", "netlink"},
             AddPdr(p, path) \/ UpdatePdr(p, path)
      PROVE  IInv'
  BY <1>2, FillPdrInv DEF AddPdr, UpdatePdr
<1>3. ASSUME NEW p \in Pdr, DeletePdr(p) \/ FreePdr(p) \/ StartSend(p)
      PROVE  IInv'
  BY <1>3, DeletePdrInv, FreePdrInv, SendInv
<1>4. ASSUME NEW r, SetQer(r) \/ SetUrr(r) \/ DeleteQerOrUrr(r)
      PROVE  IInv'
  BY <1>4, SetQerInv, SetUrrInv, DeleteQerOrUrrInv
<1>5. ASSUME NEW f \in Far,
             \/ QuotaStops(f) \/ QuotaResumes(f) \/ SetPolicy(f)
             \/ SetFarFails(f) \/ DeleteFar(f) \/ RoutePacket(f)
      PROVE  IInv'
  <2>1. CASE QuotaStops(f) \/ QuotaResumes(f)
    BY <2>1, QuotaInv
  <2>2. CASE SetFarFails(f) \/ DeleteFar(f)
    BY <2>2, FarGoneInv
  <2>3. CASE SetPolicy(f) \/ RoutePacket(f)
    BY <2>3, SetPolicyInv, RoutePacketInv
  <2>. QED
    BY <1>5, <2>1, <2>2, <2>3
<1>6. ASSUME NEW f \in Far, NEW buff \in BOOLEAN, NEW t \in Header, SetFar(f, buff, t)
      PROVE  IInv'
  BY <1>6, SetFarInv
<1>7. ASSUME NEW f \in Far, NEW buff \in BOOLEAN, NEW t \in Tunnel, NEW mark \in BOOLEAN,
             BeginUpdateFar(f, buff, t, mark)
      PROVE  IInv'
  BY <1>7, BeginUpdateFarInv
<1>8. CASE UpdateFar \/ SendMarker \/ PushPacket
  BY <1>8, UpdateFarInv, SendMarkerInv, PushPacketInv
<1>9. CASE UpdateFarFails
  <2>1. req.far \in Far
    BY <1>9 DEF IInv, ReqWhole, UpdateFarFails
  <2>. QED
    BY <1>9, <2>1, FarGoneInv
<1>10. CASE WalkOops \/ SendOops \/ MarkerOops
  BY <1>10, FaultInv
<1>11. CASE EndSend
  <2>1. snd.pdr \in Pdr
    BY <1>11 DEF IInv, SndWhole, EndSend
  <2>. QED
    BY <1>11, <2>1, SendInv
<1>12. Range(setup.far) \subseteq Far
  <2>1. setup \in Setups
    BY <1>1, FarUpdateAssumption DEF TypeOK
  <2>. QED
    BY <2>1 DEF Setups, Range
<1>13. CASE UNCHANGED vars
  BY <1>13, StutterInv
<1>. QED
  BY <1>2, <1>3, <1>4, <1>5, <1>6, <1>7, <1>8, <1>9, <1>10, <1>11, <1>12, <1>13 DEF Next

\* Whatever requests, packets and faults come in whatever order.
THEOREM FarUpdateInvariance == Spec => []IInv
<1>1. Init => IInv
  BY InitInv
<1>2. IInv /\ [Next]_vars => IInv'
  BY StepInv
<1>. QED
  BY <1>1, <1>2, PTL DEF Spec

\* pfcp/pdr.c, far.c: every structure keeps the shape its fields are declared
\* with.
THEOREM FarUpdateTypes == Spec => []TypeOK
<1>1. IInv => TypeOK
  BY DEF IInv
<1>. QED
  BY <1>1, FarUpdateInvariance, PTL

\* unix_sock_client_update, unix_sock_client_delete, pdr_context_free: a
\* socket belongs to one PDR or to nobody any more, and no packet handler sends
\* on a socket that the freeing of a PDR has released.
THEOREM SocketsAreExact == Spec => []SocketsExact
<1>1. IInv => SocketsExact
  BY DEF IInv
<1>. QED
  BY <1>1, FarUpdateInvariance, PTL

\* pdr_update, far_update, qer_update, urr_update: a PDR that needs a socket to
\* buffer or to report on has one, but for the named ways to lose it.
THEOREM BuffersReady == Spec => []BufferReady
<1>1. IInv => BufferReady
  BY DEF IInv
<1>. QED
  BY <1>1, FarUpdateInvariance, PTL

\* header_creation_fill, far_fill, gtp5g_fwd_skb_ipv4: a packet leaves on one
\* tunnel, and on none that has had its end marker, unless the header was
\* rewritten while the packet was on its way.
THEOREM TunnelsAreWhole == Spec => []TunnelsWhole
<1>1. IInv => TunnelsWhole
  BY DEF IInv
<1>. QED
  BY <1>1, FarUpdateInvariance, PTL

=============================================================================
