------------------------------ MODULE FarUpdate ------------------------------
(***************************************************************************)
(* What a change of the rules means to the packets under way: the socket   *)
(* on which the packets of a PDR are handed to user space while its FAR    *)
(* buffers, and the tunnel header of a FAR with the end marker that closes *)
(* the old tunnel.                                                         *)
(*                                                                         *)
(* Netlink handlers hold genl_mutex, one at a time.  They close and open   *)
(* sockets, and rewrite a header, in place, while packet handlers use      *)
(* them: one that sends on a socket (snd), and one that reads the header   *)
(* of a FAR twice, for the route and for the packet (pkt).                 *)
(*                                                                         *)
(* Which PDRs name which rules is fixed, and a PDR points to its FAR       *)
(* whenever there is one: RuleTables has how the pointers and nodes come   *)
(* about.  Related nodes are here because a PDR whose adding fails stays   *)
(* on them.                                                                *)
(***************************************************************************)
EXTENDS Naturals, FiniteSets, Functions

CONSTANTS
  Pdr, Far,
  Qer, Urr,
  Sock,       \* addresses of sockets
  Tunnel,     \* outer headers: a TEID and a peer address that go together
  Setup,      \* the ways the rules name each other
  None

Setups ==
  [far : [Pdr -> Far],
   urrs : [Pdr -> SUBSET Urr],                \* urr_ids
   walk : [Qer \cup Urr -> SUBSET Pdr]]       \* related PDRs that have the id

ASSUME FarUpdateAssumption ==
  /\ Tunnel \subseteq Nat \ {0}
  /\ Setup \subseteq Setups
  /\ \A s \in Setup, p \in Pdr : \A u \in s.urrs[p] : p \in s.walk[u]
  /\ None \notin Pdr \cup Far \cup Sock

VARIABLES
  setup,
  pdr,        \* PDR -> its life, socket path and socket
  far,        \* FAR -> its action and header
  open,       \* sockets that are open
  lost,       \* those to which no pointer is left
  req,        \* a FAR update between its writes
  snd,        \* a packet handler that sends on a socket
  pkt,        \* a packet handler between its two reads of a header
  wrong,      \* what was wrong with the header of a packet, or "none"
  ended,      \* FAR -> tunnels closed by an end marker and not set again
  excused,    \* PDRs whose socket was taken from them, or did not connect
  fault       \* the first kernel fault, or "none"

sockets == <<open, lost, excused>>
tunnels == <<pkt, ended, wrong>>
vars == <<setup, pdr, far, sockets, req, snd, tunnels, fault>>

NoPdr == [st |-> "free", path |-> "empty", sock |-> None, listed |-> FALSE]
NoFar == [there |-> FALSE, buff |-> FALSE, saved |-> "none", param |-> FALSE, hdr |-> FALSE,
          teid |-> 0, peer |-> 0]
NoReq == [at |-> "none", far |-> None, new |-> 0, old |-> 0, mark |-> FALSE, pdr |-> None]
NoSnd == [pdr |-> None, sock |-> None, torn |-> FALSE]
NoPkt == [far |-> None, peer |-> 0, teid |-> 0, ended |-> {}, overlap |-> FALSE]

Header == Tunnel \cup {0}

PdrType ==
  [st : {"free", "live", "dying"}, path : {"empty", "unix", "netlink"},
   sock : Sock \cup {None}, listed : BOOLEAN]
FarType ==
  [there : BOOLEAN, buff : BOOLEAN, saved : {"none", "buff", "other"},
   param : BOOLEAN, hdr : BOOLEAN, teid : Header, peer : Header]
ReqType ==
  [at : {"none", "peer", "marker"}, far : Far \cup {None}, new : Header,
   old : Header, mark : BOOLEAN, pdr : Pdr \cup {None}]
SndType == [pdr : Pdr \cup {None}, sock : Sock \cup {None}, torn : BOOLEAN]
PktType ==
  [far : Far \cup {None}, peer : Header, teid : Header, ended : SUBSET Tunnel,
   overlap : BOOLEAN]

TypeOK ==
  /\ setup \in Setup
  /\ pdr \in [Pdr -> PdrType]
  /\ far \in [Far -> FarType]
  /\ open \subseteq Sock /\ lost \subseteq Sock /\ excused \subseteq Pdr
  /\ req \in ReqType
  /\ snd \in SndType
  /\ pkt \in PktType
  /\ wrong \in {"none", "mixed", "late"}
  /\ ended \in [Far -> SUBSET Tunnel]
  /\ fault \in {"none", "locks", "stale node", "socket", "marker"}

Init ==
  /\ setup \in Setup
  /\ pdr = [p \in Pdr |-> NoPdr]
  /\ far = [f \in Far |-> NoFar]
  /\ open = {} /\ lost = {} /\ excused = {}
  /\ req = NoReq
  /\ snd = NoSnd /\ pkt = NoPkt /\ wrong = "none"
  /\ ended = [f \in Far |-> {}]
  /\ fault = "none"

-----------------------------------------------------------------------------
\* Buffering sockets

Running == fault = "none"

\* The kernel stops: what there was matters no more.
Oops(f) ==
  /\ fault' = f
  /\ pdr' = [p \in Pdr |-> NoPdr] /\ far' = [h \in Far |-> NoFar]
  /\ open' = {} /\ lost' = {} /\ excused' = {}
  /\ req' = NoReq /\ snd' = NoSnd /\ pkt' = NoPkt /\ ended' = [h \in Far |-> {}]
  /\ UNCHANGED <<setup, wrong>>

\* Nodes in the related_*_hash tables lead to these PDRs.
OfFar(f) == {p \in Pdr : pdr[p].listed /\ setup.far[p] = f}
OfRule(r) == {p \in Pdr : pdr[p].listed /\ p \in setup.walk[r]}

Alive(S) == {p \in S : pdr[p].st = "live"}
Stale(S) == \E p \in S : pdr[p].st = "free"

HasUrr(p) == setup.urrs[p] # {}

\* (far && (far->action & FAR_ACTION_BUFF)) || pdr->urr_num > 0.
Wants(fars, p) == (fars[setup.far[p]].there /\ fars[setup.far[p]].buff) \/ HasUrr(p)

\* The sockets of the PDRs S that unix_sock_client_delete closes.
Closed(S) == {pdr[p].sock : p \in {q \in S : pdr[q].path # "netlink"}} \ {None}
Torn(S) == [snd EXCEPT !.torn = @ \/ (snd.sock # None /\ snd.sock \in Closed(S))]

\* unix_sock_client_delete of every PDR in S.
ClientDelete(S) ==
  /\ pdr' = [p \in Pdr |-> IF p \in S /\ pdr[p].path # "netlink"
                           THEN [pdr[p] EXCEPT !.sock = None] ELSE pdr[p]]
  /\ open' = open \ Closed(S)
  /\ snd' = Torn(S)
  /\ excused' = excused \cup Alive(S)
  /\ UNCHANGED lost

\* The sockets there can be after S have closed theirs and ok opened new ones.
Opened(S, ok) == {new \in [ok -> Sock \ (open \ Closed(S))] : IsInjective(new)}

\* unix_sock_client_update of every PDR in S: it closes the socket and, if the
\* PDR wants one, opens another, which may fail.
ClientUpdate(S, fars) ==
  LET R == {p \in S : pdr[p].path # "netlink"}
      tries == {p \in R : Wants(fars, p)}
  IN  \E ok \in SUBSET {p \in tries : pdr[p].path = "unix"} :
        \E new \in Opened(S, ok) :
          /\ pdr' = [p \in Pdr |-> IF p \notin R THEN pdr[p]
                                   ELSE [pdr[p] EXCEPT !.sock = IF p \in ok THEN new[p] ELSE None]]
          /\ open' = (open \ Closed(S)) \cup Range(new)
          /\ snd' = Torn(S)
          /\ excused' = (excused \ R) \cup Alive(tries \ ok)
          /\ UNCHANGED lost

-----------------------------------------------------------------------------
\* Requests

Free == Running /\ req = NoReq

\* A list leads to a PDR that failed and has been freed.
WalkOops ==
  /\ Free
  /\ \E f \in Far : Stale(OfFar(f))
  /\ Oops("stale node")

\* pdr_fill of a PDR whose rules are linked already: the path is copied, then
\* the socket is updated.  If that fails a new PDR is freed and stays on the
\* lists; an old one too, and the locks are kept: what follows is GenlRules'.
FillPdr(p, path) ==
  LET filled == [pdr[p] EXCEPT !.st = "live", !.path = path, !.listed = TRUE]
      old == IF path = "netlink" THEN {} ELSE {pdr[p].sock} \ {None}
      Becomes(to, new) ==
        /\ pdr' = [pdr EXCEPT ![p] = to]
        /\ open' = (open \ old) \cup ({new} \ {None})
        /\ snd' = [snd EXCEPT !.torn = @ \/ (snd.sock # None /\ snd.sock \in old)]
        /\ excused' = IF path = "netlink" THEN excused ELSE excused \ {p}
        /\ UNCHANGED <<setup, far, lost, req, tunnels, fault>>
  IN  \/ path = "netlink" /\ Becomes(filled, None)
      \/ path # "netlink" /\ ~Wants(far, p) /\ Becomes([filled EXCEPT !.sock = None], None)
      \/ /\ path = "unix" /\ Wants(far, p)
         /\ \E s \in Sock \ (open \ old) : Becomes([filled EXCEPT !.sock = s], s)
      \/ /\ path # "netlink" /\ Wants(far, p)
         /\ IF pdr[p].st = "live" THEN Oops("locks")
            ELSE Becomes([filled EXCEPT !.st = "dying", !.sock = None], None)

AddPdr(p, path) == Free /\ pdr[p] = NoPdr /\ FillPdr(p, path)

\* The path may be left as it is; none is ever taken away.
UpdatePdr(p, path) ==
  /\ Free
  /\ pdr[p].st = "live"
  /\ path = "empty" => pdr[p].path = "empty"
  /\ FillPdr(p, path)

\* Closes the socket at once.
Mut_DeletePdr(p) ==
  /\ Free
  /\ pdr[p].st = "live"
  /\ pdr' = [pdr EXCEPT ![p].st = "dying", ![p].listed = FALSE, ![p].sock = None]
  /\ open' = open \ {pdr[p].sock}
  /\ UNCHANGED <<setup, far, lost, excused, req, snd, tunnels, fault>>

DeletePdr(p) ==
  /\ Free
  /\ pdr[p].st = "live"
  /\ pdr' = [pdr EXCEPT ![p].st = "dying", ![p].listed = FALSE]
  /\ excused' = excused \ {p}
  /\ UNCHANGED <<setup, far, open, lost, req, snd, tunnels, fault>>

\* Takes a PDR without a socket for one that has lost it.
Mut_FreePdr(p) ==
  /\ Running
  /\ pdr[p].st = "dying"
  /\ snd.pdr # p
  /\ pdr' = [pdr EXCEPT ![p] = [NoPdr EXCEPT !.listed = pdr[p].listed]]
  /\ IF pdr[p].path = "netlink"
     THEN lost' = lost \cup {pdr[p].sock} /\ UNCHANGED open
     ELSE open' = open \ {pdr[p].sock} /\ UNCHANGED lost
  /\ UNCHANGED <<setup, far, excused, req, snd, tunnels, fault>>

\* pdr_context_free, once no packet handler has the PDR any more.  A socket
\* stays open when the path has become "/" since it was made.
FreePdr(p) ==
  /\ Running
  /\ pdr[p].st = "dying"
  /\ snd.pdr # p
  /\ pdr' = [pdr EXCEPT ![p] = [NoPdr EXCEPT !.listed = pdr[p].listed]]
  /\ IF pdr[p].path = "netlink"
     THEN lost' = lost \cup ({pdr[p].sock} \ {None}) /\ UNCHANGED open
     ELSE open' = open \ {pdr[p].sock} /\ UNCHANGED lost
  /\ UNCHANGED <<setup, far, excused, req, snd, tunnels, fault>>

\* A QER or URR is added or replaced, or deleted.  Which of them there are
\* makes no difference, but that the replace of a QER keeps the locks.
SetQer(q) ==
  /\ Free
  /\ ~Stale(OfRule(q))
  /\ \/ ClientUpdate(OfRule(q), far) /\ UNCHANGED <<setup, far, req, tunnels, fault>>
     \/ Oops("locks")

SetUrr(u) ==
  /\ Free
  /\ ~Stale(OfRule(u))
  /\ ClientUpdate(OfRule(u), far)
  /\ UNCHANGED <<setup, far, req, tunnels, fault>>

\* The sockets of the related PDRs are closed whatever their FARs do.  The
\* actions that a URR has saved go with it.
DeleteQerOrUrr(r) ==
  /\ Free
  /\ ~Stale(OfRule(r))
  /\ ClientDelete(OfRule(r))
  /\ \/ UNCHANGED far
     \/ r \in Urr /\ far' = [f \in Far |-> IF \E p \in OfFar(f) : r \in setup.urrs[p]
                                          THEN [far[f] EXCEPT !.saved = "none"] ELSE far[f]]
  /\ UNCHANGED <<setup, req, tunnels, fault>>

\* A URR stops: the action of the FAR is saved and becomes DROP, in a packet
\* handler; it resumes with a request.  Neither looks at the sockets.
OfUrr(f) == \E p \in OfFar(f) : HasUrr(p)

QuotaStops(f) ==
  /\ Running
  /\ far[f].there /\ far[f].saved = "none" /\ OfUrr(f)
  /\ far' = [far EXCEPT ![f].saved = IF far[f].buff THEN "buff" ELSE "other", ![f].buff = FALSE]
  /\ UNCHANGED <<setup, pdr, sockets, req, snd, tunnels, fault>>

QuotaResumes(f) ==
  /\ Free
  /\ far[f].saved # "none" /\ OfUrr(f)
  /\ LET back == far[f].there /\ far[f].saved = "buff"
     IN  /\ far' = [far EXCEPT ![f].buff = back, ![f].saved = "none"]
         /\ excused' = IF back THEN excused \cup Alive(OfFar(f)) ELSE excused
  /\ UNCHANGED <<setup, pdr, open, lost, req, snd, tunnels, fault>>

-----------------------------------------------------------------------------
\* FARs

\* A header is written in place: TEID, then peer address.  Only a header in
\* forwarding parameters that a packet handler can see is written in steps.
SetTeid(f, t) == [far[f] EXCEPT !.teid = t, !.hdr = TRUE]

\* The sockets follow the action that the FAR had before.
Mut_SetFar(f, buff, t) ==
  /\ Free
  /\ ~Stale(OfFar(f))
  /\ t # 0 => ~far[f].param
  /\ LET new == [far[f] EXCEPT !.there = TRUE, !.buff = buff]
     IN  far' = [far EXCEPT ![f] =
                   IF t = 0 THEN new
                   ELSE [new EXCEPT !.param = TRUE, !.hdr = TRUE, !.teid = t, !.peer = t]]
  /\ ClientUpdate(OfFar(f), far)
  /\ UNCHANGED <<setup, req, tunnels, fault>>

\* A FAR update without an outer header, or with the first one.
SetFar(f, buff, t) ==
  /\ Free
  /\ ~Stale(OfFar(f))
  /\ t # 0 => ~far[f].param
  /\ LET new == [far[f] EXCEPT !.there = TRUE, !.buff = buff]
         fars == [far EXCEPT ![f] =
                    IF t = 0 THEN new
                    ELSE [new EXCEPT !.param = TRUE, !.hdr = TRUE, !.teid = t, !.peer = t]]
     IN  /\ far' = fars
         /\ ClientUpdate(OfFar(f), fars)
  /\ UNCHANGED <<setup, req, tunnels, fault>>

\* A forwarding policy alone makes forwarding parameters without a header.
SetPolicy(f) ==
  /\ Free
  /\ ~Stale(OfFar(f))
  /\ far[f].there
  /\ LET fars == [far EXCEPT ![f].param = TRUE]
     IN  far' = fars /\ ClientUpdate(OfFar(f), fars)
  /\ UNCHANGED <<setup, req, tunnels, fault>>

\* The tunnel t is in use again: it has not ended.
Revive(f, t) ==
  /\ ended' = [ended EXCEPT ![f] = @ \ {t}]
  /\ pkt' = IF pkt.far = f /\ pkt.teid = 0
             THEN [pkt EXCEPT !.ended = @ \ {t}, !.overlap = TRUE] ELSE pkt

\* An update of the header: the action and the TEID.  The old header is kept
\* for the end marker, if the message asks for one and there is a header.
BeginUpdateFar(f, buff, t, mark) ==
  /\ Free
  /\ ~Stale(OfFar(f))
  /\ far[f].there /\ far[f].param
  /\ req' = [NoReq EXCEPT !.at = "peer", !.far = f, !.new = t, !.old = far[f].teid,
                          !.mark = mark /\ far[f].hdr]
  /\ far' = [far EXCEPT ![f] = [SetTeid(f, t) EXCEPT !.buff = buff]]
  /\ Revive(f, t)
  /\ UNCHANGED <<setup, pdr, sockets, snd, wrong, fault>>

\* The peer address, and far_update, which notes a related PDR for the marker.
UpdateFar ==
  LET f == req.far
      fars == [far EXCEPT ![f].peer = req.new]
  IN  /\ Running
      /\ req.at = "peer"
      /\ ~Stale(OfFar(f))
      /\ far' = fars
      /\ ClientUpdate(OfFar(f), fars)
      /\ \E p \in IF OfFar(f) = {} THEN {None} ELSE OfFar(f) :
           req' = IF req.mark THEN [req EXCEPT !.at = "marker", !.pdr = p] ELSE NoReq
      /\ UNCHANGED <<setup, tunnels, fault>>

\* Off the tables, with the sockets of its PDRs.  A packet handler that has
\* the FAR still reads from it.
RemoveFar(f, hdr) ==
  /\ far' = [far EXCEPT ![f] = [NoFar EXCEPT !.saved = far[f].saved]]
  /\ ClientDelete(OfFar(f))
  /\ ended' = [ended EXCEPT ![f] = {}]
  /\ pkt' = IF pkt.far = f /\ pkt.teid = 0 THEN [pkt EXCEPT !.teid = hdr] ELSE pkt

\* The forwarding policy of the message is bad: the FAR is deleted, without an
\* end marker.
UpdateFarFails ==
  /\ Running
  /\ req.at = "peer"
  /\ ~Stale(OfFar(req.far))
  /\ RemoveFar(req.far, req.new)
  /\ req' = NoReq
  /\ UNCHANGED <<setup, wrong, fault>>

DeleteFar(f) ==
  /\ Free
  /\ far[f].there
  /\ ~Stale(OfFar(f))
  /\ RemoveFar(f, far[f].teid)
  /\ UNCHANGED <<setup, req, wrong, fault>>

\* far_fill fails before it comes to far_update: also a FAR that was not there
\* yet is deleted, and the sockets of the PDRs that name it are closed.
SetFarFails(f) ==
  /\ Free
  /\ ~Stale(OfFar(f))
  /\ RemoveFar(f, far[f].teid)
  /\ UNCHANGED <<setup, req, wrong, fault>>

\* The marker goes to the tunnel the header leads to now.
Mut_SendMarker ==
  /\ Running
  /\ req.at = "marker"
  /\ req.pdr # None
  /\ \/ ended' = [ended EXCEPT ![req.far] = @ \cup {req.new}]
     \/ UNCHANGED ended
  /\ req' = NoReq
  /\ UNCHANGED <<setup, pdr, far, sockets, snd, pkt, wrong, fault>>

\* The marker goes to the tunnel the header led to before; it may be that no
\* skb is left for it.
SendMarker ==
  /\ Running
  /\ req.at = "marker"
  /\ req.pdr # None
  /\ \/ ended' = [ended EXCEPT ![req.far] = @ \cup ({req.old} \ {req.new})]
     \/ UNCHANGED ended
  /\ req' = NoReq
  /\ UNCHANGED <<setup, pdr, far, sockets, snd, pkt, wrong, fault>>

\* No PDR has filled in the socket and the source address: they are whatever
\* was on the stack.
MarkerOops ==
  /\ Running
  /\ req.at = "marker"
  /\ req.pdr = None
  /\ Oops("marker")

-----------------------------------------------------------------------------
\* Packet handlers

\* unix_sock_send: the socket is loaded once and used then, for a packet to
\* buffer or for usage reports.
StartSend(p) ==
  /\ Running
  /\ snd = NoSnd
  /\ pdr[p].st = "live" /\ pdr[p].path # "netlink" /\ pdr[p].sock # None
  /\ far[setup.far[p]].there
  /\ far[setup.far[p]].buff \/ HasUrr(p)
  /\ snd' = [NoSnd EXCEPT !.pdr = p, !.sock = pdr[p].sock]
  /\ UNCHANGED <<setup, pdr, far, sockets, req, tunnels, fault>>

EndSend ==
  /\ Running
  /\ snd # NoSnd
  /\ ~snd.torn
  /\ snd' = NoSnd
  /\ UNCHANGED <<setup, pdr, far, sockets, req, tunnels, fault>>

SendOops ==
  /\ Running
  /\ snd.torn
  /\ Oops("socket")

\* gtp5g_fwd_skb_ipv4: the route is that of the peer address; the TEID is read
\* when the header is pushed.
RoutePacket(f) ==
  /\ Running
  /\ pkt = NoPkt
  /\ far[f].there /\ ~far[f].buff /\ far[f].hdr
  /\ pkt' = [far |-> f, peer |-> far[f].peer, teid |-> 0, ended |-> ended[f],
             overlap |-> req.at = "peer" /\ req.far = f]
  /\ UNCHANGED <<setup, pdr, far, sockets, req, snd, ended, wrong, fault>>

PushPacket ==
  /\ Running
  /\ pkt # NoPkt
  /\ LET teid == IF pkt.teid = 0 THEN far[pkt.far].teid ELSE pkt.teid
     IN  wrong' = IF pkt.peer = teid /\ teid \in pkt.ended THEN "late"
                  ELSE IF pkt.peer # teid /\ ~pkt.overlap THEN "mixed"
                  ELSE wrong
  /\ pkt' = NoPkt
  /\ UNCHANGED <<setup, pdr, far, sockets, req, snd, ended, fault>>

-----------------------------------------------------------------------------
\* Rules that no PDR names change nothing.
Named == {r \in Qer \cup Urr : setup.walk[r] # {}}

Next ==
  \/ WalkOops
  \/ \E p \in Pdr :
       \/ \E path \in {"empty", "unix", "netlink"} : AddPdr(p, path) \/ UpdatePdr(p, path)
       \/ DeletePdr(p) \/ FreePdr(p) \/ StartSend(p)
  \/ \E q \in Qer \cap Named : SetQer(q)
  \/ \E u \in Urr \cap Named : SetUrr(u)
  \/ \E r \in Named : DeleteQerOrUrr(r)
  \/ \E f \in Range(setup.far) :
       \/ QuotaStops(f) \/ QuotaResumes(f) \/ SetPolicy(f) \/ SetFarFails(f) \/ DeleteFar(f) \/ RoutePacket(f)
       \/ \E buff \in BOOLEAN :
            \/ \E t \in Header : SetFar(f, buff, t)
            \/ \E t \in Tunnel, mark \in BOOLEAN : BeginUpdateFar(f, buff, t, mark)
  \/ UpdateFar \/ UpdateFarFails \/ SendMarker \/ MarkerOops
  \/ EndSend \/ SendOops \/ PushPacket

Spec == Init /\ [][Next]_vars

-----------------------------------------------------------------------------
\* Properties

\* Every open socket is that of one PDR, or was lost to a path that became
\* "/"; and the socket a packet handler sends on is open, unless a request
\* has closed it under its hands: freeing a PDR never does.
SocketsExact ==
  /\ open = ({pdr[p].sock : p \in Pdr} \ {None}) \cup lost
  /\ \A p \in Pdr :
       pdr[p].sock # None => /\ pdr[p].sock \notin lost
                             /\ \A q \in Pdr \ {p} : pdr[q].sock # pdr[p].sock
  /\ snd # NoSnd /\ ~snd.torn => snd.sock \in open /\ pdr[snd.pdr].sock = snd.sock

\* A PDR with a path to a socket, whose FAR buffers or which has URRs, has
\* its socket, in whatever order PDR, FAR, QER and URR came: unless the
\* socket did not connect, the deletion of a FAR, a QER or a URR has closed
\* it, or the FAR buffers again because a URR resumed.
BufferReady ==
  \A p \in Pdr :
    /\ pdr[p].st = "live" /\ pdr[p].path = "unix"
    /\ far[setup.far[p]].there /\ Wants(far, p)
    /\ ~(req.at = "peer" /\ req.far = setup.far[p])
    => pdr[p].sock # None \/ p \in excused

\* A packet carries the TEID of one tunnel to the peer of another only if the
\* header changed while it was handled; and no packet that began after the
\* end marker of a tunnel leaves on it, until the FAR is given it again.
TunnelsWhole == wrong = "none"
=============================================================================
