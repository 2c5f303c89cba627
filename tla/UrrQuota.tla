------------------------------- MODULE UrrQuota -------------------------------
(***************************************************************************)
(* Usage reporting rules of one session: the packet handlers count volume  *)
(* against each URR of a PDR, stop a URR whose quota is used up by turning *)
(* the FARs of all its PDRs to DROP, and report to the control plane.  The *)
(* control plane grants quota, which turns the FARs back.                  *)
(*                                                                         *)
(* No lock orders a packet handler with the netlink handler.  check_urr is *)
(* one step per load or store of a URR's counters, urr_fill two steps: the *)
(* fields, then the stop or resume they call for.  Stop and resume are one *)
(* step each.  Volumes are the ones the limits' flags select; URRs measure *)
(* volume (URR_METHOD_VOLUM).                                              *)
(***************************************************************************)
EXTENDS Naturals, Sequences, FiniteSets, SequencesExt, FiniteSetsExt

CONSTANTS
  Pdr, Far, Cpu,
  Uplink,      \* the PDRs found by TEID
  Urr,         \* URR ids
  UrrsOf,      \* PDR -> its urr_ids
  Bucket,      \* URR -> its bucket of related_urr_hash
  Age,         \* PDR -> when its nodes were put at the heads of their buckets
  Lengths,     \* packet volumes
  Action,      \* FAR -> the actions the control plane sets
  Msg,         \* URR -> the attributes an add-URR message may carry
  MayFail,     \* whether allocation and sending can fail
  Links,       \* the ways the PDRs may be linked to FARs
  Polite,      \* the control plane leaves a stopped URR and its FARs alone
  Horizon,     \* bound on the volumes counted
  None

Triggers == {"volth", "volqu", "start"}
Actions == {"DROP", "FORW", "BUFF"}
\* info: the measurement information is present (with INAM clear).  zero: the
\* quota's total volume is zero, which the volume its flags select need not be.
Msgs == [trigger : SUBSET Triggers, info : BOOLEAN,
         threshold : Nat, quota : Nat \cup {None}, zero : BOOLEAN]

ASSUME UrrAssumption ==
  /\ UrrsOf \in [Pdr -> Seq(Urr) \ {<<>>}]
  /\ Bucket \in [Urr -> Nat]
  /\ Age \in [Pdr -> Nat] /\ IsInjective(Age)
  /\ Uplink \subseteq Pdr
  /\ Lengths \subseteq Nat \ {0} /\ \E m \in Lengths : \A n \in Lengths : n <= m
  /\ Action \in [Far -> SUBSET Actions]
  /\ Links \subseteq [Pdr -> Far \cup {None}]
  /\ \A u \in Urr : Msg[u] \subseteq Msgs
  /\ MayFail \in BOOLEAN /\ Polite \in BOOLEAN
  /\ Horizon \in Nat
  /\ None \notin Far \cup Urr \cup Pdr \cup Nat \cup Actions

VARIABLES
  urr,        \* id -> the URR of that id, live or not
  farOf,      \* PDR -> pdr->far
  action,     \* FAR -> far->action
  normal,     \* FAR -> the action the control plane set last
  rx,         \* CPU -> the packet it forwards and its progress in check_urr
  nl,         \* the URR whose urr_fill has its second half to do, and the quota given
  told,       \* id -> has the control plane been told of a stop since its last
              \* grant, or asked for it with a total volume of zero
  passed,     \* id -> volume let through on the quota last granted, or None
              \* once there was no memory to count for the URR or to stop it
  due,        \* id -> volume counted that has not been reported
  dropped,    \* id -> volume cleared and never reported
  tangled,    \* FARs whose DROP a stop has saved as the action to go back to
  oops        \* a kernel fault: a missing URR, a full report array, a double kfree

world == <<farOf, normal>>
gate == <<action, tangled>>
usage == <<due, dropped>>
history == <<told, passed, usage>>
vars == <<urr, world, gate, rx, nl, history, oops>>

NothingSaved == [p \in Pdr |-> <<>>]
NoUrr == [live |-> FALSE, trigger |-> {}, inam |-> FALSE, threshold |-> 0, quota |-> 0,
          bytes |-> 0, consumed |-> 0, exhausted |-> FALSE,
          saved |-> NothingSaved, mem |-> "null"]
Idle == [at |-> "idle", pdr |-> None, len |-> 0, left |-> <<>>,
         bytes |-> 0, consumed |-> 0, out |-> <<>>]
NoFill == [urr |-> None, quota |-> "none"]

UrrType ==
  [live : BOOLEAN, trigger : SUBSET Triggers, inam : BOOLEAN, threshold : Nat,
   quota : Nat, bytes : Nat, consumed : Nat, exhausted : BOOLEAN,
   saved : [Pdr -> Seq(Actions)], mem : {"null", "held", "freed"}]
Report == [urr : Urr \cup {None}, trigger : Triggers]
RxType ==
  [at : {"idle", "next", "store", "send"}, pdr : Pdr \cup {None},
   len : Lengths \cup {0}, left : Seq(Urr \cup {None}), bytes : Nat,
   consumed : Nat, out : Seq(Report)]

TypeOK ==
  /\ urr \in [Urr -> UrrType]
  /\ farOf \in [Pdr -> Far \cup {None}]
  /\ normal \in [Far -> Actions]
  /\ action \in [Far -> Actions]
  /\ rx \in [Cpu -> RxType]
  /\ \A c \in Cpu : rx[c].pdr # None => Len(rx[c].out) <= Len(UrrsOf[rx[c].pdr])
  /\ nl \in [urr : Urr \cup {None}, quota : {"none", "zero", "some"}]
  /\ told \in [Urr -> {"no", "yes", "lost", "asked"}]
  /\ passed \in [Urr -> Nat \cup {None}]
  /\ due \in [Urr -> Nat] /\ dropped \in [Urr -> Nat]
  /\ tangled \subseteq Far
  /\ oops \in BOOLEAN

Init ==
  /\ urr = [u \in Urr |-> NoUrr]
  /\ farOf \in Links
  /\ normal \in {n \in [Far -> Actions] : \A f \in Far : n[f] \in Action[f]}
  /\ action = normal
  /\ rx = [c \in Cpu |-> Idle]
  /\ nl = NoFill
  /\ told = [u \in Urr |-> "no"]
  /\ passed = [u \in Urr |-> 0]
  /\ due = [u \in Urr |-> 0] /\ dropped = [u \in Urr |-> 0]
  /\ tangled = {}
  /\ oops = FALSE

-----------------------------------------------------------------------------
\* Stop and resume

UrrsOn(p) == ToSet(UrrsOf[p])

\* The PDRs of URR u that have a FAR, in the order of the walk.
Related(u) == {p \in Pdr : u \in UrrsOn(p) /\ farOf[p] # None}
Before(p, q) == Age[p] > Age[q]

\* A PDR has a node for each of its URR ids, and the walk looks only at the
\* PDR: it comes to the PDR once for every id in the bucket of u.
Visits(u, p) == Cardinality({i \in DOMAIN UrrsOf[p] : Bucket[UrrsOf[p][i]] = Bucket[u]})

\* What the walk finds at each visit: an earlier one, of this or of another
\* PDR of the FAR, has written DROP.
SavedActions(u) ==
  LET Fresh(p, i) == i = 1 /\ \A q \in Related(u) : Before(q, p) => farOf[q] # farOf[p]
  IN  [p \in Pdr |->
         [i \in 1..(IF p \in Related(u) THEN Visits(u, p) ELSE 0) |->
            IF Fresh(p, i) THEN action[farOf[p]] ELSE "DROP"]]

Fars(u) == {farOf[p] : p \in Related(u)}

\* A stop saves something else than what the control plane set.
Tangles(u) ==
  {f \in Fars(u) :
     \E p \in Related(u) : farOf[p] = f /\ ToSet(SavedActions(u)[p]) # {normal[f]}}

\* Stopping a URR forgets the PDRs after the first.
Mut_QuotaExhaust(u, w, ok) ==
  IF w.exhausted \/ ~ok
  THEN urr' = [urr EXCEPT ![u] = w] /\ UNCHANGED gate
  ELSE /\ urr' = [urr EXCEPT ![u] =
                    [w EXCEPT !.exhausted = TRUE, !.inam = TRUE, !.saved = SavedActions(u),
                              !.mem = IF Related(u) = {} THEN w.mem ELSE "held"]]
       /\ tangled' = tangled \cup Tangles(u)
       /\ action' = [f \in Far |->
                       IF \E p \in Related(u) : farOf[p] = f /\ \A q \in Related(u) : ~Before(q, p)
                       THEN "DROP" ELSE action[f]]

\* urr_quota_exhaust_action on URR u, whose other fields are by now those of
\* w.  ok: both scratch arrays were allocated.
QuotaExhaust(u, w, ok) ==
  IF w.exhausted
  THEN urr' = [urr EXCEPT ![u] = w] /\ UNCHANGED gate
  ELSE IF ~ok
  THEN urr' = [urr EXCEPT ![u] = [w EXCEPT !.saved = NothingSaved]] /\ UNCHANGED gate
  ELSE /\ urr' = [urr EXCEPT ![u] =
                    [w EXCEPT !.exhausted = TRUE, !.inam = TRUE, !.saved = SavedActions(u),
                              !.mem = IF Related(u) = {} THEN w.mem ELSE "held"]]
       /\ action' = [f \in Far |-> IF f \in Fars(u) THEN "DROP" ELSE action[f]]
       /\ tangled' = tangled \cup Tangles(u)

\* The walk restores from the array of PDR ids.
Mut_Restored(u) ==
  [f \in Far |-> IF f \in Fars(u) /\ urr[u].saved # NothingSaved
                 THEN CHOOSE p \in Related(u) : TRUE ELSE action[f]]

\* The restoring walk: at every visit all the entries of the PDR are written,
\* so its last one stays, and of the PDRs of a FAR the last has the last word.
Restored(u) ==
  LET saved == urr[u].saved
      Hits(f) == {p \in Related(u) : farOf[p] = f /\ saved[p] # <<>>}
      LastHit(f) == CHOOSE p \in Hits(f) : \A q \in Hits(f) : ~Before(p, q)
  IN  [f \in Far |-> IF Hits(f) = {} THEN action[f] ELSE Last(saved[LastHit(f)])]

\* urr_reverse_quota_exhaust_action: frees the arrays, keeps the pointers.
\* What was saved is not read again.
ReverseQuotaExhaust(u) ==
  /\ action' = Restored(u)
  /\ UNCHANGED tangled
  /\ urr' = [urr EXCEPT ![u] =
               [urr[u] EXCEPT !.exhausted = FALSE, !.saved = NothingSaved,
                              !.mem = IF urr[u].mem = "null" THEN "null" ELSE "freed"]]

-----------------------------------------------------------------------------
\* The packet handlers

Running == ~oops
Reached(volume, limit) == limit # 0 /\ volume >= limit
Outcome == IF MayFail THEN BOOLEAN ELSE {TRUE}

Metered(u) == urr[u].live /\ "volqu" \in urr[u].trigger /\ urr[u].quota # 0

\* The FAR of p says forward.
Forwards(c, p) ==
  /\ rx[c].at = "idle"
  /\ farOf[p] # None
  /\ action[farOf[p]] = "FORW"

\* The packet goes, then check_urr counts it.
Forward(c, p, len) ==
  /\ Running
  /\ Forwards(c, p)
  /\ \A u \in UrrsOn(p) :
       \A v \in {passed[u], urr[u].bytes, urr[u].consumed} \ {None} : v + len <= Horizon
  /\ passed' = [u \in Urr |->
                  IF u \in UrrsOn(p) /\ Metered(u) /\ passed[u] # None
                  THEN passed[u] + len ELSE passed[u]]
  /\ rx' = [rx EXCEPT ![c] = [at |-> "next", pdr |-> p, len |-> len, left |-> UrrsOf[p],
                              bytes |-> 0, consumed |-> 0, out |-> <<>>]]
  /\ UNCHANGED <<urr, world, gate, nl, told, usage, oops>>

\* check_urr finds no memory for its arrays and counts nothing of the packet.
ForwardUncounted(c, p) ==
  /\ MayFail
  /\ Running
  /\ Forwards(c, p)
  /\ passed' = [u \in Urr |-> IF u \in UrrsOn(p) /\ Metered(u) THEN None ELSE passed[u]]
  /\ UNCHANGED <<urr, world, gate, rx, nl, told, usage, oops>>

\* The arrays for reports have one entry per URR of the PDR.
Room(c) == Len(UrrsOf[rx[c].pdr]) - Len(rx[c].out)
Line(u, t) == [urr |-> u, trigger |-> t]

Unmetered(u, ok) == passed' = IF ok THEN passed ELSE [passed EXCEPT ![u] = None]

\* The loop goes on to the next URR with these reports.
Advance(c, out) ==
  LET rest == Tail(rx[c].left)
      at == IF rest # <<>> THEN "next" ELSE "send"
  IN  rx' = [rx EXCEPT ![c] =
               IF rest = <<>> /\ out = <<>> THEN Idle
               ELSE [rx[c] EXCEPT !.at = at, !.left = rest, !.out = out,
                                  !.bytes = 0, !.consumed = 0]]

\* At the top of check_urr's loop.
AtUrr(c, u) ==
  /\ Running
  /\ rx[c].at = "next"
  /\ Head(rx[c].left) = u
  /\ urr[u].live

Skip(c, u) ==
  /\ AtUrr(c, u)
  /\ urr[u].inam
  /\ Advance(c, rx[c].out)
  /\ UNCHANGED <<urr, world, gate, nl, history, oops>>

\* The URRs that the packet has reports of, and those it has stopped.
Reports(c) == {e.urr : e \in ToSet(rx[c].out)}
Stops(c) == {e.urr : e \in {e \in ToSet(rx[c].out) : e.trigger # "volth"}}
Tell(c, how) == told' = [u \in Urr |-> IF u \in Stops(c) THEN how ELSE told[u]]

\* "no supported trigger": gives up the packet's reports.
NoTrigger(c, u) ==
  /\ AtUrr(c, u)
  /\ ~urr[u].inam
  /\ urr[u].trigger = {}
  /\ rx' = [rx EXCEPT ![c] = Idle]
  /\ Tell(c, "lost")
  /\ UNCHANGED <<urr, world, gate, nl, passed, usage, oops>>

StartHere(c, u) == "start" \in urr[u].trigger /\ rx[c].pdr \in Uplink

StartOfService(c, u) ==
  /\ AtUrr(c, u)
  /\ ~urr[u].inam
  /\ StartHere(c, u)
  /\ Room(c) > 0
  /\ Advance(c, Append(rx[c].out, Line(u, "start")))
  /\ \E ok \in Outcome : QuotaExhaust(u, urr[u], ok) /\ Unmetered(u, ok)
  /\ UNCHANGED <<world, nl, told, usage, oops>>

LoadCounters(c, u) ==
  /\ AtUrr(c, u)
  /\ ~urr[u].inam
  /\ urr[u].trigger # {}
  /\ ~StartHere(c, u)
  /\ rx' = [rx EXCEPT ![c].at = "store", ![c].bytes = urr[u].bytes,
                      ![c].consumed = urr[u].consumed]
  /\ UNCHANGED <<urr, world, gate, nl, history, oops>>

\* A URR that has a quota counts against the quota alone.
Mut_Counted(c, u) ==
  [urr[u] EXCEPT !.bytes = IF "volqu" \in urr[u].trigger THEN urr[u].bytes ELSE rx[c].bytes + rx[c].len,
                 !.consumed = IF "volqu" \in urr[u].trigger
                              THEN rx[c].consumed + rx[c].len ELSE urr[u].consumed]

\* increment_and_check_counter on bytes, then on consumed; w is the URR after.
\* A URR deleted since the load takes its counters with it.
Counted(c, u) ==
  [urr[u] EXCEPT !.bytes = rx[c].bytes + rx[c].len,
                 !.consumed = IF "volqu" \in urr[u].trigger
                              THEN rx[c].consumed + rx[c].len ELSE urr[u].consumed]

\* The quota is compared with the bytes not reported yet.
Mut_OverQuota(w) == "volqu" \in w.trigger /\ Reached(w.bytes, w.quota)

OverThreshold(w) == "volth" \in w.trigger /\ Reached(w.bytes, w.threshold)
OverQuota(w) == "volqu" \in w.trigger /\ Reached(w.consumed, w.quota)

Lines(u, w) ==
  (IF OverThreshold(w) THEN <<Line(u, "volth")>> ELSE <<>>)
    \o (IF OverQuota(w) THEN <<Line(u, "volqu")>> ELSE <<>>)

StoreCounters(c) ==
  /\ Running
  /\ rx[c].at = "store"
  /\ LET u == Head(rx[c].left)
         w == Counted(c, u)
     IN  IF u = None
         THEN Advance(c, rx[c].out) /\ UNCHANGED <<urr, gate, passed, due>>
         ELSE /\ Len(Lines(u, w)) <= Room(c)
              /\ due' = [due EXCEPT ![u] = due[u] + rx[c].len]
              /\ Advance(c, rx[c].out \o Lines(u, w))
              /\ IF OverQuota(w)
                 THEN \E ok \in Outcome : QuotaExhaust(u, w, ok) /\ Unmetered(u, ok)
                 ELSE urr' = [urr EXCEPT ![u] = w] /\ UNCHANGED <<gate, passed>>
  /\ UNCHANGED <<world, nl, told, dropped, oops>>

Less(m, n) == IF m > n THEN m - n ELSE 0

\* No more can have been dropped than is due.
OfDue(n, d) == IF n > d THEN d ELSE n

\* convert_urr_to_report for every report, which takes the URR's bytes and
\* clears them, whether the report reaches anyone or not.
Convert(us, sent) ==
  /\ urr' = [u \in Urr |-> IF u \in us THEN [urr[u] EXCEPT !.bytes = 0] ELSE urr[u]]
  /\ due' = [u \in Urr |-> IF u \in us /\ sent THEN Less(due[u], urr[u].bytes) ELSE due[u]]
  /\ dropped' = [u \in Urr |->
                    OfDue(dropped[u] + (IF u \in us /\ ~sent THEN urr[u].bytes ELSE 0), due'[u])]

\* Only the first report goes out.
Mut_SendReports(c) ==
  /\ Running
  /\ rx[c].at = "send"
  /\ Convert(Reports(c), TRUE)
  /\ told' = [u \in Urr |->
                IF u = rx[c].out[1].urr /\ rx[c].out[1].trigger # "volth" THEN "yes" ELSE told[u]]
  /\ rx' = [rx EXCEPT ![c] = Idle]
  /\ UNCHANGED <<world, gate, nl, passed, oops>>

SendReports(c) ==
  /\ Running
  /\ rx[c].at = "send"
  /\ Convert(Reports(c), TRUE)
  /\ Tell(c, "yes")
  /\ rx' = [rx EXCEPT ![c] = Idle]
  /\ UNCHANGED <<world, gate, nl, passed, oops>>

\* No memory for the reports, or (the bytes cleared) the send failed.
SendFails(c) ==
  /\ MayFail
  /\ Running
  /\ rx[c].at = "send"
  /\ Convert(Reports(c), FALSE) \/ UNCHANGED <<urr, usage>>
  /\ Tell(c, "lost")
  /\ rx' = [rx EXCEPT ![c] = Idle]
  /\ UNCHANGED <<world, gate, nl, passed, oops>>

-----------------------------------------------------------------------------
\* The netlink handlers

\* Netlink handlers run one at a time.
NetlinkReady == Running /\ nl = NoFill
Quiet(us) == Polite => \A u \in us : ~urr[u].exhausted

\* The fields of urr_fill.  Trigger START alone clears the bytes first; a
\* quota sets consumed to the bytes at hand.
Filled(old, m) ==
  LET bytes == IF m.trigger = {"start"} THEN 0 ELSE old.bytes
  IN  [old EXCEPT !.trigger = m.trigger, !.threshold = m.threshold,
                  !.inam = ~m.info /\ old.inam, !.bytes = bytes,
                  !.quota = IF m.quota = None THEN old.quota ELSE m.quota,
                  !.consumed = IF m.quota = None THEN old.consumed ELSE bytes]

AddUrr(u, m) ==
  /\ NetlinkReady
  /\ urr' = [urr EXCEPT ![u] = Filled(urr[u], m)]
  /\ nl' = [urr |-> u, quota |-> IF m.quota = None THEN "none"
                                 ELSE IF m.zero THEN "zero" ELSE "some"]
  /\ told' = [told EXCEPT ![u] = IF m.quota = None THEN told[u] ELSE "no"]
  /\ passed' = [passed EXCEPT ![u] = IF m.quota = None THEN passed[u] ELSE 0]
  /\ dropped' = [dropped EXCEPT ![u] =
                    OfDue(dropped[u] + (urr[u].bytes - Filled(urr[u], m).bytes), due[u])]
  /\ UNCHANGED <<world, gate, rx, due, oops>>

\* A quota whose total volume is zero asks for a stop, if it is for volume
\* quota reports alone.
AsksStop(u) == nl.quota = "zero" /\ urr[u].trigger = {"volqu"}

\* The end of urr_fill: such a quota stops the URR, another resumes it.  A new
\* URR is put in the id hash last.
AddUrrDone(u) ==
  LET w == [urr[u] EXCEPT !.live = TRUE]
  IN  /\ Running
      /\ nl.urr = u
      /\ \/ /\ AsksStop(u)
            /\ \E ok \in Outcome : QuotaExhaust(u, w, ok)
            /\ told' = [told EXCEPT ![u] = "asked"]
         \/ /\ nl.quota # "none" /\ ~AsksStop(u)
            /\ urr[u].exhausted /\ urr[u].mem # "freed"
            /\ ReverseQuotaExhaust(u)
            /\ UNCHANGED told
         \/ /\ nl.quota # "none" => ~AsksStop(u) /\ ~urr[u].exhausted
            /\ urr' = [urr EXCEPT ![u] = w]
            /\ UNCHANGED <<gate, told>>
      /\ nl' = NoFill
      /\ UNCHANGED <<world, rx, passed, usage, oops>>

\* Reports the usage and clears it; the reply may not arrive.
GetReport(u) ==
  /\ NetlinkReady
  /\ urr[u].live
  /\ \E sent \in Outcome : Convert({u}, sent)
  /\ UNCHANGED <<world, gate, rx, nl, told, passed, oops>>

\* A request for the usage of several URRs.  One that fails at a URR that is
\* not there has cleared those it came past, and drops their reports.
GetReports(us) ==
  /\ NetlinkReady
  /\ us # {}
  /\ \A u \in us : urr[u].live
  /\ \E sent \in BOOLEAN : Convert(us, sent)
  /\ UNCHANGED <<world, gate, rx, nl, told, passed, oops>>

\* The URR leaves the id hash.  A packet handler that has looked it up keeps
\* the dying object, which no later lookup finds: here None.
Orphaned(r, u) ==
  [r EXCEPT
     !.left = IF r.at = "store" /\ Head(r.left) = u THEN <<None>> \o Tail(r.left) ELSE r.left,
     !.out = [i \in DOMAIN r.out |->
                IF r.out[i].urr = u THEN Line(None, r.out[i].trigger) ELSE r.out[i]]]

DelUrr(u) ==
  /\ NetlinkReady
  /\ urr[u].live
  /\ Quiet({u})
  /\ urr' = [urr EXCEPT ![u] = NoUrr]
  /\ rx' = [c \in Cpu |-> Orphaned(rx[c], u)]
  /\ passed' = [passed EXCEPT ![u] = 0]
  /\ told' = [told EXCEPT ![u] = "no"]
  /\ due' = [due EXCEPT ![u] = 0]
  /\ dropped' = [dropped EXCEPT ![u] = 0]
  /\ UNCHANGED <<world, gate, nl, oops>>

FarUrrs(f) == UNION {UrrsOn(p) : p \in {p \in Pdr : farOf[p] = f}}

\* far_fill with a new apply action.
SetAction(f, a) ==
  /\ NetlinkReady
  /\ Quiet(FarUrrs(f))
  /\ action' = [action EXCEPT ![f] = a]
  /\ normal' = [normal EXCEPT ![f] = a]
  /\ tangled' = tangled \ {f}
  /\ UNCHANGED <<urr, farOf, rx, nl, history, oops>>

\* The PDR's FAR is deleted, added, or another one.
LinkFar(p, f) ==
  /\ NetlinkReady
  /\ Quiet(UrrsOn(p))
  /\ f # None => Quiet(FarUrrs(f))
  /\ farOf' = [farOf EXCEPT ![p] = f]
  /\ farOf' \in Links
  /\ UNCHANGED <<urr, normal, gate, rx, nl, history, oops>>

-----------------------------------------------------------------------------
\* Faults

Oops == oops' = TRUE /\ UNCHANGED <<urr, world, gate, rx, nl, history>>

\* check_urr does not test what find_urr_by_id returns.
MissingUrr(c) == Running /\ rx[c].at = "next" /\ ~urr[Head(rx[c].left)].live /\ Oops

\* A URR may have a threshold and a quota report in one packet.
ReportsOverflow(c) ==
  /\ Running
  /\ rx[c].at = "store"
  /\ LET u == Head(rx[c].left) IN u # None /\ Len(Lines(u, Counted(c, u))) > Room(c)
  /\ Oops

\* The saved arrays are freed twice when nothing was saved in between.
DoubleFree(u) ==
  /\ Running
  /\ nl.urr = u /\ nl.quota # "none" /\ ~AsksStop(u)
  /\ urr[u].exhausted /\ urr[u].mem = "freed"
  /\ Oops

-----------------------------------------------------------------------------
CheckUrr(c) ==
  \/ \E u \in Urr : Skip(c, u) \/ NoTrigger(c, u) \/ StartOfService(c, u) \/ LoadCounters(c, u)
  \/ StoreCounters(c)
  \/ SendReports(c)
  \/ SendFails(c)
  \/ MissingUrr(c)
  \/ ReportsOverflow(c)

FillDone == \E u \in Urr : AddUrrDone(u) \/ DoubleFree(u)

Netlink ==
  \/ \E u \in Urr : (\E m \in Msg[u] : AddUrr(u, m)) \/ GetReport(u) \/ DelUrr(u)
  \/ \E us \in SUBSET Urr : GetReports(us)
  \/ \E f \in Far : \E a \in Action[f] : SetAction(f, a)
  \/ \E p \in Pdr, f \in Far \cup {None} : LinkFar(p, f)

Next ==
  \/ \E c \in Cpu, p \in Pdr, len \in Lengths : Forward(c, p, len)
  \/ \E c \in Cpu, p \in Pdr : ForwardUncounted(c, p)
  \/ \E c \in Cpu : CheckUrr(c)
  \/ FillDone
  \/ Netlink

Spec == Init /\ [][Next]_vars

-----------------------------------------------------------------------------
\* Properties

\* While the control plane leaves stopped URRs alone, a FAR drops exactly when
\* a URR of one of its PDRs is stopped, and does what the control plane said
\* otherwise: stop and resume undo each other.  Left out are the FARs that a
\* stop has tangled, until the control plane sets them again: those it found at
\* DROP because the FAR has two PDRs, because a PDR has two URRs in one bucket,
\* or because another URR of the FAR was stopped before.
GateExact ==
  nl = NoFill =>
    \A f \in Far \ tangled :
      action[f] = IF \E u \in FarUrrs(f) : urr[u].exhausted THEN "DROP" ELSE normal[f]

\* A granted quota is overrun by less than one packet: whatever the netlink
\* handler interleaves with check_urr, the packet that reaches the quota is
\* the last one of any PDR of the URR to pass.  (A packet that stops the URR
\* between the two halves of a grant leaves it resumed with INAM set: such a
\* URR measures nothing, and nothing is said of it; nor of one that there was
\* no memory to count for or to stop.)
QuotaHeld ==
  \A u \in Urr :
    /\ Metered(u)
    /\ passed[u] # None
    /\ urr[u].inam => urr[u].exhausted
    => passed[u] < urr[u].quota + Max(Lengths)

\* A URR that the packet handlers stop is reported: when no packet is under
\* way, the control plane knows of every stopped URR, unless it asked for the
\* stop or the packet's reports were lost as a whole (no memory, no socket, a
\* later URR without a trigger).  Nothing else would wake it: the URR lets no
\* packet through that could report again.
StopIsTold ==
  (\A c \in Cpu : rx[c] = Idle) =>
    \A u \in Urr : urr[u].exhausted /\ nl.urr # u => told[u] # "no"

\* No usage is lost but where the code clears it without a report: a URR holds
\* at least what is due and was not dropped, whatever a report, a request for
\* usage or a grant does between the load of a counter and its store, with one
\* CPU counting.  Dropped is what the trigger START clears and what was in
\* reports that were not sent or that a request for several threw away.  (The
\* URR may hold more: a clear between load and store is undone.)
NoneUnreported == \A u \in Urr : due[u] <= urr[u].bytes + dropped[u]

\* "each pdr that associate with the urr resume it's normal action"
\* (urr.c:153): with no URR stopped, every FAR is back to the action that
\* the control plane set.
Resumed ==
  nl = NoFill /\ (\A u \in Urr : urr[u].live /\ ~urr[u].exhausted) =>
    \A p \in Pdr : farOf[p] # None => action[farOf[p]] = normal[farOf[p]]
=============================================================================
