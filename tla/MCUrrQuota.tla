----------------------------- MODULE MCUrrQuota -----------------------------
(***************************************************************************)
(* A session with an uplink and a downlink PDR.  Both count to URR u1,     *)
(* which has a quota, and the uplink PDR also to u2, which has a threshold *)
(* or a quota too.  MCUrrResume.cfg has u1 alone.                          *)
(***************************************************************************)
EXTENDS UrrQuota

CONSTANTS ul, dl, u1, u2, f1, f2

MCPdr == {ul, dl}
MCUplink == {ul}
MCFar == {f1, f2}
MCUrr == {u1, u2}
OneUrr == {u1}
UrrsOne == [p \in MCPdr |-> <<u1>>]
UrrsTwo == (ul :> <<u1, u2>>) @@ (dl :> <<u1>>)
OneBucket == [u \in Urr |-> 0]
TwoBuckets == (u1 :> 0) @@ (u2 :> 1)
MCAge == (dl :> 2) @@ (ul :> 1)

\* The PDRs have a FAR each, or share one, or lose theirs.
Own == (ul :> f1) @@ (dl :> f2)
DownlinkOnly == [Own EXCEPT ![ul] = None]
SharedLinks == {[p \in MCPdr |-> f1]}
AllLinks == {Own, DownlinkOnly, [p \in MCPdr |-> None]} \cup SharedLinks

AnyAction == [f \in MCFar |-> {"FORW", "BUFF"}]
\* The downlink FAR only forwards.
UplinkActions == [AnyAction EXCEPT ![f2] = {"FORW"}]

Plain(triggers, infos, limit, quotas) ==
  {[trigger |-> t, info |-> i, threshold |-> limit, quota |-> q, zero |-> q = 0] :
     t \in triggers, i \in infos, q \in quotas}
UplinkOnly(m) == [m EXCEPT !.zero = TRUE]

\* Grants to u1, stops (a total volume of zero with an uplink volume), start of
\* service; u2 has a threshold, no trigger at all or a quota, of zero too.
QuotaMsg ==
  (u1 :> (Plain({{"volqu"}}, {TRUE}, 2, {2})
            \cup {UplinkOnly(m) : m \in Plain({{"volqu"}}, {TRUE}, 2, {2})}
            \cup Plain({{"volqu", "volth"}, {"start"}}, {TRUE}, 2, {2})))
    @@ (u2 :> (Plain({{}, {"volth"}}, {FALSE}, 1, {None}) \cup Plain({{"volqu"}}, {TRUE}, 1, {0, 1})))

ShareMsg == u1 :> Plain({{"volqu"}}, {TRUE}, 3, {3})

\* No guard reads due or dropped, and their difference, of which alone
\* NoneUnreported speaks, is a function of itself and the rest of the state.
UsageView ==
  <<urr, world, gate, rx, nl, told, passed, oops, [u \in Urr |-> due[u] - dropped[u]]>>

-----------------------------------------------------------------------------
\* The states whose successors are looked at.

HasHadQuota(u) ==
  \/ "volqu" \in urr[u].trigger
  \/ urr[u].quota # 0
  \/ urr[u].exhausted
  \/ urr[u].mem # "null"
  \/ passed[u] = None

\* u1 alone has a quota, and the PDRs have FARs of their own: packets pass.
OneQuota ==
  /\ tangled = {}
  /\ farOf = Own \/ (farOf = DownlinkOnly /\ urr[u2] = NoUrr)
  /\ ~HasHadQuota(u2)

\* Otherwise the control plane stops and resumes URRs that have counted nothing.
NoTraffic ==
  /\ \A c \in Cpu : rx[c] = Idle
  /\ \A u \in Urr : /\ urr[u].trigger \subseteq {"volqu"}
                    /\ urr[u].bytes = 0 /\ urr[u].consumed = 0
                    /\ passed[u] \in {0, None}

TrafficOrStops == IF OneQuota THEN \A f \in Far : normal[f] = "FORW" ELSE NoTraffic
=============================================================================
