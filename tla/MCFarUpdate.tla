---------------------------- MODULE MCFarUpdate ----------------------------
EXTENDS FarUpdate, TLC
CONSTANTS p1, p2, f1, f2, q1, u1, s1, s2, s3

\* Two PDRs of one FAR, only one of them with a URR; and two PDRs of two
\* sessions with a FAR each, whose QERs have the same id.
OneSession ==
  [far |-> (p1 :> f1 @@ p2 :> f1), urrs |-> (p1 :> {} @@ p2 :> {u1}),
   walk |-> (q1 :> {p1} @@ u1 :> {p2})]
TwoSessions ==
  [far |-> (p1 :> f1 @@ p2 :> f2), urrs |-> (p1 :> {} @@ p2 :> {}),
   walk |-> (q1 :> {p1, p2} @@ u1 :> {})]
MCSetup == {OneSession, TwoSessions}

\* Either sockets or tunnels are at work, and tunnels of one FAR.
SocketsOrTunnels ==
  \/ pkt = NoPkt /\ \A h \in Far : ~far[h].param
  \/ /\ snd = NoSnd /\ ~far[f2].there /\ pdr[p2] = NoPdr
     /\ pdr[p1].path # "unix" /\ far[f1].saved = "none"

Symmetric == Permutations({s1, s2, s3})
============================================================================
