----------------------------- MODULE MCSessions -----------------------------
(* The kinds of request are explored a few at a time, with the sign-ins    *)
(* that all of them are about: a traffic names the requests whose          *)
(* interleavings matter to one another, and bounds the tokens they issue   *)
(* and the saves they make.                                                *)
EXTENDS Sessions, TLC

VARIABLE traffic

Traffic(kinds, tokens, saves) == [kinds |-> kinds, tokens |-> tokens, saves |-> saves]

MCTraffic ==
  {Traffic({"login", "refresh", "guarded", "change"}, 3, 1),
   Traffic({"login", "refresh", "block", "remove"}, 3, 1),
   Traffic({"login", "socket", "guarded", "block", "unblock", "remove"}, 1, 2),
   Traffic({"login", "forgot", "reset", "block"}, 1, 2)}

MCInit == SessionsInit /\ traffic \in MCTraffic

MCNext ==
  /\ SessionsNext
  /\ \A h \in Handlers : work'[h].kind \in traffic.kinds \cup {"none"}
  /\ Cardinality({t \in Tokens : rows'[t].state # "none"}) <= traffic.tokens
  /\ era' <= traffic.saves
  /\ UNCHANGED traffic

MCSpec == MCInit /\ [][MCNext]_<<sessionVars, traffic>>

(* No property names a token, a link or a request. *)
MCSymmetry == Permutations(Tokens) \cup Permutations(Grants) \cup Permutations(Handlers)

=============================================================================
