----------------------------- MODULE MCClientIP -----------------------------
(* Instances of ClientIP for TLC. *)
EXTENDS ClientIP

(* 1 and 3 are nodes, 2 changes hands, 4 is a trusted proxy, 6 and 7  *)
(* are visitors.                                                             *)
MCAddresses  == {1, 2, 3, 4, 6, 7}
MCNotPublic  == {}
MCOrder      == <<"cf", "edges">>
MCProviderOf == [s \in {"cf", "edges"} |-> IF s = "cf" THEN "cloudflare" ELSE "bunny"]
MCLists ==
  [s \in {"cf", "edges"} |-> IF s = "cf" THEN {{{1, 2}}, {{1}}} ELSE {{{2}, {3}}, {{3}}}]
MCTrusted == {4}

(* Every chain with one choice of headers, every header at the end of a few. *)
Chains == {<<>>, <<6>>, <<6, 4>>, <<6, 1>>, <<4, 4>>, <<6, NoAddress>>, <<6, 7, 4, 4>>}
Request(direct, chain, cf, bunny) ==
  [strategy |-> "forwarded", direct |-> direct, chain |-> chain,
   header |-> [p \in Providers |-> IF p = "cloudflare" THEN cf ELSE bunny]]
MCRequests ==
  {Request(4, chain, 7, Missing) : chain \in Chains}
  \cup {Request(direct, <<7>>, 7, Missing) : direct \in {6, NoAddress}}
  \cup {Request(direct, <<6, 2, 4>>, cf, bunny) :
          direct \in {1, 2, 4}, cf \in {Missing, NoAddress, 2, 7}, bunny \in {2, 6}}
  \cup {[Request(4, <<7>>, 7, 6) EXCEPT !.strategy = "direct"]}

(* Lists that never change and share address 2. *)
SharedLists == [s \in {"cf", "edges"} |-> IF s = "cf" THEN {{{1, 2}}} ELSE {{{2}, {3}}}]
=============================================================================
