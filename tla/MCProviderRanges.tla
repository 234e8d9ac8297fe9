-------------------------- MODULE MCProviderRanges --------------------------
(* Instances of ProviderRanges for TLC. *)
EXTENDS ProviderRanges, TLC

(* Two sources of one provider, one of the other; 3 is an address both may   *)
(* list, 9 is not public.                                                    *)
MCAddresses  == {1, 3, 9}
MCNotPublic  == {9}
MCOrder      == <<"cf", "edges">>
MCProviderOf == [s \in {"cf", "edges"} |-> IF s = "cf" THEN "cloudflare" ELSE "bunny"]
MCLists ==
  [s \in {"cf", "edges"} |->
     IF s = "cf" THEN {{{1}}, {{1}, {3}}} ELSE {{{3}}, {}, {{1}, {9}}}]

(* A list with a network that begins with a public address.                  *)
WideLists == [s \in {"cf", "edges"} |-> {{{1}}, {{3, 9}}}]
=============================================================================
