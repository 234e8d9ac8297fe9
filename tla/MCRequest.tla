------------------------------ MODULE MCRequest ------------------------------
(***************************************************************************)
(* How ServeHTTP prepares a request for the Agent and what it makes of the *)
(* reply.  Finding the client's address takes several reads of the range   *)
(* store, which refreshes may come between: the steps of ClientIP.  The    *)
(* conversions of MCExchange read nothing that changes, so that each is    *)
(* looked at by itself, beside an address that is not being looked up.     *)
(***************************************************************************)
EXTENDS MCClientIP, MCExchange

Looking == [kind |-> "address"]

RequestInit ==
  /\ Init
  /\ \/ exchange = Looking
     \/ /\ ExchangeInit
        /\ \A s \in Sources : published[s] = CHOOSE list \in Lists[s] : TRUE

RequestNext ==
  IF exchange = Looking THEN Next /\ UNCHANGED exchange
  ELSE ExchangeNext /\ UNCHANGED vars

RequestSpec == RequestInit /\ [][RequestNext]_<<vars, exchange>>
=============================================================================
