----------------------------- MODULE MCBusiness -----------------------------
(***************************************************************************)
(* Small instances of the ticket shop and of the cached balance of one     *)
(* wallet.  They share no variable, and the initial states choose the part *)
(* that runs.  In the cache, Lua prints binary numbers of three digits, so *)
(* that some amounts print in full and some do not.                        *)
(***************************************************************************)
EXTENDS Ticketing, BalanceCache, TLC

CONSTANTS p1, p2, s1, s2, Parts

VARIABLE part

OneEach  == p1 :> 1 @@ p2 :> 1
FourEach == p1 :> 4 @@ p2 :> 4

\* Purchases of one ticket each are alike, so are scans, and so are the two
\* requests of the cache, which have the names of the purchases.
BuyersAndScans == Permutations({p1, p2}) \union Permutations({s1, s2})

businessVars == <<part, ticketVars, cacheVars>>

\* the shop starts in one state when it does not run
BusinessInit ==
  /\ part \in Parts
  /\ TicketInit /\ CacheInit
  /\ part # "tickets" => product.limited

BusinessNext ==
  /\ UNCHANGED part
  /\ \/ part = "tickets" /\ TicketNext /\ UNCHANGED cacheVars
     \/ part = "cache" /\ CacheNext /\ UNCHANGED ticketVars

BusinessSpec == BusinessInit /\ [][BusinessNext]_businessVars

\* Every variable of the part that runs keeps the type its module states.
BusinessTypeOK ==
  /\ part = "tickets" => TicketTypeOK
  /\ part = "cache" => CacheTypeOK
=============================================================================
