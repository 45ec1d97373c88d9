---------------------------- MODULE MCOrderStock ----------------------------
(***************************************************************************)
(* Instances of OrderStock.                                                *)
(***************************************************************************)
EXTENDS OrderStock, TLC

CONSTANTS bag, cap, h1, h2, cart, o1, clerk

(* An order for the last bag and a cap, and a cart that wants the bag.     *)
TwoSkus  == h1 :> bag @@ h2 :> cap @@ cart :> bag
OneEach  == h1 :> 1 @@ h2 :> 1 @@ cart :> 1
OneOrder == h1 :> o1 @@ h2 :> o1 @@ cart :> NoOrder
Shelf    == bag :> 1 @@ cap :> 2
CountsCaps == clerk :> cap
=============================================================================
