------------------------------ MODULE MCWallet ------------------------------
(* Wallet 1 holds euros (1) and dollars (2), wallet 2 euros (3) that do not *)
(* exist yet.                                                               *)
EXTENDS Wallet, TLC

CONSTANTS pay, again, back, buy, put, put2, free, take, tidy, k1, k2, k3

Ask(kind, from, to, amount, key, h) ==
  [kind |-> kind, from |-> from, to |-> to, amount |-> amount, bought |-> 1, key |-> key, hold |-> h]

MCAccounts == {1, 2, 3}
MCMissing  == {3}
MCOpening  == (1 :> 2) @@ (2 :> 1) @@ (3 :> 0)

MCJob ==
  [t \in Requests |->
     CASE t = pay   -> Ask("transfer", 1, 3, 1, k1, t)
       [] t = again -> Ask("transfer", 1, 3, 1, k1, t)
       [] t = back  -> Ask("transfer", 3, 1, 1, k2, t)
       [] t = buy   -> Ask("convert", 2, 1, 1, k3, t)
       [] t = put   -> Ask("hold", 1, 1, 1, k1, t)
       [] t = put2  -> Ask("hold", 2, 2, 1, k1, t)
       [] t = free  -> Ask("release", 1, 1, 1, k1, put)
       [] t = take  -> Ask("capture", 1, 1, 1, k1, put)
       [] OTHER     -> Ask("sweep", 1, 1, 1, k1, t)]
=============================================================================
