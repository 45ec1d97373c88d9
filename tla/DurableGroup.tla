---------------------------- MODULE DurableGroup ----------------------------
(***************************************************************************)
(* What a durable subscription promises, whoever serves it: entries are    *)
(* delivered in the order they were published, and one is settled for good *)
(* only after it was handled.  How often it is delivered on the way, and   *)
(* to whom, is nobody's business but the group's.                          *)
(***************************************************************************)
EXTENDS Naturals

CONSTANTS
  Length,   \* bound: entries published
  Exempt    \* entries that are settled unhandled: not the group's concern

VARIABLES
  published,  \* entries 1 .. published exist
  delivered,  \* entries 1 .. delivered were handed to somebody
  handled,    \* entries whose handler has completed
  settled     \* entries the group will not deliver again

groupVars == <<published, delivered, handled, settled>>

GroupInit == published = 0 /\ delivered = 0 /\ handled = {} /\ settled = {}

Publish ==
  /\ published < Length
  /\ published' = published + 1
  /\ UNCHANGED <<delivered, handled, settled>>

Deliver ==
  /\ \E e \in delivered + 1 .. published : delivered' = e
  /\ UNCHANGED <<published, handled, settled>>

Handle(e) ==
  /\ e \notin handled \cup settled \cup Exempt
  /\ handled' = handled \cup {e}
  /\ UNCHANGED <<published, delivered, settled>>

Settle(e) ==
  /\ e \in (handled \cup Exempt) \ settled
  /\ settled' = settled \cup {e}
  /\ UNCHANGED <<published, delivered, handled>>

GroupNext == Publish \/ Deliver \/ \E e \in 1 .. delivered : Handle(e) \/ Settle(e)

GroupSpec == GroupInit /\ [][GroupNext]_groupVars
=============================================================================
