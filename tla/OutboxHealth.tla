---------------------------- MODULE OutboxHealth ----------------------------
(***************************************************************************)
(* The lag monitor of createPaymentOutboxRelay (payment-consistency/       *)
(* relay.ts) beside the relays of OutboxRelay.  An interval starts         *)
(* checkLag, which reads the backlog in one query and, when the answer     *)
(* arrives, compares it with the previous verdict and logs a change.  The  *)
(* interval does not wait: a slow query overlaps with the next check.  A   *)
(* query that fails changes nothing, so it is not an action.               *)
(***************************************************************************)
EXTENDS OutboxRelay

CONSTANT Checks   \* checks that can be in flight at once

VARIABLES
  aged,        \* aged[row]: created more than lagWarnAfterSeconds ago
  reading,     \* reading[c]: what check c's query answered, or "none"
  wasStalled,  \* the verdict of the last concluded check
  notice       \* the last change logged: "none", "stalled", "recovered"

monitor    == <<reading, wasStalled, notice>>
healthVars == <<vars, aged, reading, wasStalled, notice>>

HealthInit ==
  /\ Init
  /\ aged       = [row \in Rows |-> FALSE]
  /\ reading    = [c \in Checks |-> "none"]
  /\ wasStalled = FALSE
  /\ notice     = "none"

(* The oldest pending row is older than the threshold.                     *)
Stalled == \E row \in Rows : status[row] = "pending" /\ aged[row]

Age(row) ==
  /\ ~aged[row]
  /\ aged' = [aged EXCEPT ![row] = TRUE]
  /\ UNCHANGED <<vars, monitor>>

(* readOutboxHealth: one aggregate query.                                  *)
ReadHealth(c) ==
  /\ reading[c] = "none"
  /\ reading' = [reading EXCEPT ![c] = IF Stalled THEN "stalled" ELSE "clear"]
  /\ UNCHANGED <<vars, aged, wasStalled, notice>>

(* Mutant: the verdict is only remembered when it was logged as a stall.   *)
ConcludeSticky(c) ==
  /\ reading[c] # "none"
  /\ notice' = CASE reading[c] = "stalled" /\ ~wasStalled -> "stalled"
                 [] reading[c] = "clear" /\ wasStalled    -> "recovered"
                 [] OTHER                                 -> notice
  /\ wasStalled' = (wasStalled \/ reading[c] = "stalled")
  /\ reading'    = [reading EXCEPT ![c] = "none"]
  /\ UNCHANGED <<vars, aged>>

(* The rest of checkLag, once the answer is there.                         *)
Conclude(c) ==
  /\ reading[c] # "none"
  /\ notice' = CASE reading[c] = "stalled" /\ ~wasStalled -> "stalled"
                 [] reading[c] = "clear" /\ wasStalled    -> "recovered"
                 [] OTHER                                 -> notice
  /\ wasStalled' = (reading[c] = "stalled")
  /\ reading'    = [reading EXCEPT ![c] = "none"]
  /\ UNCHANGED <<vars, aged>>

HealthNext ==
  \/ Next /\ UNCHANGED <<aged, monitor>>
  \/ \E row \in Rows : Age(row)
  \/ \E c \in Checks : ReadHealth(c) \/ Conclude(c)

HealthSpec == HealthInit /\ [][HealthNext]_healthVars

(* The check interval keeps firing and its queries answer.  The relays are *)
(* given no fairness: noticing that they hang is what the monitor is for.  *)
HealthFairSpec ==
  /\ HealthSpec
  /\ \A c \in Checks : WF_healthVars(ReadHealth(c)) /\ WF_healthVars(Conclude(c))

-----------------------------------------------------------------------------
(* Properties                                                              *)

(* A backlog that stays stalled is noticed for good, and one that stays    *)
(* clear ends the alarm for good, although an overlapping check may still  *)
(* conclude from an old answer.                                            *)
AlarmFollowsBacklog ==
  /\ <>[]Stalled  => <>[](wasStalled /\ notice = "stalled")
  /\ <>[]~Stalled => <>[]~wasStalled
=============================================================================
