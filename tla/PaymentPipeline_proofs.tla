----------------------- MODULE PaymentPipeline_proofs -----------------------
(***************************************************************************)
(* Proofs about the read side (PaymentPanel) and about the whole path      *)
(* (PaymentPipeline).                                                      *)
(*                                                                         *)
(* For any number of replicas, any stream, any batch size and delivery     *)
(* limit an entry that left the pending list is on the panel or was        *)
(* buried, nothing is buried early, and the panel never takes a payment    *)
(* back.  The path implements its three parts, so what was proved about    *)
(* each holds in it; what remains to be shown is what they hand over:      *)
(* rows for transitions, entries for rows.                                 *)
(***************************************************************************)
EXTENDS PaymentPipeline, SequenceTheorems, TLAPS

-----------------------------------------------------------------------------
(* The shape of the state                                                  *)

(* The head and the tail of a batch that is being handled.                 *)
LEMMA BatchParts ==
  ASSUME NEW S, NEW s \in Seq(S), s # <<>>
  PROVE  /\ Head(s) \in S
         /\ Tail(s) \in Seq(S)
         /\ Len(s) \in Nat
         /\ (Tail(s) = <<>>) <=> ~(Len(s) > 1)
<1>1. /\ Head(s) \in S
      /\ Tail(s) \in Seq(S)
      /\ Len(Tail(s)) = Len(s) - 1
      /\ Len(s) \in Nat \ {0}
  BY HeadTailProperties, EmptySeq, LenProperties
<1>2. (Tail(s) = <<>>) <=> (Len(Tail(s)) = 0)
  BY <1>1, EmptySeq
<1>3. QED
  BY <1>1, <1>2

(* Finishing an entry touches its consumer only, and keeps its batch empty *)
(* exactly between batches.                                                *)
LEMMA FinishKeeps ==
  ASSUME TypeOK, NEW c \in Consumers, pc[c] \notin {"reclaim", "read"}, Finish(c)
  PROVE  /\ todo' \in [Consumers -> Seq(1 .. delivered)]
         /\ pc' \in [Consumers -> PCs]
         /\ pc'[c] \in {"handle", "reclaim", "read"}
         /\ todo'[c] = <<>> <=> pc'[c] \in {"reclaim", "read"}
         /\ \A d \in Consumers \ {c} : todo'[d] = todo[d] /\ pc'[d] = pc[d]
<1>1. /\ todo \in [Consumers -> Seq(1 .. delivered)]
      /\ todo[c] \in Seq(1 .. delivered) /\ todo[c] # <<>>
      /\ pc \in [Consumers -> PCs]
      /\ turn[c] \in {"reclaim", "read"}
  BY DEF TypeOK
<1>2. /\ Tail(todo[c]) \in Seq(1 .. delivered)
      /\ (Tail(todo[c]) = <<>>) <=> ~(Len(todo[c]) > 1)
  BY <1>1, BatchParts
<1>3. /\ todo' = [todo EXCEPT ![c] = Tail(todo[c])]
      /\ pc' = [pc EXCEPT ![c] = IF Len(todo[c]) > 1 THEN "handle" ELSE turn[c]]
  BY DEF Finish, Goto
<1>4. QED
  BY <1>1, <1>2, <1>3 DEF PCs

(* What a consumer is handed is a batch of delivered entries.              *)
LEMMA HandOutKeeps ==
  ASSUME TypeOK, NEW c \in Consumers, NEW n \in Nat \ {0}, NEW top \in Nat,
         delivered <= top, top <= Len(stream),
         NEW ids \in [1 .. n -> 1 .. top],
         NEW after \in {"reclaim", "read"}, HandOut(c, ids, after)
  PROVE  /\ pending' \in SUBSET (1 .. top)
         /\ pending \subseteq pending'
         /\ deliveries' \in [Ids -> Nat]
         /\ \A id \in Ids : deliveries[id] <= deliveries'[id]
         /\ \A i \in 1 .. n : ids[i] \in pending' /\ deliveries'[ids[i]] >= 1
         /\ idle' \in SUBSET pending'
         /\ todo' \in [Consumers -> Seq(1 .. top)]
         /\ turn' \in [Consumers -> {"reclaim", "read"}]
         /\ pc' \in [Consumers -> PCs]
         /\ pc'[c] = "handle" /\ todo'[c] # <<>>
         /\ \A d \in Consumers \ {c} : todo'[d] = todo[d] /\ pc'[d] = pc[d]
<1> DEFINE given == {ids[i] : i \in DOMAIN ids}
<1>1. /\ pending' = pending \cup given
      /\ idle' = idle \ given
      /\ deliveries' = [id \in Ids |-> IF id \in given THEN deliveries[id] + 1
                                                       ELSE deliveries[id]]
      /\ todo' = [todo EXCEPT ![c] = ids]
      /\ turn' = [turn EXCEPT ![c] = after]
      /\ pc' = [pc EXCEPT ![c] = "handle"]
  BY DEF HandOut, Goto
<1>2. /\ given \subseteq 1 .. top
      /\ \A i \in 1 .. n : ids[i] \in given
  OBVIOUS
<1>3. /\ delivered \in Nat /\ Len(stream) \in Nat /\ Len(stream) <= MaxStream
      /\ pending \in SUBSET (1 .. delivered) /\ idle \in SUBSET pending
      /\ deliveries \in [Ids -> Nat]
      /\ todo \in [Consumers -> Seq(1 .. delivered)]
      /\ turn \in [Consumers -> {"reclaim", "read"}]
      /\ pc \in [Consumers -> PCs]
  <2>1. stream \in Seq(Events) /\ Len(stream) \in Nat
    BY LenProperties DEF TypeOK
  <2>2. QED BY <2>1 DEF TypeOK
<1>4. given \subseteq Ids
  BY <1>2, <1>3, PanelBoundsAssumption DEF Ids
<1>5. ids \in Seq(1 .. top) /\ ids # <<>>
  <2>1. ids \in Seq(1 .. top)
    OBVIOUS
  <2>2. Len(ids) = n
    BY <2>1, LenProperties
  <2>3. QED BY <2>1, <2>2, EmptySeq
<1>6. \A s \in Seq(1 .. delivered) : s \in Seq(1 .. top)
  <2>1. 1 .. delivered \subseteq 1 .. top
    BY <1>3
  <2>2. QED BY <2>1, SeqMonotonic
<1>7. todo' \in [Consumers -> Seq(1 .. top)]
  <2> HIDE DEF given
  <2>1. ASSUME NEW d \in Consumers PROVE todo'[d] \in Seq(1 .. top)
    BY <1>1, <1>3, <1>5, <1>6
  <2>2. QED BY <2>1, <1>1, <1>3
<1>8. /\ deliveries' \in [Ids -> Nat]
      /\ \A id \in Ids : deliveries[id] <= deliveries'[id]
      /\ \A id \in given : deliveries'[id] >= 1
  <2> HIDE DEF given
  <2>1. QED BY <1>1, <1>3, <1>4
<1>9. /\ pending' \in SUBSET (1 .. top) /\ pending \subseteq pending'
      /\ idle' \in SUBSET pending'
  <2> HIDE DEF given
  <2>1. 1 .. delivered \subseteq 1 .. top
    BY <1>3
  <2>2. QED BY <1>1, <1>2, <1>3, <2>1
<1>10. \A i \in 1 .. n : ids[i] \in pending' /\ deliveries'[ids[i]] >= 1
  <2> HIDE DEF given
  <2>1. QED BY <1>1, <1>2, <1>8
<1>11. QED
  <2> HIDE DEF given
  <2>1. QED BY <1>1, <1>3, <1>5, <1>7, <1>8, <1>9, <1>10 DEF PCs

-----------------------------------------------------------------------------
(* The stream and the group                                                *)

(* Lengths and positions are numbers, delivered ones lie in the stream.    *)
LEMMA Positions ==
  ASSUME TypeOK
  PROVE  /\ stream \in Seq(Events) /\ Len(stream) \in Nat
         /\ delivered \in Nat /\ delivered <= Len(stream)
         /\ 1 .. delivered \subseteq Ids
         /\ pending \subseteq 1 .. delivered /\ idle \subseteq pending
         /\ deliveries \in [Ids -> Nat]
         /\ MAX_DELIVERIES \in Nat /\ MaxStream \in Nat
<1>1. stream \in Seq(Events) /\ Len(stream) \in Nat
  BY LenProperties DEF TypeOK
<1>2. QED
  BY <1>1, PanelBoundsAssumption DEF TypeOK, Ids

(* The entry a busy consumer handles was delivered.                        *)
LEMMA CurrentDelivered ==
  ASSUME TypeOK, NEW c \in Consumers, pc[c] \notin {"reclaim", "read"}
  PROVE  Current(c) \in 1 .. delivered /\ todo[c] # <<>>
<1>1. todo[c] \in Seq(1 .. delivered) /\ todo[c] # <<>>
  BY DEF TypeOK
<1>2. QED
  BY <1>1, BatchParts DEF Current

(* The panel's upsert covers what it applies and whatever it covered.      *)
LEMMA UpsertCovers ==
  ASSUME TypeOK, NEW e \in Records,
         panel' = [panel EXCEPT ![e.key] = IF Replaces(e.state, @) THEN e.state ELSE @]
  PROVE  /\ panel' \in [RecordKeys -> PAYMENT_STATES \cup {"NONE"}]
         /\ Covered(e)'
         /\ \A f \in Records : Covered(f) => Covered(f)'
         /\ \A k \in RecordKeys :
              panel[k] # "NONE" =>
                /\ panel'[k] # "NONE"
                /\ STATE_RANK(panel[k]) <= STATE_RANK(panel'[k])
<1>1. /\ \A f \in Records : f.key \in RecordKeys /\ f.state \in PAYMENT_STATES
      /\ panel \in [RecordKeys -> PAYMENT_STATES \cup {"NONE"}]
      /\ \A s : STATE_RANK(s) \in Nat
      /\ "NONE" \notin PAYMENT_STATES
  BY RecordsAssumption DEF TypeOK, STATE_RANK, PAYMENT_STATES
<1> DEFINE old == panel[e.key]
           new == IF Replaces(e.state, old) THEN e.state ELSE old
<1>2. /\ panel' = [panel EXCEPT ![e.key] = new]
      /\ old \in PAYMENT_STATES \cup {"NONE"}
      /\ new \in PAYMENT_STATES
      /\ old # "NONE" => STATE_RANK(old) <= STATE_RANK(new)
      /\ STATE_RANK(e.state) <= STATE_RANK(new)
  BY <1>1 DEF Replaces
<1>3. /\ panel'[e.key] = new
      /\ \A k \in RecordKeys \ {e.key} : panel'[k] = panel[k]
      /\ panel' \in [RecordKeys -> PAYMENT_STATES \cup {"NONE"}]
  BY <1>1, <1>2
<1> HIDE DEF new, old
<1>4. \A k \in RecordKeys :
        panel[k] # "NONE" =>
          /\ panel'[k] # "NONE"
          /\ STATE_RANK(panel[k]) <= STATE_RANK(panel'[k])
  <2>1. ASSUME NEW k \in RecordKeys, panel[k] # "NONE"
        PROVE  panel'[k] # "NONE" /\ STATE_RANK(panel[k]) <= STATE_RANK(panel'[k])
    <3>1. CASE k = e.key
      BY <3>1, <2>1, <1>1, <1>2, <1>3 DEF old
    <3>2. CASE k # e.key
      BY <3>2, <2>1, <1>1, <1>3
    <3>3. QED BY <3>1, <3>2
  <2>2. QED BY <2>1
<1>5. ASSUME NEW f \in Records, Covered(f) PROVE Covered(f)'
  <2>1. /\ f.key \in RecordKeys
        /\ panel[f.key] # "NONE"
        /\ STATE_RANK(f.state) <= STATE_RANK(panel[f.key])
    BY <1>1, <1>5 DEF Covered, Replaces
  <2>2. /\ panel'[f.key] # "NONE"
        /\ STATE_RANK(f.state) <= STATE_RANK(panel'[f.key])
    BY <2>1, <1>1, <1>4
  <2>3. QED BY <2>1, <2>2, <1>1 DEF Covered, Replaces
<1>6. Covered(e)'
  BY <1>1, <1>2, <1>3 DEF Covered, Replaces
<1>7. QED
  BY <1>3, <1>4, <1>5, <1>6

(* A consumer that does not move keeps what it found out.                  *)
LEMMA OthersAgree ==
  ASSUME TypeOK, NEW d \in Consumers, Agrees(d),
         pc'[d] = pc[d], todo'[d] = todo[d],
         \A id \in 1 .. delivered : stream'[id] = stream[id],
         \A id \in 1 .. delivered :
           /\ deliveries'[id] \in Nat
           /\ deliveries[id] <= deliveries'[id],
         \A e \in Records : Covered(e) => Covered(e)'
  PROVE  Agrees(d)'
<1>1. CASE pc[d] \in {"reclaim", "read"}
  BY <1>1 DEF Agrees
<1>2. CASE pc[d] \notin {"reclaim", "read"}
  <2>1. Current(d) \in 1 .. delivered /\ Current(d)' = Current(d)
    BY <1>2, CurrentDelivered DEF Current
  <2>2. stream'[Current(d)] = stream[Current(d)]
    BY <2>1
  <2>3. ASSUME pc[d] = "ack"
        PROVE  (stream[Current(d)] \in Records /\ Covered(stream[Current(d)]))'
    <3>1. PICK e \in Records : e = stream[Current(d)] /\ Covered(e)
      BY <2>3 DEF Agrees
    <3>2. Covered(e)' /\ (stream[Current(d)])' = e
      BY <3>1, <2>1, <2>2
    <3>3. QED BY <3>2 DEF Covered
  <2>4. pc[d] = "bury" => (deliveries[Current(d)] >= MAX_DELIVERIES)'
    <3>1. /\ deliveries[Current(d)] \in Nat /\ deliveries'[Current(d)] \in Nat
          /\ deliveries[Current(d)] <= deliveries'[Current(d)]
          /\ MAX_DELIVERIES \in Nat
      BY <2>1, Positions
    <3>2. QED BY <3>1, <2>1 DEF Agrees
  <2>5. QED BY <2>3, <2>4 DEF Agrees
<1>3. QED BY <1>1, <1>2

(* What is off the pending list stays accounted for as long as an entry    *)
(* only leaves it buried, foreign, malformed or covered.                   *)
LEMMA SettledStays ==
  ASSUME TypeOK, AckedIsOnPanel, delivered' = delivered, buried \subseteq buried',
         \A id \in 1 .. delivered : stream'[id] = stream[id],
         \A e \in Records : Covered(e) => Covered(e)',
         \A id \in pending :
           \/ id \in pending' \/ id \in buried'
           \/ stream[id] \notin Records \/ Covered(stream[id])
  PROVE  AckedIsOnPanel'
<1>1. SUFFICES ASSUME NEW id \in 1 .. delivered, id \notin pending', id \notin buried',
                      stream'[id] \in Records
               PROVE  Covered(stream[id])'
  BY DEF AckedIsOnPanel
<1>2. PICK e \in Records : e = stream[id]
  BY <1>1
<1>3. Covered(e)
  <2>1. CASE id \in pending
    BY <2>1, <1>1, <1>2
  <2>2. CASE id \notin pending
    BY <2>2, <1>1, <1>2 DEF AckedIsOnPanel
  <2>3. QED BY <2>1, <2>2
<1>4. Covered(e)' /\ (stream[id])' = e
  BY <1>1, <1>2, <1>3
<1>5. QED
  BY <1>4 DEF Covered

(* An action that leaves the panel alone leaves what it covers alone.      *)
LEMMA PanelUnchanged ==
  ASSUME panel' = panel
  PROVE  \A e \in Records : Covered(e) => Covered(e)'
  BY DEF Covered

-----------------------------------------------------------------------------
(* One lemma per action                                                    *)

LEMMA PublishStep ==
  ASSUME PanelInv, NEW e \in Events, Publish(e)
  PROVE  PanelInv'
<1>0. /\ stream \in Seq(Events) /\ Len(stream) \in Nat
      /\ delivered \in Nat /\ delivered <= Len(stream)
      /\ MaxStream \in Nat /\ Len(stream) < MaxStream
      /\ stream' = Append(stream, e)
      /\ UNCHANGED <<group, panel, pc, todo, turn, buried, aborts>>
  BY Positions DEF PanelInv, Publish
<1>1. /\ stream' \in Seq(Events)
      /\ Len(stream') = Len(stream) + 1
      /\ \A id \in 1 .. delivered : stream'[id] = stream[id]
  <2>1. \A id \in 1 .. Len(stream) : Append(stream, e)[id] = stream[id]
    BY <1>0, AppendProperties
  <2>2. QED BY <1>0, <2>1, AppendProperties
<1>2. TypeOK'
  <2>1. Len(stream') <= MaxStream /\ delivered \in 0 .. Len(stream')
    BY <1>0, <1>1
  <2>2. QED BY <1>0, <1>1, <2>1 DEF PanelInv, TypeOK, group
<1>3. \A x \in Records : Covered(x) => Covered(x)'
  BY PanelUnchanged DEF Publish
<1>4. ASSUME NEW d \in Consumers PROVE Agrees(d)'
  <2>1. /\ pc'[d] = pc[d] /\ todo'[d] = todo[d]
        /\ \A id \in 1 .. delivered : deliveries'[id] \in Nat /\ deliveries[id] <= deliveries'[id]
    BY <1>0, Positions DEF PanelInv, group
  <2>2. TypeOK /\ Agrees(d)
    BY DEF PanelInv
  <2>3. QED BY <1>1, <1>3, <2>1, <2>2, OthersAgree
<1>5. AckedIsOnPanel'
  BY <1>1, <1>3, SettledStays DEF PanelInv, Publish, group
<1>6. HandedOut' /\ BuriedWasRetried'
  BY DEF PanelInv, HandedOut, BuriedWasRetried, Publish, group
<1>7. QED BY <1>2, <1>4, <1>5, <1>6 DEF PanelInv

(* Handing out entries 1 .. top: shared by a read and a reclaim.           *)
LEMMA HandOutStep ==
  ASSUME PanelInv, NEW c \in Consumers, NEW n \in Nat \ {0}, NEW top \in Nat,
         delivered <= top, top <= Len(stream),
         NEW ids \in [1 .. n -> 1 .. top],
         NEW after \in {"reclaim", "read"}, HandOut(c, ids, after),
         \A id \in (1 .. top) \ (1 .. delivered) : \E i \in 1 .. n : ids[i] = id,
         delivered' = top, UNCHANGED <<stream, panel, buried, aborts>>
  PROVE  PanelInv'
<1> USE DEF PanelInv
<1>0. /\ pending' \in SUBSET (1 .. top)
      /\ pending \subseteq pending'
      /\ deliveries' \in [Ids -> Nat]
      /\ \A id \in Ids : deliveries[id] <= deliveries'[id]
      /\ \A i \in 1 .. n : ids[i] \in pending' /\ deliveries'[ids[i]] >= 1
      /\ idle' \in SUBSET pending'
      /\ todo' \in [Consumers -> Seq(1 .. top)]
      /\ turn' \in [Consumers -> {"reclaim", "read"}]
      /\ pc' \in [Consumers -> PCs]
      /\ pc'[c] = "handle" /\ todo'[c] # <<>>
      /\ \A d \in Consumers \ {c} : todo'[d] = todo[d] /\ pc'[d] = pc[d]
  BY HandOutKeeps
<1>1. /\ 1 .. delivered \subseteq 1 .. top
      /\ 1 .. top \subseteq Ids
      /\ 1 .. delivered \subseteq Ids
      /\ deliveries \in [Ids -> Nat]
      /\ stream \in Seq(Events) /\ Len(stream) \in Nat
      /\ MAX_DELIVERIES \in Nat
  BY Positions DEF TypeOK, Ids
<1>2. TypeOK'
  <2>1. \A d \in Consumers : todo'[d] = <<>> <=> pc'[d] \in {"reclaim", "read"}
    BY <1>0 DEF TypeOK
  <2>2. top \in 0 .. Len(stream) /\ buried \in SUBSET (1 .. top)
    BY <1>1 DEF TypeOK
  <2>3. QED BY <1>0, <2>1, <2>2 DEF TypeOK
<1>3. \A x \in Records : Covered(x) => Covered(x)'
  BY PanelUnchanged
<1>4. ASSUME NEW d \in Consumers PROVE Agrees(d)'
  <2>1. CASE d = c
    BY <2>1, <1>0 DEF Agrees
  <2>2. CASE d # c
    BY <2>2, <1>0, <1>1, <1>3, OthersAgree
  <2>3. QED BY <2>1, <2>2
<1>5. AckedIsOnPanel'
  <2>1. SUFFICES ASSUME NEW id \in 1 .. top, id \notin pending', id \notin buried',
                        stream[id] \in Records
                 PROVE  Covered(stream[id])
    BY DEF AckedIsOnPanel, Covered
  <2>2. id \in 1 .. delivered
    <3>1. SUFFICES ASSUME id \notin 1 .. delivered PROVE FALSE
      OBVIOUS
    <3>2. PICK i \in 1 .. n : ids[i] = id
      BY <3>1
    <3>3. QED
      BY <2>1, <3>2, <1>0
  <2>3. QED BY <2>1, <2>2, <1>0 DEF AckedIsOnPanel
<1>6. HandedOut'
  <2>1. SUFFICES ASSUME NEW id \in 1 .. top PROVE deliveries'[id] >= 1
    BY DEF HandedOut
  <2>2. CASE id \in 1 .. delivered
    <3>1. /\ deliveries[id] >= 1 /\ deliveries[id] <= deliveries'[id]
          /\ deliveries[id] \in Nat /\ deliveries'[id] \in Nat
      BY <2>2, <1>0, <1>1 DEF HandedOut
    <3>2. QED BY <3>1
  <2>3. CASE id \notin 1 .. delivered
    BY <2>1, <2>3, <1>0
  <2>4. QED BY <2>2, <2>3
<1>7. BuriedWasRetried'
  <2>1. SUFFICES ASSUME NEW id \in buried PROVE deliveries'[id] >= MAX_DELIVERIES
    BY DEF BuriedWasRetried
  <2>2. /\ deliveries[id] >= MAX_DELIVERIES /\ deliveries[id] <= deliveries'[id]
        /\ deliveries[id] \in Nat /\ deliveries'[id] \in Nat
    BY <1>0, <1>1 DEF BuriedWasRetried, TypeOK
  <2>3. QED BY <2>2, <1>1
<1>8. QED BY <1>2, <1>4, <1>5, <1>6, <1>7

LEMMA ReadStep ==
  ASSUME PanelInv, NEW c \in Consumers, Read(c)
  PROVE  PanelInv'
<1>1. PICK n \in 1 .. BATCH :
        /\ delivered + n <= Len(stream)
        /\ HandOut(c, [i \in 1 .. n |-> delivered + i], "reclaim")
        /\ delivered' = delivered + n
  BY DEF Read
<1> DEFINE top == delivered + n
           ids == [i \in 1 .. n |-> delivered + i]
<1>2. /\ delivered \in Nat /\ Len(stream) \in Nat /\ n \in Nat \ {0}
      /\ UNCHANGED <<stream, panel, buried, aborts>>
  BY Positions, PanelBoundsAssumption DEF PanelInv, Read
<1>3. /\ top \in Nat /\ delivered <= top /\ top <= Len(stream)
      /\ ids \in [1 .. n -> 1 .. top]
  BY <1>1, <1>2
<1>4. ASSUME NEW id \in (1 .. top) \ (1 .. delivered)
      PROVE  \E i \in 1 .. n : ids[i] = id
  <2>1. id - delivered \in 1 .. n /\ ids[id - delivered] = id
    BY <1>2
  <2>2. QED BY <2>1
<1>5. HandOut(c, ids, "reclaim") /\ delivered' = top
  BY <1>1
<1> HIDE DEF top, ids
<1>6. QED
  BY <1>2, <1>3, <1>4, <1>5, HandOutStep

LEMMA ReclaimStep ==
  ASSUME PanelInv, NEW c \in Consumers, Reclaim(c)
  PROVE  PanelInv'
<1>0. PICK n \in 1 .. BATCH : \E ids \in [1 .. n -> idle] : HandOut(c, ids, "read")
  BY DEF Reclaim, Reclaimable
<1>1. PICK ids \in [1 .. n -> idle] : HandOut(c, ids, "read")
  BY <1>0
<1>2. /\ delivered \in Nat /\ n \in Nat \ {0} /\ delivered <= Len(stream)
      /\ ids \in [1 .. n -> 1 .. delivered]
      /\ delivered' = delivered
      /\ UNCHANGED <<stream, panel, buried, aborts>>
  BY Positions, PanelBoundsAssumption DEF PanelInv, Reclaim
<1>3. QED
  BY <1>1, <1>2, HandOutStep

LEMMA CountsStay ==
  ASSUME TypeOK, UNCHANGED deliveries
  PROVE  \A id \in 1 .. delivered :
           /\ deliveries'[id] \in Nat
           /\ deliveries[id] <= deliveries'[id]
<1>1. \A id \in 1 .. delivered : deliveries[id] \in Nat
  BY Positions
<1>2. QED
  BY <1>1

(* Every other action of a consumer: it moves alone, hands nothing out and *)
(* takes at most accounted entries off the pending list.                   *)
LEMMA ConsumerStep ==
  ASSUME PanelInv, NEW c \in Consumers,
         UNCHANGED <<stream, delivered, deliveries>>,
         pending' \subseteq pending, idle' \subseteq pending',
         todo' \in [Consumers -> Seq(1 .. delivered)],
         pc' \in [Consumers -> PCs],
         turn' \in [Consumers -> {"reclaim", "read"}],
         todo'[c] = <<>> <=> pc'[c] \in {"reclaim", "read"},
         \A d \in Consumers \ {c} : todo'[d] = todo[d] /\ pc'[d] = pc[d],
         panel' \in [RecordKeys -> PAYMENT_STATES \cup {"NONE"}],
         \A e \in Records : Covered(e) => Covered(e)',
         buried \subseteq buried', buried' \subseteq 1 .. delivered,
         \A id \in buried' \ buried : deliveries[id] >= MAX_DELIVERIES,
         \A id \in pending :
           \/ id \in pending' \/ id \in buried'
           \/ stream[id] \notin Records \/ Covered(stream[id]),
         aborts' \in 0 .. MaxAborts,
         Agrees(c)'
  PROVE  PanelInv'
<1> USE DEF PanelInv
<1>1. TypeOK'
  <2>1. \A d \in Consumers : todo'[d] = <<>> <=> pc'[d] \in {"reclaim", "read"}
    BY DEF TypeOK
  <2>2. /\ stream' \in Seq(Events) /\ Len(stream') <= MaxStream
        /\ delivered' \in 0 .. Len(stream')
        /\ pending' \in SUBSET (1 .. delivered')
        /\ deliveries' \in [Ids -> Nat]
        /\ idle' \in SUBSET pending'
        /\ buried' \in SUBSET (1 .. delivered')
    BY DEF TypeOK
  <2>3. QED BY <2>1, <2>2 DEF TypeOK
<1>2. ASSUME NEW d \in Consumers PROVE Agrees(d)'
  <2>1. CASE d = c
    BY <2>1
  <2>2. CASE d # c
    <3>1. \A id \in 1 .. delivered :
             /\ deliveries'[id] \in Nat
             /\ deliveries[id] <= deliveries'[id]
      BY CountsStay
    <3>2. QED BY <2>2, <3>1, OthersAgree
  <2>3. QED BY <2>1, <2>2
<1>3. AckedIsOnPanel'
  BY SettledStays
<1>4. HandedOut' /\ BuriedWasRetried'
  BY DEF HandedOut, BuriedWasRetried
<1>5. QED BY <1>1, <1>2, <1>3, <1>4

(* An acknowledgement that ends an entry: skipped, applied or buried.      *)
LEMMA XackStep ==
  ASSUME PanelInv, NEW c \in Consumers, pc[c] \in {"handle", "ack", "bury"},
         Xack(Current(c)), Finish(c), UNCHANGED <<stream, panel, turn, aborts>>,
         \/ /\ stream[Current(c)] \notin Records \/ Covered(stream[Current(c)])
            /\ buried' = buried
         \/ /\ deliveries[Current(c)] >= MAX_DELIVERIES
            /\ buried' = buried \cup {Current(c)}
  PROVE  PanelInv'
<1> USE DEF PanelInv
<1>1. /\ todo' \in [Consumers -> Seq(1 .. delivered)]
      /\ pc' \in [Consumers -> PCs]
      /\ pc'[c] \in {"handle", "reclaim", "read"}
      /\ todo'[c] = <<>> <=> pc'[c] \in {"reclaim", "read"}
      /\ \A d \in Consumers \ {c} : todo'[d] = todo[d] /\ pc'[d] = pc[d]
  BY FinishKeeps
<1>2. Current(c) \in 1 .. delivered
  BY CurrentDelivered
<1>3. /\ pending' = pending \ {Current(c)} /\ idle' = idle \ {Current(c)}
      /\ UNCHANGED <<delivered, deliveries>>
      /\ idle \subseteq pending
      /\ buried \subseteq 1 .. delivered
  BY DEF Xack, TypeOK
<1>4. Agrees(c)'
  BY <1>1 DEF Agrees
<1>5. \A e \in Records : Covered(e) => Covered(e)'
  BY PanelUnchanged
<1>6. /\ buried \subseteq buried' /\ buried' \subseteq 1 .. delivered
      /\ \A id \in buried' \ buried : deliveries[id] >= MAX_DELIVERIES
      /\ \A id \in pending :
           \/ id \in pending' \/ id \in buried'
           \/ stream[id] \notin Records \/ Covered(stream[id])
  BY <1>2, <1>3
<1>7. /\ turn' \in [Consumers -> {"reclaim", "read"}]
      /\ panel' \in [RecordKeys -> PAYMENT_STATES \cup {"NONE"}]
      /\ aborts' \in 0 .. MaxAborts
  BY DEF TypeOK
<1>8. pending' \subseteq pending /\ idle' \subseteq pending'
  BY <1>3
<1>9. QED
  BY <1>1, <1>3, <1>4, <1>5, <1>6, <1>7, <1>8, ConsumerStep

LEMMA SkipStep ==
  ASSUME PanelInv, NEW c \in Consumers, Skip(c)
  PROVE  PanelInv'
<1>1. stream[Current(c)] \notin Records
  BY RecordsAssumption DEF Skip
<1>2. QED
  BY <1>1, XackStep DEF Skip

LEMMA AckStep ==
  ASSUME PanelInv, NEW c \in Consumers, Ack(c)
  PROVE  PanelInv'
<1>1. Covered(stream[Current(c)])
  BY DEF PanelInv, Agrees, Ack
<1>2. QED
  BY <1>1, XackStep DEF Ack

LEMMA BuryStep ==
  ASSUME PanelInv, NEW c \in Consumers, Bury(c)
  PROVE  PanelInv'
<1>1. deliveries[Current(c)] >= MAX_DELIVERIES
  BY DEF PanelInv, Agrees, Bury
<1>2. QED
  BY <1>1, XackStep DEF Bury

(* A consumer that only moves to another call about the same entry.        *)
LEMMA MoveStep ==
  ASSUME PanelInv, NEW c \in Consumers, NEW label \in PCs \ {"reclaim", "read"},
         pc[c] \notin {"reclaim", "read"}, Goto(c, label),
         UNCHANGED <<stream, group, todo, turn, buried>>,
         aborts' \in 0 .. MaxAborts,
         panel' \in [RecordKeys -> PAYMENT_STATES \cup {"NONE"}],
         \A e \in Records : Covered(e) => Covered(e)',
         Agrees(c)'
  PROVE  PanelInv'
<1> USE DEF PanelInv
<1>1. /\ pc' \in [Consumers -> PCs] /\ pc'[c] = label
      /\ \A d \in Consumers \ {c} : todo'[d] = todo[d] /\ pc'[d] = pc[d]
      /\ todo'[c] = <<>> <=> pc'[c] \in {"reclaim", "read"}
  BY DEF TypeOK, Goto
<1>2. /\ UNCHANGED <<stream, delivered, deliveries, pending, idle, buried>>
      /\ todo' \in [Consumers -> Seq(1 .. delivered)]
      /\ turn' \in [Consumers -> {"reclaim", "read"}]
      /\ idle \subseteq pending /\ buried \subseteq 1 .. delivered
  BY DEF TypeOK, group
<1>3. QED
  BY <1>1, <1>2, ConsumerStep

LEMMA ApplyStep ==
  ASSUME PanelInv, NEW c \in Consumers, Apply(c)
  PROVE  PanelInv'
<1>1. PICK e \in Records :
        /\ e = stream[Current(c)]
        /\ panel' = [panel EXCEPT ![e.key] = IF Replaces(e.state, @) THEN e.state ELSE @]
  BY DEF Apply
<1>2. /\ panel' \in [RecordKeys -> PAYMENT_STATES \cup {"NONE"}]
      /\ Covered(e)'
      /\ \A f \in Records : Covered(f) => Covered(f)'
  BY <1>1, UpsertCovers DEF PanelInv
<1>3. /\ pc[c] = "handle" /\ Goto(c, "ack")
      /\ UNCHANGED <<stream, group, todo, turn, buried>>
      /\ aborts' \in 0 .. MaxAborts
  BY DEF Apply, PanelInv, TypeOK
<1>4. Agrees(c)'
  <2>1. pc'[c] = "ack" /\ (stream[Current(c)])' = e
    BY <1>1, <1>3 DEF PanelInv, TypeOK, Goto, Current
  <2>2. (stream[Current(c)] \in Records /\ Covered(stream[Current(c)]))'
    BY <1>2, <2>1 DEF Covered
  <2>3. QED BY <2>1, <2>2 DEF Agrees
<1>5. QED
  BY <1>2, <1>3, <1>4, MoveStep DEF PCs

LEMMA FailStep ==
  ASSUME PanelInv, NEW c \in Consumers, ApplyFails(c) \/ AckFails(c)
  PROVE  PanelInv'
<1>1. /\ pc[c] \in {"handle", "ack"} /\ Goto(c, "count")
      /\ UNCHANGED <<stream, group, panel, todo, turn, buried>>
      /\ aborts' \in 0 .. MaxAborts
  BY DEF ApplyFails, AckFails, PanelInv, TypeOK
<1>2. Agrees(c)'
  BY <1>1 DEF PanelInv, TypeOK, Goto, Agrees
<1>3. panel' \in [RecordKeys -> PAYMENT_STATES \cup {"NONE"}]
  BY <1>1 DEF PanelInv, TypeOK
<1>4. QED
  BY <1>1, <1>2, <1>3, PanelUnchanged, MoveStep DEF PCs

(* The count: an entry that is found to be poison was handed out often     *)
(* enough, even one that is not pending any more.                          *)
LEMMA CountStep ==
  ASSUME PanelInv, NEW c \in Consumers, CountDeliveries(c) \/ CountFails(c)
  PROVE  PanelInv'
<1> USE DEF PanelInv
<1>1. /\ pc[c] = "count"
      /\ UNCHANGED <<stream, group, panel, turn, buried>>
      /\ UNCHANGED <<stream, delivered, deliveries, pending, idle>>
      /\ aborts' \in 0 .. MaxAborts
  <2>1. aborts \in 0 .. MaxAborts /\ MaxAborts \in Nat
    BY PanelBoundsAssumption DEF TypeOK
  <2>2. QED BY <2>1 DEF CountDeliveries, CountFails, group
<1>2. Current(c) \in 1 .. delivered
  BY <1>1, CurrentDelivered
<1>3. CASE /\ TooOften(Current(c)) \/ MAX_DELIVERIES = 1
           /\ Goto(c, "bury") /\ UNCHANGED todo
  <2>1. deliveries[Current(c)] >= MAX_DELIVERIES
    <3>1. deliveries[Current(c)] >= 1 /\ deliveries[Current(c)] \in Nat
      BY <1>2, Positions DEF HandedOut
    <3>2. QED BY <1>3, <3>1, Positions DEF TooOften
  <2>2. pc'[c] = "bury" /\ Current(c)' = Current(c)
    BY <1>3 DEF TypeOK, Goto, Current
  <2>3. Agrees(c)'
    BY <1>1, <2>1, <2>2 DEF Agrees
  <2>4. panel' \in [RecordKeys -> PAYMENT_STATES \cup {"NONE"}]
    BY <1>1 DEF TypeOK
  <2>5. QED
    BY <1>1, <1>3, <2>3, <2>4, PanelUnchanged, MoveStep DEF PCs
<1>4. CASE Finish(c)
  <2>1. /\ todo' \in [Consumers -> Seq(1 .. delivered)]
        /\ pc' \in [Consumers -> PCs]
        /\ pc'[c] \in {"handle", "reclaim", "read"}
        /\ todo'[c] = <<>> <=> pc'[c] \in {"reclaim", "read"}
        /\ \A d \in Consumers \ {c} : todo'[d] = todo[d] /\ pc'[d] = pc[d]
    BY <1>1, <1>4, FinishKeeps
  <2>2. /\ turn' \in [Consumers -> {"reclaim", "read"}]
        /\ panel' \in [RecordKeys -> PAYMENT_STATES \cup {"NONE"}]
        /\ aborts' \in 0 .. MaxAborts
        /\ pending' \subseteq pending /\ idle' \subseteq pending'
        /\ buried \subseteq buried' /\ buried' \subseteq 1 .. delivered
        /\ buried' \ buried = {}
    BY <1>1 DEF TypeOK
  <2>3. Agrees(c)'
    BY <2>1 DEF Agrees
  <2>4. QED
    BY <1>1, <2>1, <2>2, <2>3, PanelUnchanged, ConsumerStep
<1>5. QED
  BY <1>3, <1>4 DEF CountDeliveries, CountFails

(* A crash, or a round that finds nothing: no entry leaves the list.       *)
LEMMA AbortStep ==
  ASSUME PanelInv, NEW c \in Consumers,
         Abort(c) \/ ReadNothing(c) \/ ReclaimNothing(c)
  PROVE  PanelInv'
<1> USE DEF PanelInv
<1>1. /\ UNCHANGED <<stream, group, panel, turn, buried>>
      /\ UNCHANGED <<stream, delivered, deliveries, pending, idle>>
      /\ aborts' \in 0 .. MaxAborts
  <2>1. aborts \in 0 .. MaxAborts /\ MaxAborts \in Nat
    BY PanelBoundsAssumption DEF TypeOK
  <2>2. QED BY <2>1 DEF Abort, ReadNothing, ReclaimNothing, group
<1>2. /\ pc' \in [Consumers -> PCs] /\ pc'[c] \in {"reclaim", "read"}
      /\ todo' \in [Consumers -> Seq(1 .. delivered)] /\ todo'[c] = <<>>
      /\ \A d \in Consumers \ {c} : todo'[d] = todo[d] /\ pc'[d] = pc[d]
  <2>1. /\ todo \in [Consumers -> Seq(1 .. delivered)]
        /\ pc \in [Consumers -> PCs]
        /\ turn[c] \in {"reclaim", "read"}
        /\ <<>> \in Seq(1 .. delivered)
    BY EmptySeq DEF TypeOK
  <2>2. CASE Abort(c)
    BY <2>1, <2>2 DEF Abort, Goto, PCs
  <2>3. CASE ReadNothing(c) \/ ReclaimNothing(c)
    BY <2>1, <2>3 DEF TypeOK, ReadNothing, ReclaimNothing, Goto, PCs
  <2>4. QED BY <2>2, <2>3
<1>3. Agrees(c)'
  BY <1>2 DEF Agrees
<1>4. /\ turn' \in [Consumers -> {"reclaim", "read"}]
      /\ panel' \in [RecordKeys -> PAYMENT_STATES \cup {"NONE"}]
      /\ pending' \subseteq pending /\ idle' \subseteq pending'
      /\ buried \subseteq buried' /\ buried' \subseteq 1 .. delivered
      /\ buried' \ buried = {}
  BY <1>1 DEF TypeOK
<1>5. QED
  BY <1>1, <1>2, <1>3, <1>4, PanelUnchanged, ConsumerStep

LEMMA ElapseStep ==
  ASSUME PanelInv, NEW id \in Ids, Elapse(id)
  PROVE  PanelInv'
<1> USE DEF PanelInv
<1>1. idle' \in SUBSET pending'
  BY DEF TypeOK, Elapse
<1>2. TypeOK'
  BY <1>1 DEF TypeOK, Elapse
<1>3. ASSUME NEW d \in Consumers PROVE Agrees(d)'
  BY <1>3 DEF Agrees, Elapse, Current, Covered
<1>4. QED
  BY <1>2, <1>3 DEF HandedOut, AckedIsOnPanel, BuriedWasRetried, Elapse, Covered

-----------------------------------------------------------------------------
LEMMA PanelInit == Init => PanelInv
<1> SUFFICES ASSUME Init PROVE PanelInv
  OBVIOUS
<1>1. /\ stream = <<>> /\ stream \in Seq(Events) /\ Len(stream) = 0
      /\ \A S : <<>> \in Seq(S)
      /\ MaxStream \in Nat /\ MaxAborts \in Nat
  BY EmptySeq, PanelBoundsAssumption DEF Init
<1>2. TypeOK
  BY <1>1 DEF Init, TypeOK, PCs
<1>3. QED
  BY <1>2 DEF Init, PanelInv, HandedOut, Agrees, AckedIsOnPanel, BuriedWasRetried

LEMMA PanelStep == PanelInv /\ [Next]_vars => PanelInv'
<1> SUFFICES ASSUME PanelInv, [Next]_vars PROVE PanelInv'
  OBVIOUS
<1>1. CASE UNCHANGED vars
  BY <1>1 DEF vars, group, PanelInv, TypeOK, HandedOut, Agrees, Current, Covered,
              AckedIsOnPanel, BuriedWasRetried
<1>2. ASSUME NEW c \in Consumers, Pump(c) PROVE PanelInv'
  BY <1>2, ReadStep, ReclaimStep, SkipStep, ApplyStep, FailStep, AckStep,
     CountStep, BuryStep, AbortStep DEF Pump
<1>3. QED
  BY <1>1, <1>2, PublishStep, CountStep, AbortStep, ElapseStep DEF Next

(* The inductive invariant holds in every reachable state.                 *)
THEOREM PanelInvariant == Spec => []PanelInv
  BY PanelInit, PanelStep, PTL DEF Spec

(* Type correctness of the read side.                                      *)
THEOREM PanelTypeCorrect == Spec => []TypeOK
<1>1. PanelInv => TypeOK BY DEF PanelInv
<1>2. QED BY <1>1, PanelInvariant, PTL

(* No payment is invisible: what handleEntries acknowledged is shown by    *)
(* the panel, unless it was logged as poison.                              *)
THEOREM AcknowledgedIsShown == Spec => []AckedIsOnPanel
<1>1. PanelInv => AckedIsOnPanel BY DEF PanelInv
<1>2. QED BY <1>1, PanelInvariant, PTL

(* Nothing is buried before its MAX_DELIVERIES deliveries.                 *)
THEOREM BurialNeedsRetries == Spec => []BuriedWasRetried
<1>1. PanelInv => BuriedWasRetried BY DEF PanelInv
<1>2. QED BY <1>1, PanelInvariant, PTL

(* No replay, reclaim or late delivery takes a payment back on the panel.  *)
THEOREM PanelOnlyAdvances == Spec => PanelNeverRegresses
<1> DEFINE Rises == \A k \in RecordKeys :
                      panel[k] # "NONE" =>
                        /\ panel'[k] # "NONE"
                        /\ STATE_RANK(panel[k]) <= STATE_RANK(panel'[k])
<1>1. PanelInv /\ [Next]_vars => [Rises]_vars
  <2> SUFFICES ASSUME PanelInv, Next PROVE Rises
    OBVIOUS
  <2>0. \A s : STATE_RANK(s) \in Nat
    BY DEF STATE_RANK
  <2>1. ASSUME panel' = panel PROVE Rises
    BY <2>0, <2>1
  <2>2. ASSUME NEW c \in Consumers, Apply(c) PROVE Rises
    BY <2>2, UpsertCovers DEF PanelInv, Apply
  <2>3. (\E c \in Consumers : Apply(c)) \/ panel' = panel
    BY DEF Next, Publish, Pump, Abort, Elapse, Read, ReadNothing, Reclaim,
           ReclaimNothing, Skip, ApplyFails, Ack, AckFails, CountDeliveries, CountFails,
           Bury
  <2>4. QED BY <2>1, <2>2, <2>3
<1>2. QED
  BY <1>1, PanelInvariant, PTL DEF Spec, PanelNeverRegresses

-----------------------------------------------------------------------------
(* The path implements its parts                                           *)

LEMMA RecordsOfRows ==
  /\ \A row \in Rows : KindOf[row] = "record" => row \in Sited
  /\ \A row \in Sited : /\ row \in Changes /\ row \in Rows /\ KindOf[row] = "record"
                         /\ row.payment \in Payments /\ row.state \in Moved
                         /\ RecordOf(row) \in Records /\ RecordOf(row).key = KeyOf(row)
                         /\ RecordOf(row).state = row.state
  BY PaymentsAssumption, AlertsAssumption DEF KindOf, Sited, Rows, RecordOf, Envelopes

LEMMA PipelineSteps ==
  ASSUME PipelineNext
  PROVE  /\ [Next]_vars
         /\ [Relay!Next]_relayVars
         /\ [Ladder!Next]_ladderVars
<1>1. ASSUME NEW row \in Changes, Change(row)
      PROVE  UNCHANGED vars /\ Relay!Next /\ Ladder!Next
  <2>1. row.payment \in Payments /\ row.state \in PAYMENT_STATES
    BY PaymentsAssumption DEF Envelopes, Moved
  <2>2. Relay!Next
    BY <1>1 DEF Change, Relay!Next, Rows
  <2>3. Ladder!Next
    BY <1>1, <2>1 DEF Change, Ladder!Next, PAYMENT_STATES, Ladder!PAYMENT_STATES
  <2>4. QED
    BY <1>1, <2>2, <2>3 DEF Change
<1>2. ASSUME NEW p \in Payments, NEW row \in Alerts, Alert(p, row)
      PROVE  UNCHANGED vars /\ Relay!Next /\ Ladder!Next
  BY <1>2 DEF Alert, Relay!Next, Ladder!Next, Rows
<1>3. ASSUME NEW r \in Relays, NEW row \in Rows, Forward(r, row)
      PROVE  Next /\ Relay!Next /\ UNCHANGED ladderVars
  <2>1. RecordOf(row) \in Events
    BY <1>3, RecordsOfRows DEF Forward, Events
  <2>2. QED
    BY <1>3, <2>1 DEF Forward, Next, Relay!Next, Relay!Tick
<1>4. ASSUME NEW r \in Relays, NEW row \in Rows, Withhold(r, row)
      PROVE  UNCHANGED vars /\ Relay!Next /\ UNCHANGED ladderVars
  BY <1>4 DEF Withhold, Relay!Next, Relay!Tick
<1>5. ASSUME NEW r \in Relays, Housekeeping(r)
      PROVE  UNCHANGED vars /\ Relay!Next /\ UNCHANGED ladderVars
  BY <1>5 DEF Housekeeping, Relay!Next, Relay!Tick
<1>6. ASSUME Others PROVE Next /\ UNCHANGED relayVars /\ UNCHANGED ladderVars
  BY <1>6 DEF Others, Next, Events
<1>7. ASSUME Consume PROVE Next /\ UNCHANGED relayVars /\ UNCHANGED ladderVars
  BY <1>7 DEF Consume, Next
<1>8. ASSUME LeaseEnds PROVE UNCHANGED vars /\ Relay!Next /\ UNCHANGED ladderVars
  BY <1>8 DEF LeaseEnds, Relay!Next
<1>9. QED
  BY <1>1, <1>2, <1>3, <1>4, <1>5, <1>6, <1>7, <1>8 DEF PipelineNext

(* Nothing in the path does what its parts do not allow (apply, the relay  *)
(* and the panel only meet at the outbox and at the stream), so what each  *)
(* of them promises is kept in it.                                         *)
THEOREM PartsAreUsed == PipelineSpec => Ladder!Spec /\ Relay!Spec /\ Spec
<1>1. PipelineInit => Ladder!Init /\ Relay!Init /\ Init
  BY DEF PipelineInit
<1>2. [PipelineNext]_pipelineVars => /\ [Next]_vars /\ [Relay!Next]_(Relay!vars)
                                     /\ [Ladder!Next]_<<state, journal>>
  <2>1. CASE PipelineNext
    BY <2>1, PipelineSteps DEF relayVars, Relay!vars, ladderVars
  <2>2. CASE UNCHANGED pipelineVars
    BY <2>2 DEF pipelineVars, relayVars, Relay!vars, ladderVars
  <2>3. QED
    BY <2>1, <2>2
<1>3. QED
  BY <1>1, <1>2, PTL DEF PipelineSpec, Spec, Relay!Spec, Ladder!Spec

-----------------------------------------------------------------------------
(* What was proved about the relay                                         *)

(* The theorems about the relay come with an instance of their own of its  *)
(* module (and of the monitor's, which they do not speak of); its          *)
(* definitions are those of Relay.                                         *)
RelayProofs == INSTANCE OutboxRelay_proofs WITH
  Kind       <- KindOf,
  MaxAborts  <- MaxLostTicks,
  published  <- taken,
  pc         <- relayPc,
  aborts     <- lostTicks,
  Checks     <- {},
  aged       <- {},
  reading    <- {},
  wasStalled <- FALSE,
  notice     <- "none"

LEMMA RelayAssumptions ==
  /\ RelayProofs!KindAssumption /\ RelayProofs!BoundsAssumption
  /\ RelayProofs!NoRowAssumption /\ RelayProofs!RelaysAssumption
<1>1. RelayProofs!KindAssumption
  BY DEF RelayProofs!KindAssumption, RelayProofs!Kinds, KindOf
<1>2. RelayProofs!BoundsAssumption
  BY PipelineRelayAssumption DEF RelayProofs!BoundsAssumption
<1>3. RelayProofs!NoRowAssumption
  BY PipelineRelayAssumption DEF RelayProofs!NoRowAssumption, Rows
<1>4. RelayProofs!RelaysAssumption
  BY PipelineRelayAssumption
     DEF RelayProofs!RelaysAssumption, IsFiniteSet, RelayProofs!IsFiniteSet
<1>5. QED
  BY <1>1, <1>2, <1>3, <1>4

LEMMA SameRelay ==
  /\ RelayProofs!Spec <=> Relay!Spec
  /\ RelayProofs!SentWasHandled <=> Relay!SentWasHandled
<1>1. RelayProofs!Spec <=> Relay!Spec
  BY PTL
     DEF RelayProofs!Spec, Relay!Spec, RelayProofs!Init, Relay!Init,
         RelayProofs!Next, Relay!Next, RelayProofs!Tick, Relay!Tick,
         RelayProofs!vars, Relay!vars, RelayProofs!table, Relay!table,
         RelayProofs!Enqueue, Relay!Enqueue, RelayProofs!Elapse, Relay!Elapse,
         RelayProofs!Claim, Relay!Claim, RelayProofs!Claimable, Relay!Claimable,
         RelayProofs!Publish, Relay!Publish, RelayProofs!AfterRow, Relay!AfterRow,
         RelayProofs!PublishFails, Relay!PublishFails,
         RelayProofs!RecordFailure, Relay!RecordFailure,
         RelayProofs!Exhausted, Relay!Exhausted,
         RelayProofs!MarkSent, Relay!MarkSent, RelayProofs!Abort, Relay!Abort,
         RelayProofs!Cardinality, Relay!Cardinality,
         RelayProofs!IsFiniteSet, Relay!IsFiniteSet
<1>2. RelayProofs!SentWasHandled <=> Relay!SentWasHandled
  BY DEF RelayProofs!SentWasHandled, Relay!SentWasHandled
<1>3. QED
  BY <1>1, <1>2

LEMMA RelayDelivers == PipelineSpec => []Relay!SentWasHandled
  BY PartsAreUsed, SameRelay, RelayAssumptions, RelayProofs!NothingSilentlyLost, PTL

LEMMA RelayShape == PipelineSpec => []Relay!TypeOK
<1>1. RelayProofs!TypeOK <=> Relay!TypeOK
  BY DEF RelayProofs!TypeOK, Relay!TypeOK, RelayProofs!Statuses, Relay!Statuses,
         RelayProofs!PCs, Relay!PCs
<1>2. QED
  BY <1>1, PartsAreUsed, SameRelay, RelayAssumptions, RelayProofs!RelayTypeCorrect, PTL

-----------------------------------------------------------------------------
(* What the parts hand to each other                                       *)

(* STATE_RANK orders states as the lifecycle does, and tells them apart.   *)
LEMMA MovesAscend ==
  /\ \A s : STATE_RANK(s) \in Nat
  /\ \A s, to : <<s, to>> \in Ladder!Transitions =>
       /\ s \in PAYMENT_STATES /\ to \in PAYMENT_STATES
       /\ EffectForState(to) \in PAYMENT_EFFECTS \ {"PAYMENT_CONFLICT"}
       /\ STATE_RANK(s) <= STATE_RANK(to)
  /\ \A s, t \in PAYMENT_STATES : STATE_RANK(s) = STATE_RANK(t) => s = t
  /\ "NONE" \notin PAYMENT_STATES
<1>1. \A s : STATE_RANK(s) \in Nat
  BY DEF STATE_RANK
<1>2. ASSUME NEW s, NEW to, <<s, to>> \in Ladder!Transitions
      PROVE  /\ s \in PAYMENT_STATES /\ to \in PAYMENT_STATES
             /\ EffectForState(to) \in PAYMENT_EFFECTS \ {"PAYMENT_CONFLICT"}
             /\ STATE_RANK(s) <= STATE_RANK(to)
  BY <1>2 DEF Ladder!Transitions, PAYMENT_STATES, EffectForState, PAYMENT_EFFECTS,
              STATE_RANK
<1>3. /\ \A s, t \in PAYMENT_STATES : STATE_RANK(s) = STATE_RANK(t) => s = t
      /\ "NONE" \notin PAYMENT_STATES
  <2>1. /\ STATE_RANK("INITIATED") = 0 /\ STATE_RANK("AUTHORIZED") = 10
        /\ STATE_RANK("FAILED") = 15   /\ STATE_RANK("CAPTURED") = 20
        /\ STATE_RANK("SETTLED") = 30
    BY DEF STATE_RANK
  <2>2. QED
    BY <2>1 DEF PAYMENT_STATES
<1>4. QED
  BY <1>1, <1>2, <1>3

Entries == [type : PAYMENT_EFFECTS, fromState : PAYMENT_STATES, toState : PAYMENT_STATES]

(* A journal that gets one more entry keeps the others.                    *)
LEMMA JournalGrows ==
  ASSUME LadderTypeOK, NEW p \in Payments, NEW e \in Entries,
         journal' = [journal EXCEPT ![p] = Append(@, e)]
  PROVE  /\ journal' \in [Payments -> Seq(Entries)]
         /\ \A q \in Payments : \A i \in DOMAIN journal[q] :
              i \in DOMAIN journal'[q] /\ journal'[q][i] = journal[q][i]
         /\ \A q \in Payments : \A i \in DOMAIN journal'[q] :
              i \in DOMAIN journal[q] \/ (q = p /\ journal'[q][i] = e)
         /\ \E i \in DOMAIN journal'[p] : journal'[p][i] = e
<1>1. journal \in [Payments -> Seq(Entries)]
  BY DEF LadderTypeOK, Entries
<1> DEFINE old == journal[p]
           new == Append(old, e)
<1>2. old \in Seq(Entries) /\ Len(old) \in Nat /\ DOMAIN old = 1 .. Len(old)
  BY <1>1, LenProperties
<1>3. /\ new \in Seq(Entries) /\ Len(new) = Len(old) + 1
      /\ \A i \in 1 .. Len(old) : new[i] = old[i]
      /\ new[Len(old) + 1] = e
  BY <1>2, AppendProperties
<1>4. DOMAIN new = 1 .. Len(old) + 1
  BY <1>3, LenProperties
<1>5. journal'[p] = new /\ \A q \in Payments \ {p} : journal'[q] = journal[q]
  BY <1>1
<1>6. journal' \in [Payments -> Seq(Entries)]
  BY <1>1, <1>3
<1> HIDE DEF new, old
<1>7. /\ \A i \in DOMAIN old : i \in DOMAIN new /\ new[i] = old[i]
      /\ \A i \in DOMAIN new : i \in DOMAIN old \/ new[i] = e
      /\ \E i \in DOMAIN new : new[i] = e
  BY <1>2, <1>3, <1>4
<1>8. old = journal[p]
  BY DEF old
<1>9. QED
  BY <1>5, <1>6, <1>7, <1>8

(* The relay works on rows of the outbox and adds none.                    *)
LEMMA RelayKeepsRows ==
  ASSUME Relay!TypeOK, HeldAreRows, NEW r \in Relays,
         \/ \E rows \in SUBSET Rows : Relay!Claim(r, rows)
         \/ \E row \in Rows : Relay!Publish(r, row) \/ Relay!PublishFails(r, row)
         \/ Relay!RecordFailure(r) \/ Relay!MarkSent(r) \/ Relay!Abort(r)
  PROVE  /\ \A row \in Rows : Enqueued(row)' <=> Enqueued(row)
         /\ \A q \in Relays : \A row \in batch'[q] \cup sentIds'[q] : Enqueued(row)'
<1>1. /\ status  \in [Rows -> {"absent", "pending", "sent", "failed"}]
      /\ batch   \in [Relays -> SUBSET Rows]
      /\ sentIds \in [Relays -> SUBSET Rows]
      /\ relayPc[r] = "recordFailure" => failing[r] \in batch[r]
      /\ \A q \in Relays : \A row \in batch[q] \cup sentIds[q] : Enqueued(row)
  BY DEF Relay!TypeOK, Relay!Statuses, HeldAreRows
<1> DEFINE Keeps == \A row \in Rows : Enqueued(row)' <=> Enqueued(row)
           Holds == \A q \in Relays : \A row \in batch'[q] \cup sentIds'[q] :
                      row \in Rows /\ Enqueued(row)
<1>2. CASE \E rows \in SUBSET Rows : Relay!Claim(r, rows)
  <2>1. PICK rows \in SUBSET Rows : Relay!Claim(r, rows)
    BY <1>2
  <2>2. /\ status' = status /\ sentIds' = sentIds
        /\ batch' = [batch EXCEPT ![r] = rows]
        /\ \A row \in rows : Enqueued(row)
    BY <2>1 DEF Relay!Claim, Relay!Claimable, Enqueued
  <2>3. QED
    BY <1>1, <2>2 DEF Enqueued
<1>3. CASE \E row \in Rows : Relay!Publish(r, row) \/ Relay!PublishFails(r, row)
  <2>1. PICK row \in Rows : Relay!Publish(r, row) \/ Relay!PublishFails(r, row)
    BY <1>3
  <2>2. /\ status' = status /\ row \in batch[r]
        /\ batch' = [batch EXCEPT ![r] = @ \ {row}] \/ batch' = batch
        /\ sentIds' = [sentIds EXCEPT ![r] = @ \cup {row}] \/ sentIds' = sentIds
    BY <2>1 DEF Relay!Publish, Relay!PublishFails, Relay!table
  <2>3. Keeps
    BY <2>2 DEF Enqueued
  <2>4. \A q \in Relays : /\ batch'[q] \subseteq batch[q]
                          /\ sentIds'[q] \subseteq sentIds[q] \cup batch[q]
    BY <1>1, <2>2
  <2>5. QED
    BY <1>1, <2>3, <2>4
<1>4. CASE Relay!RecordFailure(r)
  <2>1. /\ failing[r] \in Rows /\ Enqueued(failing[r])
        /\ sentIds' = sentIds
        /\ batch' = [batch EXCEPT ![r] = @ \ {failing[r]}]
        /\ status' = [status EXCEPT ![failing[r]] =
                        IF Relay!Exhausted(r, failing[r]) THEN "failed" ELSE @]
    BY <1>1, <1>4 DEF Relay!RecordFailure
  <2>2. Keeps
    BY <1>1, <2>1 DEF Enqueued
  <2>3. \A q \in Relays : batch'[q] \subseteq batch[q] /\ sentIds'[q] = sentIds[q]
    BY <1>1, <2>1
  <2>4. QED
    BY <1>1, <2>2, <2>3
<1>5. CASE Relay!MarkSent(r)
  <2>1. /\ batch' = batch
        /\ sentIds' = [sentIds EXCEPT ![r] = {}]
        /\ status' = [row \in Rows |-> IF row \in sentIds[r] THEN "sent" ELSE status[row]]
    BY <1>5 DEF Relay!MarkSent
  <2>2. Keeps
    BY <1>1, <2>1 DEF Enqueued
  <2>3. \A q \in Relays : batch'[q] = batch[q] /\ sentIds'[q] \subseteq sentIds[q]
    BY <1>1, <2>1
  <2>4. QED
    BY <1>1, <2>2, <2>3
<1>6. CASE Relay!Abort(r)
  <2>1. /\ status' = status
        /\ batch' = [batch EXCEPT ![r] = {}] /\ sentIds' = [sentIds EXCEPT ![r] = {}]
    BY <1>6 DEF Relay!Abort, Relay!table
  <2>2. \A q \in Relays : batch'[q] \subseteq batch[q] /\ sentIds'[q] \subseteq sentIds[q]
    BY <1>1, <2>1
  <2>3. QED
    BY <1>1, <2>1, <2>2 DEF Enqueued
<1>7. QED
  BY <1>2, <1>3, <1>4, <1>5, <1>6

(* Where neither ladder nor outbox moves, rows and moves still agree.      *)
LEMMA RowsStay ==
  ASSUME LadderTypeOK, RowsAreMoves, UNCHANGED ladderVars,
         \A row \in Rows : Enqueued(row)' <=> Enqueued(row)
  PROVE  LadderTypeOK' /\ RowsAreMoves'
<1>1. state' = state /\ journal' = journal
  BY DEF ladderVars
<1>2. \A row \in Changes : row \in Rows
  BY DEF Rows
<1>3. QED
  BY <1>1, <1>2 DEF LadderTypeOK, RowsAreMoves, Effect

(* A stream that gets one more entry keeps the others.                     *)
LEMMA EntriesStay ==
  ASSUME TypeOK, NEW e \in Events, Publish(e)
  PROVE  /\ panel' = panel
         /\ \A id \in 1 .. Len(stream) : id \in 1 .. Len(stream') /\ stream'[id] = stream[id]
         /\ \A id \in 1 .. Len(stream') : id \in 1 .. Len(stream) \/ stream'[id] = e
         /\ \E id \in 1 .. Len(stream') : stream'[id] = e
<1>1. /\ stream \in Seq(Events) /\ Len(stream) \in Nat
      /\ stream' = Append(stream, e) /\ panel' = panel
  BY Positions DEF Publish
<1>2. /\ Len(stream') = Len(stream) + 1
      /\ \A id \in 1 .. Len(stream) : stream'[id] = stream[id]
      /\ stream'[Len(stream) + 1] = e
  BY <1>1, AppendProperties
<1>3. QED
  BY <1>1, <1>2

(* apply: the move and its row come together.                              *)
LEMMA ChangeStep ==
  ASSUME Relay!TypeOK, CustodyInv, NEW row \in Changes, Change(row)
  PROVE  CustodyInv'
<1> DEFINE p == row.payment
           e == Ladder!Entry(EffectForState(row.state), state[p], row.state)
<1>1. /\ p \in Payments /\ row \in Rows
      /\ \A q \in Changes : q.payment \in Payments /\ q.state \in PAYMENT_STATES
      /\ status \in [Rows -> Relay!Statuses]
      /\ state \in [Payments -> PAYMENT_STATES]
  BY PaymentsAssumption
     DEF Envelopes, Moved, Rows, Relay!TypeOK, CustodyInv, LadderTypeOK
<1>2. /\ <<state[p], row.state>> \in Ladder!Transitions
      /\ state'   = [state EXCEPT ![p] = row.state]
      /\ journal' = [journal EXCEPT ![p] = Append(@, e)]
      /\ status[row] = "absent"
      /\ status'  = [status EXCEPT ![row] = "pending"]
      /\ UNCHANGED <<taken, batch, sentIds, stream, panel>>
  BY DEF Change, Ladder!Move, Relay!Enqueue, vars, EffectForState, Ladder!EffectForState
<1>3. /\ e \in Entries /\ e.type # "PAYMENT_CONFLICT" /\ e.toState = row.state
      /\ state[p] \in PAYMENT_STATES /\ row.state \in PAYMENT_STATES
      /\ STATE_RANK(state[p]) <= STATE_RANK(row.state)
      /\ \A s : STATE_RANK(s) \in Nat
  BY <1>2, MovesAscend DEF Entries, Ladder!Entry
<1> HIDE DEF e
<1>4. /\ journal' \in [Payments -> Seq(Entries)]
      /\ \A q \in Payments : \A i \in DOMAIN journal[q] :
           i \in DOMAIN journal'[q] /\ journal'[q][i] = journal[q][i]
      /\ \A q \in Payments : \A i \in DOMAIN journal'[q] :
           i \in DOMAIN journal[q] \/ (q = p /\ journal'[q][i] = e)
      /\ \E i \in DOMAIN journal'[p] : journal'[p][i] = e
  <2>1. LadderTypeOK
    BY DEF CustodyInv
  <2>2. QED
    BY <1>1, <1>2, <1>3, <2>1, JournalGrows
<1>5. /\ Enqueued(row)'
      /\ \A q \in Rows \ {row} : Enqueued(q)' <=> Enqueued(q)
  BY <1>1, <1>2 DEF Enqueued
<1>6. LadderTypeOK'
  BY <1>1, <1>2, <1>3, <1>4 DEF LadderTypeOK, Entries
<1>7. ASSUME NEW q \in Changes, Enqueued(q)'
      PROVE  /\ STATE_RANK(q.state) <= STATE_RANK(state'[q.payment])
             /\ \E i \in DOMAIN journal'[q.payment] :
                  /\ Effect(q.payment, i)'
                  /\ journal'[q.payment][i].toState = q.state
  <2>1. CASE q = row
    BY <2>1, <1>1, <1>2, <1>3, <1>4 DEF Effect
  <2>2. CASE q # row
    <3>1. Enqueued(q) /\ q.payment \in Payments
      BY <2>2, <1>1, <1>5, <1>7 DEF Rows
    <3>2. STATE_RANK(q.state) <= STATE_RANK(state[q.payment])
      BY <3>1 DEF CustodyInv, RowsAreMoves
    <3>3. STATE_RANK(q.state) <= STATE_RANK(state'[q.payment])
      <4>1. CASE q.payment = p
        BY <4>1, <3>2, <1>1, <1>2, <1>3
      <4>2. CASE q.payment # p
        BY <4>2, <3>1, <3>2, <1>1, <1>2
      <4>3. QED
        BY <4>1, <4>2
    <3>4. PICK i \in DOMAIN journal[q.payment] :
            Effect(q.payment, i) /\ journal[q.payment][i].toState = q.state
      BY <3>1 DEF CustodyInv, RowsAreMoves
    <3>5. QED
      BY <3>1, <3>3, <3>4, <1>4 DEF Effect
  <2>3. QED
    BY <2>1, <2>2
<1>8. ASSUME NEW q \in Payments, NEW i \in DOMAIN journal'[q], Effect(q, i)'
      PROVE  \E c \in Changes : Enqueued(c)' /\ c.payment = q /\ c.state = journal'[q][i].toState
  <2>1. CASE q = p /\ journal'[q][i] = e
    BY <2>1, <1>3, <1>5
  <2>2. CASE i \in DOMAIN journal[q]
    <3>1. journal'[q][i] = journal[q][i] /\ Effect(q, i)
      BY <2>2, <1>4, <1>8 DEF Effect
    <3>2. PICK c \in Changes : Enqueued(c) /\ c.payment = q /\ c.state = journal[q][i].toState
      BY <2>2, <3>1 DEF CustodyInv, RowsAreMoves
    <3>3. Enqueued(c)'
      BY <3>2, <1>5 DEF Rows
    <3>4. QED
      BY <3>1, <3>2, <3>3
  <2>3. QED
    BY <2>1, <2>2, <1>4
<1>9. RowsAreMoves'
  BY <1>7, <1>8 DEF RowsAreMoves
<1>10. HeldAreRows'
  <2>1. \A q \in Rows : Enqueued(q) => Enqueued(q)'
    BY <1>5
  <2>2. /\ \A r \in Relays : batch[r] \cup sentIds[r] \subseteq Rows
        /\ taken \subseteq Rows
    BY DEF Relay!TypeOK
  <2>3. QED
    BY <1>2, <2>1, <2>2 DEF CustodyInv, HeldAreRows
<1>11. EntriesAreTaken' /\ ShownAreTaken'
  BY <1>2 DEF CustodyInv, EntriesAreTaken, ShownAreTaken
<1>12. QED
  BY <1>6, <1>9, <1>10, <1>11 DEF CustodyInv

(* A surfaced contradiction is an entry and a row that stand for no move.  *)
LEMMA AlertStep ==
  ASSUME Relay!TypeOK, CustodyInv, NEW p \in Payments, NEW row \in Alerts, Alert(p, row)
  PROVE  CustodyInv'
<1>1. /\ row \in Rows /\ row \notin Changes
      /\ status \in [Rows -> Relay!Statuses]
      /\ state \in [Payments -> PAYMENT_STATES]
      /\ \A q \in Changes : q.payment \in Payments /\ q \in Rows
  BY PaymentsAssumption, AlertsAssumption
     DEF Envelopes, Rows, Relay!TypeOK, CustodyInv, LadderTypeOK
<1>2. /\ state' = state
      /\ journal' = [journal EXCEPT ![p] =
                       Append(@, Ladder!Entry("PAYMENT_CONFLICT", state[p], state[p]))]
      /\ status'  = [status EXCEPT ![row] = "pending"]
      /\ UNCHANGED <<taken, batch, sentIds, stream, panel>>
  BY DEF Alert, Ladder!Contradict, Relay!Enqueue, vars
<1>3. PICK e \in Entries : /\ e.type = "PAYMENT_CONFLICT"
                           /\ journal' = [journal EXCEPT ![p] = Append(@, e)]
  BY <1>1, <1>2 DEF Entries, Ladder!Entry, PAYMENT_EFFECTS
<1>4. /\ journal' \in [Payments -> Seq(Entries)]
      /\ \A q \in Payments : \A i \in DOMAIN journal[q] :
           i \in DOMAIN journal'[q] /\ journal'[q][i] = journal[q][i]
      /\ \A q \in Payments : \A i \in DOMAIN journal'[q] :
           i \in DOMAIN journal[q] \/ (q = p /\ journal'[q][i] = e)
      /\ \E i \in DOMAIN journal'[p] : journal'[p][i] = e
  <2>1. LadderTypeOK
    BY DEF CustodyInv
  <2>2. QED
    BY <1>3, <2>1, JournalGrows
<1>5. /\ \A q \in Rows : Enqueued(q) => Enqueued(q)'
      /\ \A q \in Changes : Enqueued(q)' => Enqueued(q)
  BY <1>1, <1>2 DEF Enqueued
<1>6. LadderTypeOK'
  BY <1>1, <1>2, <1>4 DEF LadderTypeOK, Entries
<1>7. RowsAreMoves'
  <2>1. ASSUME NEW q \in Changes, Enqueued(q)'
        PROVE  /\ STATE_RANK(q.state) <= STATE_RANK(state'[q.payment])
               /\ \E i \in DOMAIN journal'[q.payment] :
                    /\ Effect(q.payment, i)'
                    /\ journal'[q.payment][i].toState = q.state
    <3>1. Enqueued(q) /\ q.payment \in Payments
      BY <2>1, <1>1, <1>5
    <3>2. STATE_RANK(q.state) <= STATE_RANK(state'[q.payment])
      BY <3>1, <1>2 DEF CustodyInv, RowsAreMoves
    <3>3. PICK i \in DOMAIN journal[q.payment] :
            Effect(q.payment, i) /\ journal[q.payment][i].toState = q.state
      BY <3>1 DEF CustodyInv, RowsAreMoves
    <3>4. QED
      BY <3>1, <3>2, <3>3, <1>4 DEF Effect
  <2>2. ASSUME NEW q \in Payments, NEW i \in DOMAIN journal'[q], Effect(q, i)'
        PROVE  \E c \in Changes :
                 Enqueued(c)' /\ c.payment = q /\ c.state = journal'[q][i].toState
    <3>1. i \in DOMAIN journal[q] /\ journal'[q][i] = journal[q][i] /\ Effect(q, i)
      BY <2>2, <1>3, <1>4 DEF Effect
    <3>2. PICK c \in Changes : Enqueued(c) /\ c.payment = q /\ c.state = journal[q][i].toState
      BY <3>1 DEF CustodyInv, RowsAreMoves
    <3>3. QED
      BY <3>1, <3>2, <1>1, <1>5
  <2>3. QED
    BY <2>1, <2>2 DEF RowsAreMoves
<1>8. HeldAreRows'
  <2>1. /\ \A r \in Relays : batch[r] \cup sentIds[r] \subseteq Rows
        /\ taken \subseteq Rows
    BY DEF Relay!TypeOK
  <2>2. QED
    BY <1>2, <1>5, <2>1 DEF CustodyInv, HeldAreRows
<1>9. EntriesAreTaken' /\ ShownAreTaken'
  BY <1>2 DEF CustodyInv, EntriesAreTaken, ShownAreTaken
<1>10. QED
  BY <1>6, <1>7, <1>8, <1>9 DEF CustodyInv

(* The relay hands a row to the bus.                                       *)
LEMMA ForwardStep ==
  ASSUME TypeOK, Relay!TypeOK, CustodyInv, NEW r \in Relays, NEW row \in Rows, Forward(r, row)
  PROVE  CustodyInv'
<1>1. /\ row \in Sited /\ row \in batch[r] /\ RecordOf(row) \in Events
      /\ taken' = taken \cup {row} /\ Publish(RecordOf(row)) /\ UNCHANGED ladderVars
      /\ Relay!Publish(r, row) \/ Relay!PublishFails(r, row)
  BY RecordsOfRows DEF Forward, Relay!Publish, Relay!PublishFails, Events
<1>2. /\ \A q \in Rows : Enqueued(q)' <=> Enqueued(q)
      /\ \A q \in Relays : \A c \in batch'[q] \cup sentIds'[q] : Enqueued(c)'
  BY <1>1, RelayKeepsRows DEF CustodyInv
<1>3. LadderTypeOK' /\ RowsAreMoves'
  BY <1>1, <1>2, RowsStay DEF CustodyInv
<1>4. HeldAreRows'
  <2>1. taken \subseteq Rows
    BY DEF Relay!TypeOK
  <2>2. Enqueued(row)
    BY <1>1 DEF CustodyInv, HeldAreRows
  <2>3. QED
    BY <1>1, <1>2, <2>1, <2>2 DEF CustodyInv, HeldAreRows
<1>5. EntriesAreTaken'
  BY <1>1, EntriesStay DEF CustodyInv, EntriesAreTaken
<1>6. ShownAreTaken'
  BY <1>1, EntriesStay DEF CustodyInv, ShownAreTaken
<1>7. QED
  BY <1>3, <1>4, <1>5, <1>6 DEF CustodyInv

(* The relay works on without handing anything over.                       *)
LEMMA RelayAloneStep ==
  ASSUME Relay!TypeOK, CustodyInv, UNCHANGED <<taken, ladderVars, vars>>,
         \A row \in Rows : Enqueued(row)' <=> Enqueued(row),
         \A q \in Relays : \A row \in batch'[q] \cup sentIds'[q] : Enqueued(row)'
  PROVE  CustodyInv'
<1>1. LadderTypeOK' /\ RowsAreMoves'
  BY RowsStay DEF CustodyInv
<1>2. HeldAreRows'
  BY DEF CustodyInv, HeldAreRows, Relay!TypeOK
<1>3. EntriesAreTaken' /\ ShownAreTaken'
  BY DEF CustodyInv, EntriesAreTaken, ShownAreTaken, vars
<1>4. QED
  BY <1>1, <1>2, <1>3 DEF CustodyInv

LEMMA WithholdStep ==
  ASSUME Relay!TypeOK, CustodyInv, NEW r \in Relays, NEW row \in Rows, Withhold(r, row)
  PROVE  CustodyInv'
<1>1. /\ Relay!Publish(r, row) \/ Relay!PublishFails(r, row)
      /\ UNCHANGED <<taken, ladderVars, vars>>
  BY DEF Withhold
<1>2. QED
  BY <1>1, RelayKeepsRows, RelayAloneStep DEF CustodyInv

LEMMA HousekeepingStep ==
  ASSUME Relay!TypeOK, CustodyInv, NEW r \in Relays, Housekeeping(r)
  PROVE  CustodyInv'
<1>1. /\ \/ \E rows \in SUBSET Rows : Relay!Claim(r, rows)
         \/ Relay!RecordFailure(r) \/ Relay!MarkSent(r) \/ Relay!Abort(r)
      /\ UNCHANGED <<ladderVars, vars>>
  BY DEF Housekeeping
<1>2. taken' = taken
  BY <1>1 DEF Relay!Claim, Relay!RecordFailure, Relay!MarkSent, Relay!Abort
<1>3. QED
  BY <1>1, <1>2, RelayKeepsRows, RelayAloneStep DEF CustodyInv

LEMMA LeaseEndsStep ==
  ASSUME Relay!TypeOK, CustodyInv, LeaseEnds
  PROVE  CustodyInv'
<1>1. UNCHANGED <<status, batch, sentIds, taken, ladderVars, vars>>
  BY DEF LeaseEnds, Relay!Elapse
<1>2. /\ \A row \in Rows : Enqueued(row)' <=> Enqueued(row)
      /\ \A q \in Relays : \A row \in batch'[q] \cup sentIds'[q] : Enqueued(row)'
  BY <1>1 DEF Enqueued, CustodyInv, HeldAreRows
<1>3. QED
  BY <1>1, <1>2, RelayAloneStep

(* What is not the estate's own entry leads back to no row.                *)
LEMMA OthersStep ==
  ASSUME TypeOK, CustodyInv, Others
  PROVE  CustodyInv'
<1>1. PICK e \in {Malformed, Foreign} : Publish(e)
  BY DEF Others
<1>2. e \in Events /\ e \notin Records /\ UNCHANGED <<ladderVars, relayVars>>
  BY RecordsAssumption DEF Others, Events
<1>3. LadderTypeOK' /\ RowsAreMoves' /\ HeldAreRows'
  BY <1>2, RowsStay DEF CustodyInv, relayVars, Enqueued, HeldAreRows
<1>4. EntriesAreTaken'
  BY <1>1, <1>2, EntriesStay DEF CustodyInv, EntriesAreTaken, relayVars
<1>5. ShownAreTaken'
  BY <1>1, <1>2, EntriesStay DEF CustodyInv, ShownAreTaken, relayVars
<1>6. QED
  BY <1>3, <1>4, <1>5 DEF CustodyInv

(* The panel only shows what an entry says.                                *)
LEMMA ConsumeStep ==
  ASSUME PanelInv, CustodyInv, Consume
  PROVE  CustodyInv'
<1>1. UNCHANGED <<ladderVars, relayVars, stream>>
  BY DEF Consume, Pump, CountFails, Abort, Elapse, Read, ReadNothing, Reclaim,
         ReclaimNothing, Skip, Apply, ApplyFails, Ack, AckFails, CountDeliveries, Bury
<1>2. LadderTypeOK' /\ RowsAreMoves' /\ HeldAreRows' /\ EntriesAreTaken'
  <2>1. LadderTypeOK' /\ RowsAreMoves'
    BY <1>1, RowsStay DEF CustodyInv, relayVars, Enqueued
  <2>2. QED
    BY <1>1, <2>1 DEF CustodyInv, relayVars, Enqueued, HeldAreRows, EntriesAreTaken
<1>3. ShownAreTaken'
  <2>1. CASE panel' = panel
    BY <2>1, <1>1 DEF CustodyInv, ShownAreTaken, relayVars
  <2>2. ASSUME NEW c \in Consumers, Apply(c) PROVE ShownAreTaken'
    <3> DEFINE e == stream[Current(c)]
    <3>1. /\ e \in Records /\ e.key \in RecordKeys
          /\ panel \in [RecordKeys -> PAYMENT_STATES \cup {"NONE"}]
          /\ \/ panel' = [panel EXCEPT ![e.key] = e.state]
             \/ panel' = panel
      BY <2>2, RecordsAssumption DEF Apply, PanelInv, TypeOK
    <3>2. Current(c) \in 1 .. Len(stream)
      BY <2>2, CurrentDelivered, Positions DEF Apply, PanelInv
    <3>3. PICK row \in taken : e = RecordOf(row)
      BY <3>1, <3>2 DEF CustodyInv, EntriesAreTaken
    <3>4. KeyOf(row) = e.key /\ row.state = e.state
      BY <3>3 DEF RecordOf
    <3>5. taken' = taken
      BY <1>1 DEF relayVars
    <3> HIDE DEF e
    <3>6. QED
      BY <3>1, <3>3, <3>4, <3>5 DEF CustodyInv, ShownAreTaken
  <2>3. (\E c \in Consumers : Apply(c)) \/ panel' = panel
    BY DEF Consume, Pump, CountFails, Abort, Elapse, Read, ReadNothing, Reclaim,
           ReclaimNothing, Skip, ApplyFails, Ack, AckFails, CountDeliveries, Bury
  <2>4. QED
    BY <2>1, <2>2, <2>3
<1>4. QED
  BY <1>2, <1>3 DEF CustodyInv

LEMMA CustodyStep ==
  ASSUME PanelInv, Relay!TypeOK, CustodyInv, [PipelineNext]_pipelineVars
  PROVE  CustodyInv'
<1>1. TypeOK
  BY DEF PanelInv
<1>2. CASE UNCHANGED pipelineVars
  BY <1>2 DEF pipelineVars, ladderVars, relayVars, vars, CustodyInv, LadderTypeOK,
              RowsAreMoves, HeldAreRows, EntriesAreTaken, ShownAreTaken, Enqueued, Effect
<1>3. CASE PipelineNext
  BY <1>1, <1>3, ChangeStep, AlertStep, ForwardStep, WithholdStep, HousekeepingStep,
     OthersStep, ConsumeStep, LeaseEndsStep DEF PipelineNext
<1>4. QED
  BY <1>2, <1>3

LEMMA CustodyInit == PipelineInit => CustodyInv
<1> SUFFICES ASSUME PipelineInit PROVE CustodyInv
  OBVIOUS
<1>1. /\ state = [p \in Payments |-> "INITIATED"] /\ journal = [p \in Payments |-> <<>>]
      /\ status = [row \in Rows |-> "absent"] /\ taken = {} /\ stream = <<>>
      /\ batch = [r \in Relays |-> {}] /\ sentIds = [r \in Relays |-> {}]
      /\ panel = [k \in RecordKeys |-> "NONE"]
  BY DEF PipelineInit, Ladder!Init, Relay!Init, Init
<1>2. LadderTypeOK /\ RowsAreMoves
  BY <1>1 DEF LadderTypeOK, RowsAreMoves, Enqueued, Rows, PAYMENT_STATES
<1>3. HeldAreRows /\ EntriesAreTaken /\ ShownAreTaken
  BY <1>1 DEF HeldAreRows, EntriesAreTaken, ShownAreTaken
<1>4. QED
  BY <1>2, <1>3 DEF CustodyInv

LEMMA CustodyInvariant == PipelineSpec => [](CustodyInv /\ PanelInv /\ Relay!SentWasHandled /\ Relay!TypeOK)
<1>1. PipelineSpec => []PanelInv
  BY PartsAreUsed, PanelInvariant, PTL
<1>2. CustodyInv /\ PanelInv /\ Relay!TypeOK /\ [PipelineNext]_pipelineVars => CustodyInv'
  BY CustodyStep
<1>3. QED
  BY <1>1, <1>2, CustodyInit, RelayShape, RelayDelivers, PTL DEF PipelineSpec

-----------------------------------------------------------------------------
(* What the path as a whole promises                                       *)

(* For any payments, sites, replicas and relays: the panel never shows a   *)
(* state that no committed transition brought about, so none from a        *)
(* transaction that rolled back (apply, transaction of stateMachine.ts).   *)
THEOREM PanelShowsHistory == PipelineSpec => []ShowsOnlyHistory
<1>1. CustodyInv => ShowsOnlyHistory
  <2> SUFFICES ASSUME CustodyInv, NEW k \in RecordKeys, panel[k] # "NONE"
               PROVE  \E i \in DOMAIN journal[k[1]] :
                        /\ journal[k[1]][i].type # "PAYMENT_CONFLICT"
                        /\ journal[k[1]][i].toState = panel[k]
    BY DEF ShowsOnlyHistory
  <2>1. PICK row \in taken : KeyOf(row) = k /\ row.state = panel[k]
    BY DEF CustodyInv, ShownAreTaken
  <2>2. row \in Changes /\ Enqueued(row) /\ row.payment = k[1]
    BY <2>1, RecordsOfRows DEF CustodyInv, HeldAreRows, KeyOf
  <2>3. QED
    BY <2>1, <2>2 DEF CustodyInv, RowsAreMoves, Effect
<1>2. QED
  BY <1>1, CustodyInvariant, PTL

(* And it shows a payment's latest state once it has acknowledged it: the  *)
(* ranks of its upsert order states as decide does.                        *)
THEOREM LatestIsShown == PipelineSpec => []LatestPrevails
<1>1. CustodyInv /\ PanelInv => LatestPrevails
  <2> SUFFICES ASSUME CustodyInv, PanelInv, NEW row \in Sited, Enqueued(row),
                      state[row.payment] = row.state, Acknowledged(RecordOf(row))
               PROVE  panel[KeyOf(row)] = row.state
    BY DEF LatestPrevails, Enqueued
  <2> DEFINE k == KeyOf(row)
  <2>1. /\ RecordOf(row) \in Records /\ RecordOf(row).key = k /\ RecordOf(row).state = row.state
        /\ k \in RecordKeys /\ row.state \in PAYMENT_STATES
        /\ panel \in [RecordKeys -> PAYMENT_STATES \cup {"NONE"}]
    BY RecordsOfRows, RecordsAssumption DEF PanelInv, TypeOK, Moved
  <2>2. panel[k] # "NONE" /\ ~(STATE_RANK(row.state) > STATE_RANK(panel[k]))
    BY <2>1 DEF Acknowledged, PanelInv, AckedIsOnPanel, Covered, Replaces
  <2>3. PICK shown \in taken : KeyOf(shown) = k /\ shown.state = panel[k]
    BY <2>1, <2>2 DEF CustodyInv, ShownAreTaken
  <2>4. shown \in Changes /\ Enqueued(shown) /\ shown.payment = row.payment
    BY <2>3, RecordsOfRows DEF CustodyInv, HeldAreRows, KeyOf
  <2>5. STATE_RANK(panel[k]) <= STATE_RANK(row.state)
    BY <2>3, <2>4 DEF CustodyInv, RowsAreMoves
  <2>6. QED
    BY <2>1, <2>2, <2>5, MovesAscend
<1>2. QED
  BY <1>1, CustodyInvariant, PTL

(* No committed change falls between the outbox, the bus and the panel,    *)
(* whatever crashes, is retried, repeated or reclaimed on the way.         *)
THEOREM CustodyIsUnbroken == PipelineSpec => []ChainOfCustody
<1>1. CustodyInv /\ PanelInv /\ Relay!SentWasHandled /\ Relay!TypeOK => ChainOfCustody
  <2> SUFFICES ASSUME CustodyInv, PanelInv, Relay!SentWasHandled, Relay!TypeOK,
                      NEW p \in Payments, NEW i \in DOMAIN journal[p], Effect(p, i)
               PROVE  \E row \in Changes :
                        /\ row.payment = p /\ row.state = journal[p][i].toState
                        /\ \/ status[row] \in {"pending", "failed"}
                           \/ /\ row \in Sited
                              /\ OnStream(RecordOf(row)) \/ Covered(RecordOf(row))
    BY DEF ChainOfCustody, Effect
  <2>1. PICK row \in Changes :
          Enqueued(row) /\ row.payment = p /\ row.state = journal[p][i].toState
    BY DEF CustodyInv, RowsAreMoves
  <2>2. status[row] \in {"pending", "failed", "sent"} /\ row \in Rows
    BY <2>1 DEF Relay!TypeOK, Relay!Statuses, Enqueued, Rows
  <2>3. CASE status[row] = "sent"
    <3>1. row \in taken /\ row \in Sited
      BY <2>1, <2>2, <2>3, AlertsAssumption
         DEF Relay!SentWasHandled, KindOf, CustodyInv, HeldAreRows
    <3>2. PICK id \in 1 .. Len(stream) : stream[id] = RecordOf(row)
      BY <3>1 DEF CustodyInv, EntriesAreTaken
    <3>3. CASE id > delivered \/ id \in pending \cup buried
      BY <2>1, <3>1, <3>2, <3>3 DEF OnStream
    <3>4. CASE ~(id > delivered \/ id \in pending \cup buried)
      <4>1. id \in (1 .. delivered) \ (pending \cup buried)
        BY <3>2, <3>4, Positions DEF PanelInv
      <4>2. Covered(RecordOf(row))
        BY <4>1, <3>1, <3>2, RecordsOfRows DEF PanelInv, AckedIsOnPanel
      <4>3. QED
        BY <2>1, <3>1, <4>2
    <3>5. QED
      BY <3>3, <3>4
  <2>4. QED
    BY <2>1, <2>2, <2>3
<1>2. QED
  BY <1>1, CustodyInvariant, PTL
=============================================================================
