-------------------------- MODULE WorkQueueProofs --------------------------
(* Safety of WorkQueue, for any number of processes and messages, and any  *)
(* prefetch.                                                               *)
EXTENDS WorkQueue, FiniteSetTheorems, TLAPS

Injective(s) == \A j, k \in DOMAIN s : s[j] = s[k] => j = k

(* The messages whose work is still ahead of a connected consumer. *)
Ahead(i) == IF proc[i] = "consuming" THEN Elems(buf[i]) \cup InHand(i) ELSE {}
Pending(m) == m \in ready \/ \E i \in Insts : m \in Ahead(i)

(* The handlers that run although their connection is gone. *)
Detached(m) == {i \in Insts : proc[i] = "idle" /\ hand[i] = m}

(* Nothing is kept without a connection, nothing is in hand without a      *)
(* process.                                                                *)
Shape == \A i \in Insts :
           /\ proc[i] # "consuming" => buf[i] = <<>> /\ answers[i] = <<>>
           /\ proc[i] = "down" => hand[i] = 0

Known == \A i \in Insts :
           /\ Elems(buf[i]) \cup InHand(i) \cup Answered(i) \subseteq 1..published

(* A message is in one place of a consumer only. *)
OnePlace == \A i \in Insts :
              /\ Injective(buf[i])
              /\ \A j, k \in DOMAIN answers[i] :
                   answers[i][j].msg = answers[i][k].msg => j = k
              /\ proc[i] = "consuming" =>
                   /\ hand[i] \notin Elems(buf[i]) /\ hand[i] \notin Answered(i)
                   /\ Elems(buf[i]) \cap Answered(i) = {}

(* Acks are for what decodes and was handled, nacks for the rest. *)
Kinds == /\ \A i \in Insts : \A k \in DOMAIN answers[i] :
              LET a == answers[i][k] IN
                /\ a.ok <=> a.msg \notin bad
                /\ a.ok => done[a.msg] > 0
         /\ \A m \in acked : m \notin bad /\ done[m] > 0

(* Acked, ready and the connections share the messages among them. *)
Shared == /\ acked \cap ready = {}
          /\ \A i \in Insts : Unacked(i) \cap (acked \cup ready) = {}
          /\ \A i, j \in Insts : i # j => Unacked(i) \cap Unacked(j) = {}
          /\ \A m \in 1..published :
               m \in acked \/ m \in ready \/ \E i \in Insts : m \in Unacked(i)

(* The account of a message that decodes: what was done, what is still     *)
(* ahead and what runs detached is paid for by the first delivery and the  *)
(* losses.                                                                 *)
Account == \A m \in Msgs :
             IF m \in bad \/ m > published THEN done[m] = 0
             ELSE done[m] + (IF Pending(m) THEN 1 ELSE 0) + Cardinality(Detached(m))
                    <= 1 + hits[m]

IInv == TypeOK /\ Shape /\ Known /\ OnePlace /\ Kinds /\ Shared /\ Account

-----------------------------------------------------------------------------
(* Sequences.                                                              *)

LEMMA ElementFacts ==
    ASSUME NEW S, NEW s \in Seq(S)
    PROVE  \A k \in DOMAIN s : s[k] \in S
OBVIOUS

LEMMA AppendFacts ==
    ASSUME NEW S, NEW s \in Seq(S), NEW e \in S
    PROVE  /\ Append(s, e) \in Seq(S) /\ Len(Append(s, e)) = Len(s) + 1
           /\ Elems(Append(s, e)) = Elems(s) \cup {e}
           /\ Injective(s) /\ e \notin Elems(s) => Injective(Append(s, e))
<1>1. /\ Append(s, e) \in Seq(S) /\ Len(Append(s, e)) = Len(s) + 1
      /\ DOMAIN s = 1..Len(s) /\ DOMAIN Append(s, e) = 1..(Len(s) + 1)
      /\ \A k \in 1..Len(s) : Append(s, e)[k] = s[k]
      /\ Append(s, e)[Len(s) + 1] = e /\ Len(s) \in Nat
  OBVIOUS
<1>2. \A k \in DOMAIN Append(s, e) : k \in DOMAIN s \/ k = Len(s) + 1
  BY <1>1
<1>3. Elems(Append(s, e)) = Elems(s) \cup {e}
  BY <1>1, <1>2 DEF Elems
<1>4. Injective(s) /\ e \notin Elems(s) => Injective(Append(s, e))
  BY <1>1, <1>2 DEF Elems, Injective
<1> QED
  BY <1>1, <1>3, <1>4

LEMMA TailFacts ==
    ASSUME NEW S, NEW s \in Seq(S), s # <<>>
    PROVE  /\ Tail(s) \in Seq(S) /\ Len(Tail(s)) = Len(s) - 1 /\ Len(s) \in Nat \ {0}
           /\ Head(s) = s[1] /\ 1 \in DOMAIN s /\ Head(s) \in S
           /\ \A k \in DOMAIN Tail(s) : k + 1 \in DOMAIN s /\ Tail(s)[k] = s[k + 1] /\ k + 1 # 1
           /\ \A k \in DOMAIN s : k = 1 \/ (k - 1 \in DOMAIN Tail(s) /\ s[k] = Tail(s)[k - 1])
           /\ Elems(s) = Elems(Tail(s)) \cup {Head(s)}
           /\ Injective(s) => Injective(Tail(s)) /\ Head(s) \notin Elems(Tail(s))
<1>1. /\ Tail(s) \in Seq(S) /\ Len(Tail(s)) = Len(s) - 1 /\ Len(s) \in Nat \ {0}
      /\ Head(s) = s[1] /\ 1 \in DOMAIN s /\ Head(s) \in S
      /\ DOMAIN s = 1..Len(s) /\ DOMAIN Tail(s) = 1..(Len(s) - 1)
      /\ \A k \in 1..(Len(s) - 1) : Tail(s)[k] = s[k + 1]
  OBVIOUS
<1>2. \A k \in DOMAIN Tail(s) : k + 1 \in DOMAIN s /\ Tail(s)[k] = s[k + 1] /\ k + 1 # 1
  BY <1>1
<1>3. \A k \in DOMAIN s : k = 1 \/ (k - 1 \in DOMAIN Tail(s) /\ s[k] = Tail(s)[k - 1])
  BY <1>1
<1>4. Elems(s) = Elems(Tail(s)) \cup {Head(s)}
  <2>1. ASSUME NEW e \in Elems(s) PROVE e \in Elems(Tail(s)) \cup {Head(s)}
    <3>1. PICK k \in DOMAIN s : e = s[k]
      BY DEF Elems
    <3>2. CASE k = 1
      BY <1>1, <3>1, <3>2
    <3>3. CASE k - 1 \in DOMAIN Tail(s) /\ s[k] = Tail(s)[k - 1]
      BY <3>1, <3>3 DEF Elems
    <3> QED
      BY <1>3, <3>2, <3>3
  <2>2. ASSUME NEW e \in Elems(Tail(s)) PROVE e \in Elems(s)
    BY <1>2 DEF Elems
  <2>3. Head(s) \in Elems(s)
    BY <1>1 DEF Elems
  <2> QED
    BY <2>1, <2>2, <2>3
<1>5. Injective(s) => Injective(Tail(s)) /\ Head(s) \notin Elems(Tail(s))
  <2> SUFFICES ASSUME Injective(s) PROVE Injective(Tail(s)) /\ Head(s) \notin Elems(Tail(s))
    OBVIOUS
  <2>1. Head(s) \notin Elems(Tail(s))
    BY <1>1, <1>2 DEF Elems, Injective
  <2>2. Injective(Tail(s))
    <3> SUFFICES ASSUME NEW j \in DOMAIN Tail(s), NEW k \in DOMAIN Tail(s), Tail(s)[j] = Tail(s)[k]
                 PROVE  j = k
      BY DEF Injective
    <3>1. j + 1 = k + 1
      BY <1>2 DEF Injective
    <3> QED
      BY <3>1, <1>1
  <2> QED
    BY <2>1, <2>2
<1> QED
  BY <1>1, <1>2, <1>3, <1>4, <1>5

LEMMA HandFacts ==
    ASSUME NEW h \in Nat
    PROVE  /\ Cardinality({h} \ {0}) = IF h = 0 THEN 0 ELSE 1
           /\ h # 0 => {h} \ {0} = {h}
           /\ h = 0 => {h} \ {0} = {}
BY FS_Singleton, FS_EmptySet

(* The detached handlers of a message are finitely many. *)
LEMMA DetachedFinite ==
    \A m : IsFiniteSet(Detached(m)) /\ Cardinality(Detached(m)) \in Nat
<1> TAKE m
<1>1. Detached(m) \subseteq Insts
  BY DEF Detached
<1> QED
  BY <1>1, QueueAssumption, FS_Subset, FS_CardinalityType

LEMMA TypeFacts ==
    ASSUME TypeOK
    PROVE  /\ published \in Nat /\ published <= MaxMsgs
           /\ hand \in [Insts -> 0..MaxMsgs] /\ buf \in [Insts -> Seq(Msgs)]
           /\ answers \in [Insts -> Seq([msg : Msgs, ok : BOOLEAN])]
           /\ \A i \in Insts : Len(buf[i]) \in Nat /\ Len(answers[i]) \in Nat
           /\ \A i \in Insts : \A k \in DOMAIN answers[i] : answers[i][k].msg \in Msgs
           /\ \A m \in Msgs : done[m] \in Nat /\ hits[m] \in Nat
<1>1. /\ published \in Nat /\ published <= MaxMsgs
      /\ hand \in [Insts -> 0..MaxMsgs] /\ buf \in [Insts -> Seq(Msgs)]
      /\ answers \in [Insts -> Seq([msg : Msgs, ok : BOOLEAN])]
      /\ done \in [Msgs -> Nat] /\ hits \in [Msgs -> Nat]
  <2>1. published \in 0..MaxMsgs
    BY DEF TypeOK
  <2>2. /\ hand \in [Insts -> 0..MaxMsgs] /\ buf \in [Insts -> Seq(Msgs)]
        /\ answers \in [Insts -> Seq([msg : Msgs, ok : BOOLEAN])]
        /\ done \in [Msgs -> Nat] /\ hits \in [Msgs -> Nat]
    BY DEF TypeOK
  <2>3. published \in Nat /\ published <= MaxMsgs
    <3>1. MaxMsgs \in Nat
      BY QueueAssumption
    <3> QED
      BY <2>1, <3>1
  <2> QED
    BY <2>2, <2>3
<1>2. ASSUME NEW i \in Insts
      PROVE  /\ Len(buf[i]) \in Nat /\ Len(answers[i]) \in Nat
             /\ \A k \in DOMAIN answers[i] : answers[i][k].msg \in Msgs
  <2>1. buf[i] \in Seq(Msgs) /\ answers[i] \in Seq([msg : Msgs, ok : BOOLEAN])
    BY <1>1
  <2>2. \A k \in DOMAIN answers[i] : answers[i][k] \in [msg : Msgs, ok : BOOLEAN]
    BY <2>1, ElementFacts
  <2>3. Len(buf[i]) \in Nat /\ Len(answers[i]) \in Nat
    BY <2>1
  <2> QED
    BY <2>2, <2>3
<1> QED
  BY <1>1, <1>2

-----------------------------------------------------------------------------
LEMMA InitIInv == Init => IInv
<1> SUFFICES ASSUME Init PROVE IInv
  OBVIOUS
<1> USE QueueAssumption DEF Init
<1>1. \A i \in Insts : /\ buf[i] = <<>> /\ answers[i] = <<>> /\ hand[i] = 0
                       /\ Elems(buf[i]) = {} /\ Answered(i) = {} /\ InHand(i) = {} /\ Unacked(i) = {}
  BY DEF Elems, Answered, InHand, Unacked
<1>2. TypeOK
  <2>1. ASSUME NEW i \in Insts
        PROVE  Len(buf[i]) + Cardinality(InHand(i)) + Len(answers[i]) <= Prefetch
    <3>1. Cardinality(InHand(i)) = 0
      BY <1>1, FS_EmptySet
    <3> QED
      BY <1>1, <3>1
  <2> QED
    BY <2>1 DEF TypeOK, Msgs
<1>3. Shape /\ Known
  BY <1>1 DEF Shape, Known
<1>4. OnePlace /\ Kinds
  BY <1>1 DEF OnePlace, Kinds, Injective
<1>5. Shared
  BY <1>1 DEF Shared
<1>6. Account
  BY DEF Account, Msgs
<1> QED
  BY <1>2, <1>3, <1>4, <1>5, <1>6 DEF IInv

(* A message of the broker's own: it is new to everybody. *)
LEMMA PublishIInv == IInv /\ Publish => IInv'
<1> SUFFICES ASSUME IInv, Publish PROVE IInv'
  OBVIOUS
<1> USE QueueAssumption DEF IInv
<1>1. /\ published' = published + 1 /\ published' \in Msgs /\ published \in Nat
      /\ ready' = ready \cup {published'}
      /\ bad' = bad \/ bad' = bad \cup {published'}
      /\ UNCHANGED <<proc, starts, acked, buf, hand, answers, done, hits>>
  BY DEF Publish, consumer, TypeOK, Msgs
<1>2. \A i \in Insts : /\ Elems(buf[i])' = Elems(buf[i]) /\ Answered(i)' = Answered(i)
                       /\ InHand(i)' = InHand(i) /\ Unacked(i)' = Unacked(i) /\ Ahead(i)' = Ahead(i)
  BY <1>1 DEF Elems, Answered, InHand, Unacked, Ahead
<1>3. \A i \in Insts : /\ Unacked(i) \subseteq 1..published /\ Ahead(i) \subseteq 1..published
                       /\ published' \notin Unacked(i) /\ published' \notin Ahead(i)
                       /\ hand[i] # published'
  <2> TAKE i \in Insts
  <2>1. /\ Elems(buf[i]) \subseteq 1..published /\ InHand(i) \subseteq 1..published
        /\ Answered(i) \subseteq 1..published /\ published' \notin 1..published
    BY <1>1 DEF Known
  <2>2. published' \notin InHand(i) /\ published' # 0
    BY <1>1, <2>1
  <2> QED
    BY <2>1, <2>2 DEF Unacked, Ahead, InHand
<1>4. TypeOK'
  <2>1. 1..published \subseteq 1..published' /\ published' \in 1..published'
    BY <1>1
  <2>2. /\ ready' \subseteq 1..published' /\ bad' \subseteq 1..published'
        /\ acked' \subseteq 1..published'
    BY <1>1, <2>1 DEF TypeOK
  <2>4. published' \in 0..MaxMsgs
    BY <1>1 DEF Msgs
  <2>3. \A i \in Insts :
          Len(buf'[i]) + Cardinality(InHand(i)') + Len(answers'[i]) <= Prefetch
    BY <1>1, <1>2 DEF TypeOK
  <2> QED
    BY <1>1, <2>2, <2>3, <2>4 DEF TypeOK
<1>5. Shape' /\ Known'
  <2>1. 1..published \subseteq 1..published'
    BY <1>1
  <2>2. \A i \in Insts : Elems(buf[i]) \cup InHand(i) \cup Answered(i) \subseteq 1..published
    BY DEF Known
  <2>3. Known'
    BY <1>2, <2>1, <2>2 DEF Known
  <2>4. Shape'
    BY <1>1 DEF Shape
  <2> QED
    BY <2>3, <2>4
<1>6. OnePlace'
  BY <1>1, <1>2 DEF OnePlace, Injective
<1>7. Kinds'
  <2>1. \A i \in Insts : \A k \in DOMAIN answers[i] : answers[i][k].msg \in 1..published
    BY DEF Known, Answered
  <2>2. \A m \in 1..published : m \in bad' <=> m \in bad
    BY <1>1
  <2> QED
    BY <1>1, <2>1, <2>2 DEF Kinds, TypeOK
<1>8. Shared'
  <2>1. \A m \in 1..published' : m \in 1..published \/ m = published'
    BY <1>1
  <2>2. \A m \in 1..published' :
          m \in acked' \/ m \in ready' \/ \E i \in Insts : m \in Unacked(i)'
    BY <1>1, <1>2, <2>1 DEF Shared
  <2>3. /\ acked' \cap ready' = {}
        /\ \A i \in Insts : Unacked(i)' \cap (acked' \cup ready') = {}
        /\ \A i, j \in Insts : i # j => Unacked(i)' \cap Unacked(j)' = {}
    BY <1>1, <1>2, <1>3 DEF Shared, TypeOK
  <2> QED
    BY <2>2, <2>3 DEF Shared
<1>9. Account'
  <2> SUFFICES ASSUME NEW m \in Msgs
               PROVE  IF m \in bad' \/ m > published' THEN done[m] = 0
                      ELSE done[m] + (IF Pending(m)' THEN 1 ELSE 0) + Cardinality(Detached(m)')
                             <= 1 + hits[m]
    BY <1>1 DEF Account
  <2>1. Detached(m)' = Detached(m)
    BY <1>1 DEF Detached
  <2>2. CASE m <= published
    <3>1. m \in bad' <=> m \in bad
      BY <1>1, <2>2 DEF Msgs
    <3>2. Pending(m)' <=> Pending(m)
      BY <1>1, <1>2, <2>2 DEF Pending, Msgs
    <3> QED
      BY <1>1, <2>1, <2>2, <3>1, <3>2 DEF Account, Msgs
  <2>3. CASE m = published'
    <3>1. Detached(m) = {}
      BY <1>3, <2>3 DEF Detached
    <3>2. Cardinality(Detached(m)') = 0
      BY <2>1, <3>1, FS_EmptySet
    <3>3. done[m] = 0 /\ hits[m] \in Nat
      BY <1>1, <2>3 DEF Account, TypeOK, Msgs
    <3> QED
      BY <3>2, <3>3
  <2>4. CASE m > published'
    BY <1>1, <2>4 DEF Account, Msgs
  <2> QED
    BY <1>1, <2>2, <2>3, <2>4 DEF Msgs
<1> QED
  BY <1>4, <1>5, <1>6, <1>7, <1>8, <1>9 DEF IInv

LEMMA StartIInv == \A i \in Insts : IInv /\ Start(i) => IInv'
<1> SUFFICES ASSUME NEW i \in Insts, IInv, Start(i) PROVE IInv'
  OBVIOUS
<1> USE QueueAssumption DEF IInv
<1>1. /\ proc[i] = "down" /\ proc' \in [Insts -> {"down", "idle", "consuming"}]
      /\ proc'[i] \in {"idle", "consuming"} /\ \A j \in Insts \ {i} : proc'[j] = proc[j]
      /\ starts' \in 0..MaxStarts
      /\ UNCHANGED <<published, bad, ready, acked, buf, hand, answers, done, hits>>
  <2>1. proc \in [Insts -> {"down", "idle", "consuming"}] /\ starts \in 0..MaxStarts
    BY DEF TypeOK
  <2>2. \/ proc' = [proc EXCEPT ![i] = "consuming"]
        \/ proc' = [proc EXCEPT ![i] = "idle"]
    BY DEF Start
  <2>3. /\ proc[i] = "down" /\ starts' \in 0..MaxStarts
        /\ UNCHANGED <<published, bad, ready, acked, buf, hand, answers, done, hits>>
    BY <2>1 DEF Start, broker, consumer
  <2> QED
    BY <2>1, <2>2, <2>3
<1>2. buf[i] = <<>> /\ answers[i] = <<>> /\ hand[i] = 0
  BY <1>1 DEF Shape
<1>3. Elems(buf[i]) = {} /\ Answered(i) = {} /\ InHand(i) = {}
  BY <1>2 DEF Elems, Answered, InHand
<1>4. \A j \in Insts : /\ Elems(buf[j])' = Elems(buf[j]) /\ Answered(j)' = Answered(j)
                       /\ InHand(j)' = InHand(j)
  BY <1>1 DEF Elems, Answered, InHand
<1>5. \A j \in Insts : Unacked(j)' = Unacked(j) /\ Ahead(j)' = Ahead(j)
  <2> TAKE j \in Insts
  <2>1. CASE j = i
    BY <1>1, <1>3, <1>4, <2>1 DEF Unacked, Ahead
  <2>2. CASE j # i
    BY <1>1, <1>4, <2>2 DEF Unacked, Ahead
  <2> QED
    BY <2>1, <2>2
<1>6. TypeOK'
  BY <1>1, <1>4 DEF TypeOK
<1>7. Shape' /\ Known'
  BY <1>1, <1>2, <1>4 DEF Shape, Known
<1>8. OnePlace'
  BY <1>1, <1>2, <1>3, <1>4 DEF OnePlace
<1>9. Kinds' /\ Shared'
  BY <1>1, <1>5 DEF Kinds, Shared
<1>10. Account'
  <2>1. \A m \in Msgs : Detached(m)' = Detached(m) /\ (Pending(m)' <=> Pending(m))
    BY <1>1, <1>2, <1>5 DEF Detached, Pending, Msgs
  <2> QED
    BY <1>1, <2>1 DEF Account
<1> QED
  BY <1>6, <1>7, <1>8, <1>9, <1>10 DEF IInv

(* What ConnectionLost and Crash have in common: unanswered messages are   *)
(* ready again; at most the message in hand gets a detached handler.       *)
LEMMA LossIInv ==
    ASSUME NEW i \in Insts, NEW state \in {"idle", "down"}, IInv,
           proc[i] # "down",
           proc' = [proc EXCEPT ![i] = state],
           Requeue(i),
           buf' = [buf EXCEPT ![i] = <<>>], answers' = [answers EXCEPT ![i] = <<>>],
           \/ state = "idle" /\ proc[i] = "consuming" /\ hand' = hand
           \/ state = "down" /\ hand' = [hand EXCEPT ![i] = 0],
           UNCHANGED <<starts, done>>
    PROVE  IInv'
<1> USE QueueAssumption DEF IInv
<1>1. /\ proc' \in [Insts -> {"down", "idle", "consuming"}] /\ proc'[i] = state
      /\ \A j \in Insts \ {i} : /\ proc'[j] = proc[j] /\ buf'[j] = buf[j]
                                /\ hand'[j] = hand[j] /\ answers'[j] = answers[j]
      /\ buf'[i] = <<>> /\ answers'[i] = <<>>
      /\ hand'[i] = hand[i] \/ hand'[i] = 0
      /\ hand' \in [Insts -> 0..MaxMsgs]
      /\ buf' \in [Insts -> Seq(Msgs)]
      /\ answers' \in [Insts -> Seq([msg : Msgs, ok : BOOLEAN])]
      /\ ready' = ready \cup Unacked(i)
      /\ UNCHANGED <<starts, published, bad, acked, done>>
  <2>1. /\ proc \in [Insts -> {"down", "idle", "consuming"}]
        /\ hand \in [Insts -> 0..MaxMsgs] /\ buf \in [Insts -> Seq(Msgs)]
        /\ answers \in [Insts -> Seq([msg : Msgs, ok : BOOLEAN])]
    BY DEF TypeOK
  <2>2. proc' \in [Insts -> {"down", "idle", "consuming"}] /\ hand' \in [Insts -> 0..MaxMsgs]
    <3>1. proc' \in [Insts -> {"down", "idle", "consuming"}]
      BY <2>1
    <3>2. 0 \in 0..MaxMsgs /\ (hand' = hand \/ hand' = [hand EXCEPT ![i] = 0])
      OBVIOUS
    <3>3. hand' \in [Insts -> 0..MaxMsgs]
      BY <2>1, <3>2
    <3> QED
      BY <3>1, <3>3
  <2>3. /\ buf' \in [Insts -> Seq(Msgs)]
        /\ answers' \in [Insts -> Seq([msg : Msgs, ok : BOOLEAN])]
    <3>1. <<>> \in Seq(Msgs) /\ <<>> \in Seq([msg : Msgs, ok : BOOLEAN])
      OBVIOUS
    <3>2. buf' \in [Insts -> Seq(Msgs)]
      BY <2>1, <3>1
    <3>3. answers' \in [Insts -> Seq([msg : Msgs, ok : BOOLEAN])]
      BY <2>1, <3>1
    <3> QED
      BY <3>2, <3>3
  <2>4. /\ proc'[i] = state /\ buf'[i] = <<>> /\ answers'[i] = <<>>
        /\ hand'[i] = hand[i] \/ hand'[i] = 0
        /\ \A j \in Insts \ {i} : /\ proc'[j] = proc[j] /\ buf'[j] = buf[j]
                                  /\ hand'[j] = hand[j] /\ answers'[j] = answers[j]
    BY <2>1
  <2>5. /\ ready' = ready \cup Unacked(i)
        /\ UNCHANGED <<starts, published, bad, acked, done>>
    BY DEF Requeue
  <2> QED
    BY <2>2, <2>3, <2>4, <2>5
<1>2. \A j \in Insts \ {i} :
        /\ Elems(buf[j])' = Elems(buf[j]) /\ Answered(j)' = Answered(j) /\ InHand(j)' = InHand(j)
        /\ Unacked(j)' = Unacked(j) /\ Ahead(j)' = Ahead(j)
  <2> TAKE j \in Insts \ {i}
  <2>1. Elems(buf[j])' = Elems(buf[j]) /\ Answered(j)' = Answered(j) /\ InHand(j)' = InHand(j)
    BY <1>1 DEF Elems, Answered, InHand
  <2> QED
    BY <1>1, <2>1 DEF Unacked, Ahead
<1>3. /\ Elems(buf[i])' = {} /\ Answered(i)' = {} /\ InHand(i)' \subseteq InHand(i)
      /\ Unacked(i)' = {} /\ Ahead(i)' = {}
  BY <1>1 DEF Elems, Answered, InHand, Unacked, Ahead
<1>4. Unacked(i) \subseteq 1..published /\ Ahead(i) \subseteq Unacked(i)
  BY DEF Known, Unacked, Ahead
<1>5. /\ hits' \in [Msgs -> Nat]
      /\ \A m \in Msgs : hits'[m] = hits[m] + (IF m \in Unacked(i) THEN 1 ELSE 0)
  BY DEF Requeue, TypeOK
<1>6. TypeOK'
  <2>1. \A j \in Insts : Len(buf'[j]) + Cardinality(InHand(j)') + Len(answers'[j]) <= Prefetch
    <3> TAKE j \in Insts
    <3>1. CASE j # i
      BY <1>1, <1>2, <3>1 DEF TypeOK
    <3>2. CASE j = i
      <4>1. Cardinality(InHand(i)') \in {0, 1}
        <5>1. hand'[i] \in Nat
          BY <1>1
        <5> QED
          BY <5>1, HandFacts DEF InHand
      <4> QED
        BY <1>1, <3>2, <4>1
    <3> QED
      BY <3>1, <3>2
  <2>2. ready' \subseteq 1..published'
    BY <1>1, <1>4 DEF TypeOK
  <2> QED
    BY <1>1, <1>5, <2>1, <2>2 DEF TypeOK
<1>7. Shape'
  BY <1>1 DEF Shape, TypeOK
<1>8. Known'
  BY <1>1, <1>2, <1>3 DEF Known
<1>9. OnePlace'
  <2> SUFFICES ASSUME NEW j \in Insts
               PROVE  /\ Injective(buf'[j])
                      /\ \A k, l \in DOMAIN answers'[j] :
                           answers'[j][k].msg = answers'[j][l].msg => k = l
                      /\ proc'[j] = "consuming" =>
                           /\ hand'[j] \notin Elems(buf[j])' /\ hand'[j] \notin Answered(j)'
                           /\ Elems(buf[j])' \cap Answered(j)' = {}
    BY DEF OnePlace
  <2>1. CASE j = i
    BY <1>1, <2>1 DEF Injective
  <2>2. CASE j # i
    BY <1>1, <1>2, <2>2 DEF OnePlace
  <2> QED
    BY <2>1, <2>2
<1>10. Kinds'
  BY <1>1 DEF Kinds, TypeOK
<1>11. Shared'
  <2>1. acked' \cap ready' = {}
    BY <1>1 DEF Shared
  <2>2. \A j \in Insts : Unacked(j)' \cap (acked' \cup ready') = {}
    BY <1>1, <1>2, <1>3 DEF Shared
  <2>3. \A j, k \in Insts : j # k => Unacked(j)' \cap Unacked(k)' = {}
    BY <1>2, <1>3 DEF Shared
  <2>4. \A m \in 1..published' : m \in acked' \/ m \in ready' \/ \E j \in Insts : m \in Unacked(j)'
    BY <1>1, <1>2 DEF Shared
  <2> QED
    BY <2>1, <2>2, <2>3, <2>4 DEF Shared
<1>12. Account'
  <2> SUFFICES ASSUME NEW m \in Msgs, m \notin bad, m <= published
               PROVE  done[m] + (IF Pending(m)' THEN 1 ELSE 0) + Cardinality(Detached(m)')
                             <= 1 + hits'[m]
    <3>1. published \in Nat
      BY DEF TypeOK
    <3> QED
      BY <1>1, <3>1 DEF Account, Msgs
  <2>1. /\ done[m] \in Nat /\ hits[m] \in Nat
        /\ done[m] + (IF Pending(m) THEN 1 ELSE 0) + Cardinality(Detached(m)) <= 1 + hits[m]
    <3>1. done[m] \in Nat /\ hits[m] \in Nat /\ published \in Nat
      BY DEF TypeOK
    <3>2. ~(m > published)
      BY <3>1 DEF Msgs
    <3> QED
      BY <3>1, <3>2 DEF Account
  <2>2. /\ Cardinality(Detached(m)) \in Nat /\ Cardinality(Detached(m)') \in Nat
        /\ IsFiniteSet(Detached(m)) /\ IsFiniteSet(Detached(m)')
    <3>1. Detached(m)' \subseteq Insts
      BY DEF Detached
    <3> QED
      BY <3>1, DetachedFinite, FS_Subset, FS_CardinalityType
  <2>3. Detached(m)' \subseteq Detached(m) \cup {i}
    BY <1>1 DEF Detached
  <2>4. CASE m \in Ahead(i)
    <3>1. Pending(m) /\ hits'[m] = hits[m] + 1
      BY <1>4, <1>5, <2>4 DEF Pending
    <3>2. Cardinality(Detached(m)') <= Cardinality(Detached(m) \cup {i})
      BY <2>2, <2>3, FS_AddElement, FS_Subset
    <3>3. Cardinality(Detached(m) \cup {i}) = IF i \in Detached(m) THEN Cardinality(Detached(m))
                                              ELSE Cardinality(Detached(m)) + 1
      <4>1. IsFiniteSet(Detached(m))
        BY <2>2
      <4> HIDE DEF Detached
      <4> QED
        BY <4>1, FS_AddElement
    <3>4. /\ Cardinality(Detached(m) \cup {i}) \in Nat
          /\ Cardinality(Detached(m) \cup {i}) <= Cardinality(Detached(m)) + 1
      BY <2>2, <3>3
    <3> QED
      BY <2>1, <2>2, <3>1, <3>2, <3>4
  <2>5. CASE m \notin Ahead(i)
    <3>1. Detached(m)' \subseteq Detached(m)
      <4>1. ~(proc[i] = "consuming" /\ hand[i] = m)
        BY <2>5 DEF Ahead, InHand, Msgs
      <4> QED
        BY <1>1, <4>1 DEF Detached, Msgs
    <3>2. Cardinality(Detached(m)') <= Cardinality(Detached(m))
      BY <2>2, <3>1, FS_Subset
    <3>3. CASE m \in Unacked(i)
      BY <1>5, <2>1, <2>2, <3>2, <3>3
    <3>4. CASE m \notin Unacked(i)
      <4>1. Pending(m)' <=> Pending(m)
        BY <1>1, <1>2, <1>3, <2>5, <3>4 DEF Pending
      <4> QED
        BY <1>5, <2>1, <2>2, <3>2, <3>4, <4>1
    <3> QED
      BY <3>3, <3>4
  <2> QED
    BY <2>4, <2>5
<1> QED
  BY <1>6, <1>7, <1>8, <1>9, <1>10, <1>11, <1>12 DEF IInv

LEMMA DeliverIInv == \A i \in Insts, m \in Msgs : IInv /\ Deliver(i, m) => IInv'
<1> SUFFICES ASSUME NEW i \in Insts, NEW m \in Msgs, IInv, Deliver(i, m) PROVE IInv'
  OBVIOUS
<1> USE QueueAssumption DEF IInv
<1>1. /\ proc[i] = "consuming" /\ Credit(i) /\ m \in ready /\ ready' = ready \ {m}
      /\ buf \in [Insts -> Seq(Msgs)]
      /\ buf' = [buf EXCEPT ![i] = Append(buf[i], m)]
      /\ UNCHANGED <<proc, starts, published, bad, acked, hand, answers, done, hits>>
  BY DEF Deliver, TypeOK
<1>2. /\ \A j \in Insts \ {i} : buf'[j] = buf[j]
      /\ buf'[i] = Append(buf[i], m) /\ buf[i] \in Seq(Msgs)
  BY <1>1
<1>3. /\ buf'[i] \in Seq(Msgs) /\ Len(buf'[i]) = Len(buf[i]) + 1
      /\ Elems(buf'[i]) = Elems(buf[i]) \cup {m}
      /\ Injective(buf[i]) /\ m \notin Elems(buf[i]) => Injective(buf'[i])
  BY <1>2, AppendFacts
<1>4. m \in 1..published /\ m \notin Unacked(i) /\ m \notin acked
  BY <1>1 DEF Shared, TypeOK
<1>5. m \notin Elems(buf[i]) /\ m # hand[i] /\ m \notin Answered(i)
  BY <1>1, <1>4 DEF Unacked, InHand, Msgs
<1>6. \A j \in Insts : /\ InHand(j)' = InHand(j) /\ Answered(j)' = Answered(j)
                       /\ Elems(buf[j])' = IF j = i THEN Elems(buf[j]) \cup {m} ELSE Elems(buf[j])
  BY <1>1, <1>2, <1>3 DEF InHand, Answered
<1>7. \A j \in Insts : /\ Unacked(j)' = IF j = i THEN Unacked(j) \cup {m} ELSE Unacked(j)
                       /\ Ahead(j)' = IF j = i THEN Ahead(j) \cup {m} ELSE Ahead(j)
  <2> TAKE j \in Insts
  <2>1. CASE j = i
    BY <1>1, <1>6, <2>1 DEF Unacked, Ahead
  <2>2. CASE j # i
    BY <1>1, <1>6, <2>2 DEF Unacked, Ahead
  <2> QED
    BY <2>1, <2>2
<1>8. TypeOK'
  <2>1. buf' \in [Insts -> Seq(Msgs)]
    BY <1>1, <1>3
  <2>2. \A j \in Insts : Len(buf'[j]) + Cardinality(InHand(j)') + Len(answers'[j]) <= Prefetch
    <3> TAKE j \in Insts
    <3>1. CASE j # i
      BY <1>1, <1>2, <1>6, <3>1 DEF TypeOK
    <3>2. CASE j = i
      <4>1. Len(buf[i]) \in Nat /\ Len(answers[i]) \in Nat
        BY <1>2 DEF TypeOK
      <4>2. Cardinality(InHand(i)) \in Nat
        <5>1. hand[i] \in Nat
          BY DEF TypeOK
        <5> QED
          BY <5>1, HandFacts DEF InHand
      <4>3. Len(buf[i]) + Cardinality(InHand(i)) + Len(answers[i]) < Prefetch
        BY <1>1 DEF Credit
      <4>4. InHand(i)' = InHand(i) /\ answers'[i] = answers[i]
        BY <1>1, <1>6
      <4>5. Cardinality(InHand(i)') = Cardinality(InHand(i)) /\ Len(answers'[i]) = Len(answers[i])
        BY <4>4
      <4>6. Len(buf'[i]) + Cardinality(InHand(i)') + Len(answers'[i]) <= Prefetch
        BY <1>3, <4>1, <4>2, <4>3, <4>5
      <4> QED
        BY <3>2, <4>6
    <3> QED
      BY <3>1, <3>2
  <2> QED
    BY <1>1, <2>1, <2>2 DEF TypeOK
<1>9. Shape'
  BY <1>1, <1>2 DEF Shape
<1>10. Known'
  BY <1>1, <1>4, <1>6 DEF Known
<1>11. OnePlace'
  <2> SUFFICES ASSUME NEW j \in Insts
               PROVE  /\ Injective(buf'[j])
                      /\ \A k, l \in DOMAIN answers[j] :
                           answers[j][k].msg = answers[j][l].msg => k = l
                      /\ proc[j] = "consuming" =>
                           /\ hand[j] \notin Elems(buf[j])' /\ hand[j] \notin Answered(j)
                           /\ Elems(buf[j])' \cap Answered(j) = {}
    BY <1>1, <1>6 DEF OnePlace
  <2>1. CASE j = i
    BY <1>1, <1>3, <1>5, <1>6, <2>1 DEF OnePlace
  <2>2. CASE j # i
    BY <1>1, <1>2, <1>6, <2>2 DEF OnePlace
  <2> QED
    BY <2>1, <2>2
<1>12. Kinds'
  BY <1>1 DEF Kinds
<1>13. Shared'
  <2>1. \A j \in Insts \ {i} : m \notin Unacked(j)
    BY <1>1 DEF Shared
  <2>2. acked' \cap ready' = {}
    BY <1>1 DEF Shared
  <2>3. \A j \in Insts : Unacked(j)' \cap (acked' \cup ready') = {}
    BY <1>1, <1>4, <1>7 DEF Shared
  <2>4. \A j, k \in Insts : j # k => Unacked(j)' \cap Unacked(k)' = {}
    BY <1>7, <2>1 DEF Shared
  <2>5. \A k \in 1..published' : k \in acked' \/ k \in ready' \/ \E j \in Insts : k \in Unacked(j)'
    BY <1>1, <1>7 DEF Shared
  <2> QED
    BY <2>2, <2>3, <2>4, <2>5 DEF Shared
<1>14. Account'
  <2>1. \A k \in Msgs : Detached(k)' = Detached(k)
    BY <1>1 DEF Detached
  <2>2. \A k \in Msgs : Pending(k)' <=> Pending(k)
    BY <1>1, <1>7 DEF Pending
  <2> QED
    BY <1>1, <2>1, <2>2 DEF Account
<1> QED
  BY <1>8, <1>9, <1>10, <1>11, <1>12, <1>13, <1>14 DEF IInv

LEMMA TakeIInv == \A i \in Insts : IInv /\ Take(i) => IInv'
<1> SUFFICES ASSUME NEW i \in Insts, IInv, Take(i) PROVE IInv'
  OBVIOUS
<1> USE QueueAssumption DEF IInv
<1> DEFINE m == Head(buf[i])
<1>1. /\ proc[i] = "consuming" /\ hand[i] = 0 /\ buf[i] # <<>>
      /\ buf \in [Insts -> Seq(Msgs)] /\ hand \in [Insts -> 0..MaxMsgs]
      /\ buf' = [buf EXCEPT ![i] = Tail(buf[i])] /\ hand' = [hand EXCEPT ![i] = m]
      /\ UNCHANGED <<proc, starts, published, bad, ready, acked, answers, done, hits>>
  BY DEF Take, broker, TypeOK
<1>2. /\ \A j \in Insts \ {i} : buf'[j] = buf[j] /\ hand'[j] = hand[j]
      /\ buf'[i] = Tail(buf[i]) /\ hand'[i] = m /\ buf[i] \in Seq(Msgs)
  BY <1>1
<1>3. /\ buf'[i] \in Seq(Msgs) /\ Len(buf'[i]) = Len(buf[i]) - 1 /\ Len(buf[i]) \in Nat /\ m \in Msgs
      /\ Elems(buf[i]) = Elems(buf'[i]) \cup {m}
      /\ Injective(buf'[i]) /\ m \notin Elems(buf'[i])
  BY <1>1, <1>2, TailFacts DEF OnePlace
<1>4. InHand(i) = {} /\ InHand(i)' = {m} /\ m \notin Answered(i)
  <2>1. m \in Elems(buf[i]) /\ m # 0
    BY <1>3 DEF Msgs
  <2> QED
    BY <1>1, <1>2, <2>1 DEF InHand, OnePlace
<1>5. \A j \in Insts : Answered(j)' = Answered(j)
  BY <1>1 DEF Answered
<1>6. \A j \in Insts \ {i} : Elems(buf[j])' = Elems(buf[j]) /\ InHand(j)' = InHand(j)
  BY <1>2 DEF InHand
<1>7. \A j \in Insts : Unacked(j)' = Unacked(j) /\ Ahead(j)' = Ahead(j)
  <2> TAKE j \in Insts
  <2>1. CASE j = i
    BY <1>1, <1>3, <1>4, <1>5, <2>1 DEF Unacked, Ahead
  <2>2. CASE j # i
    BY <1>1, <1>5, <1>6, <2>2 DEF Unacked, Ahead
  <2> QED
    BY <2>1, <2>2
<1>8. TypeOK'
  <2>1. buf' \in [Insts -> Seq(Msgs)] /\ hand' \in [Insts -> 0..MaxMsgs]
    BY <1>1, <1>3 DEF Msgs
  <2>2. \A j \in Insts : Len(buf'[j]) + Cardinality(InHand(j)') + Len(answers'[j]) <= Prefetch
    <3> TAKE j \in Insts
    <3>1. CASE j # i
      BY <1>1, <1>2, <1>6, <3>1 DEF TypeOK
    <3>2. CASE j = i
      <4>1. Cardinality(InHand(i)) = 0 /\ Cardinality(InHand(i)') = 1
        BY <1>4, FS_EmptySet, FS_Singleton
      <4>2. Len(buf[i]) + Cardinality(InHand(i)) + Len(answers[i]) <= Prefetch /\ Len(answers[i]) \in Nat
        BY DEF TypeOK
      <4> QED
        BY <1>1, <1>3, <3>2, <4>1, <4>2
    <3> QED
      BY <3>1, <3>2
  <2> QED
    BY <1>1, <2>1, <2>2 DEF TypeOK
<1>9. Shape'
  BY <1>1, <1>2 DEF Shape
<1>10. Known'
  BY <1>1, <1>3, <1>4, <1>5, <1>6 DEF Known
<1>11. OnePlace'
  BY <1>1, <1>2, <1>3, <1>4, <1>5, <1>6 DEF OnePlace
<1>12. Kinds' /\ Shared'
  BY <1>1, <1>7 DEF Kinds, Shared
<1>13. Account'
  <2>1. \A k \in Msgs : Detached(k)' = Detached(k)
    BY <1>1, <1>2 DEF Detached
  <2>2. \A k \in Msgs : Pending(k)' <=> Pending(k)
    BY <1>1, <1>7 DEF Pending
  <2> QED
    BY <1>1, <2>1, <2>2 DEF Account
<1> QED
  BY <1>8, <1>9, <1>10, <1>11, <1>12, <1>13 DEF IInv

(* A handler's end, with the outcome it reports. *)
LEMMA AnswerIInv ==
    ASSUME NEW i \in Insts, NEW ok \in BOOLEAN, IInv,
           NEW m \in Msgs, hand[i] = m, ok <=> m \notin bad,
           done' = IF ok THEN [done EXCEPT ![m] = @ + 1] ELSE done,
           Answer(i, ok)
    PROVE  IInv'
<1> USE QueueAssumption DEF IInv
<1>1. /\ hand \in [Insts -> 0..MaxMsgs] /\ answers \in [Insts -> Seq([msg : Msgs, ok : BOOLEAN])]
      /\ m \in Msgs /\ m \in 1..published /\ published \in Nat
      /\ hand' = [hand EXCEPT ![i] = 0] /\ hand' \in [Insts -> 0..MaxMsgs]
      /\ UNCHANGED <<proc, starts, published, bad, ready, acked, buf, hits>>
  <2>1. /\ hand \in [Insts -> 0..MaxMsgs] /\ published \in Nat /\ published <= MaxMsgs
        /\ answers \in [Insts -> Seq([msg : Msgs, ok : BOOLEAN])]
    BY TypeFacts
  <2>2. m \in 1..published /\ m \in Msgs
    BY <2>1 DEF Known, InHand, Msgs
  <2>3. /\ hand' = [hand EXCEPT ![i] = 0]
        /\ UNCHANGED <<proc, starts, published, bad, ready, acked, buf, hits>>
    BY DEF Answer, broker
  <2>4. hand' \in [Insts -> 0..MaxMsgs]
    BY <2>1, <2>3
  <2> QED
    BY <2>1, <2>2, <2>3, <2>4
<1>2. /\ done' \in [Msgs -> Nat] /\ \A k \in Msgs : done'[k] >= done[k]
      /\ ok => done'[m] = done[m] + 1
      /\ \A k \in Msgs : k # m => done'[k] = done[k]
      /\ ~ok => done' = done
      /\ done[m] \in Nat
  BY <1>1 DEF TypeOK
<1>3. /\ \A j \in Insts \ {i} : /\ hand'[j] = hand[j] /\ answers'[j] = answers[j]
                                /\ InHand(j)' = InHand(j) /\ Answered(j)' = Answered(j)
      /\ InHand(i)' = {} /\ InHand(i) = {m} /\ hand'[i] = 0
      /\ \A j \in Insts : Elems(buf[j])' = Elems(buf[j])
  <2>1. \A j \in Insts \ {i} : hand'[j] = hand[j] /\ answers'[j] = answers[j]
    BY <1>1 DEF Answer
  <2>2. hand'[i] = 0
    BY <1>1
  <2> QED
    BY <1>1, <2>1, <2>2 DEF InHand, Answered
<1>4. \A j \in Insts \ {i} : Unacked(j)' = Unacked(j) /\ Ahead(j)' = Ahead(j)
  BY <1>1, <1>3 DEF Unacked, Ahead
<1>5. CASE proc[i] = "consuming"
  <2> DEFINE e == [msg |-> m, ok |-> ok]
  <2>1. /\ answers'[i] = Append(answers[i], e) /\ e \in [msg : Msgs, ok : BOOLEAN]
        /\ answers[i] \in Seq([msg : Msgs, ok : BOOLEAN])
    BY <1>1, <1>5 DEF Answer
  <2>2. /\ answers'[i] \in Seq([msg : Msgs, ok : BOOLEAN])
        /\ Len(answers'[i]) = Len(answers[i]) + 1 /\ Len(answers[i]) \in Nat
        /\ DOMAIN answers[i] = 1..Len(answers[i]) /\ DOMAIN answers'[i] = 1..(Len(answers[i]) + 1)
        /\ \A k \in DOMAIN answers[i] : k \in DOMAIN answers'[i] /\ answers'[i][k] = answers[i][k]
        /\ answers'[i][Len(answers[i]) + 1] = e
    BY <2>1
  <2>3. \A k \in DOMAIN answers'[i] :
          \/ k \in DOMAIN answers[i] /\ answers'[i][k] = answers[i][k]
          \/ k = Len(answers[i]) + 1 /\ answers'[i][k] = e
    BY <2>2
  <2>4. Answered(i)' = Answered(i) \cup {m}
    <3>1. \A x \in Answered(i)' : x \in Answered(i) \cup {m}
      BY <2>3 DEF Answered
    <3>2. \A x \in Answered(i) : x \in Answered(i)'
      BY <2>2 DEF Answered
    <3>3. m \in Answered(i)'
      BY <2>2 DEF Answered
    <3> QED
      BY <3>1, <3>2, <3>3
  <2>5. m \notin Elems(buf[i]) /\ m \notin Answered(i) /\ m \notin ready /\ m \notin acked
        /\ \A j \in Insts \ {i} : m \notin Unacked(j)
    BY <1>3, <1>5 DEF OnePlace, Shared, Unacked
  <2>6. Unacked(i)' = Unacked(i) /\ Ahead(i)' = Ahead(i) \ {m} /\ m \in Ahead(i)
    BY <1>1, <1>3, <1>5, <2>4, <2>5 DEF Unacked, Ahead
  <2>7. TypeOK'
    <3>1. answers' \in [Insts -> Seq([msg : Msgs, ok : BOOLEAN])]
      BY <1>1, <1>5, <2>1, <2>2 DEF Answer
    <3>2. \A j \in Insts : Len(buf'[j]) + Cardinality(InHand(j)') + Len(answers'[j]) <= Prefetch
      <4> TAKE j \in Insts
      <4>1. CASE j # i
        BY <1>1, <1>3, <4>1 DEF TypeOK
      <4>2. CASE j = i
        <5>1. Cardinality(InHand(i)) = 1 /\ Cardinality(InHand(i)') = 0
          BY <1>3, FS_EmptySet, FS_Singleton
        <5>2. Len(buf[i]) + Cardinality(InHand(i)) + Len(answers[i]) <= Prefetch /\ Len(buf[i]) \in Nat
          BY DEF TypeOK
        <5>3. Len(buf'[i]) = Len(buf[i])
          BY <1>1
        <5>4. Len(buf'[i]) + Cardinality(InHand(i)') + Len(answers'[i]) <= Prefetch
          <6>1. Len(answers'[i]) = Len(answers[i]) + 1 /\ Len(answers[i]) \in Nat
            BY <2>2
          <6>2. Len(buf[i]) + 1 + Len(answers[i]) <= Prefetch
            BY <5>1, <5>2
          <6>3. \A a, b, p \in Nat : a + 1 + b <= p => a + 0 + (b + 1) <= p
            OBVIOUS
          <6>4. Len(buf[i]) + 0 + (Len(answers[i]) + 1) <= Prefetch
            BY <5>2, <6>1, <6>2, <6>3, QueueAssumption
          <6> QED
            BY <5>1, <5>3, <6>1, <6>4
        <5> QED
          BY <4>2, <5>4
      <4> QED
        BY <4>1, <4>2
    <3> QED
      BY <1>1, <1>2, <3>1, <3>2 DEF TypeOK
  <2>8. Shape'
    BY <1>1, <1>3, <1>5 DEF Shape
  <2>9. Known'
    BY <1>1, <1>3, <2>4 DEF Known
  <2>10. OnePlace'
    <3> SUFFICES ASSUME NEW j \in Insts
                 PROVE  /\ Injective(buf[j])
                        /\ \A k, l \in DOMAIN answers'[j] :
                             answers'[j][k].msg = answers'[j][l].msg => k = l
                        /\ proc[j] = "consuming" =>
                             /\ hand'[j] \notin Elems(buf[j]) /\ hand'[j] \notin Answered(j)'
                             /\ Elems(buf[j]) \cap Answered(j)' = {}
      BY <1>1, <1>3 DEF OnePlace
    <3>1. CASE j = i
      <4>1. \A k \in DOMAIN answers[i] : answers[i][k].msg # m
        BY <2>5 DEF Answered
      <4>2. \A k, l \in DOMAIN answers'[i] : answers'[i][k].msg = answers'[i][l].msg => k = l
        <5> SUFFICES ASSUME NEW k \in DOMAIN answers'[i], NEW l \in DOMAIN answers'[i],
                            answers'[i][k].msg = answers'[i][l].msg
                     PROVE  k = l
          OBVIOUS
        <5> QED
          BY <2>3, <4>1 DEF OnePlace
      <4>3. 0 \notin Elems(buf[i]) /\ 0 \notin Answered(i)'
        <5>1. 0 \notin 1..published
          OBVIOUS
        <5> QED
          BY <1>1, <2>4, <5>1 DEF Known
      <4> QED
        BY <1>3, <1>5, <2>4, <2>5, <3>1, <4>2, <4>3 DEF OnePlace
    <3>2. CASE j # i
      BY <1>1, <1>3, <3>2 DEF OnePlace
    <3> QED
      BY <3>1, <3>2
  <2>11. Kinds'
    <3>1. \A j \in Insts : \A k \in DOMAIN answers[j] : answers[j][k].msg \in Msgs
      BY TypeFacts
    <3>2. \A k \in acked : k \notin bad /\ done'[k] > 0
      BY <1>1, <1>2 DEF Kinds, TypeOK, Msgs
    <3>3. ASSUME NEW j \in Insts, NEW k \in DOMAIN answers'[j]
          PROVE  LET a == answers'[j][k] IN (a.ok <=> a.msg \notin bad) /\ (a.ok => done'[a.msg] > 0)
      <4>1. CASE k \in DOMAIN answers[j] /\ answers'[j][k] = answers[j][k]
        <5>1. answers[j][k].msg \in Msgs
          BY <3>1, <4>1
        <5>2. done'[answers[j][k].msg] >= done[answers[j][k].msg]
              /\ done'[answers[j][k].msg] \in Nat /\ done[answers[j][k].msg] \in Nat
          BY <1>2, <5>1 DEF TypeOK
        <5> QED
          BY <4>1, <5>2 DEF Kinds
      <4>2. CASE j = i /\ answers'[j][k] = e
        BY <1>2, <4>2
      <4> QED
        BY <1>3, <2>3, <4>1, <4>2
    <3> QED
      BY <1>1, <3>2, <3>3 DEF Kinds
  <2>12. Shared'
    <3>1. \A j \in Insts : Unacked(j)' = Unacked(j)
      BY <1>4, <2>6
    <3> QED
      BY <1>1, <3>1 DEF Shared
  <2>13. Account'
    <3>1. \A k \in Msgs : Detached(k)' = Detached(k)
      BY <1>1, <1>3, <1>5 DEF Detached
    <3>2. \A k \in Msgs : k # m => (Pending(k)' <=> Pending(k))
      BY <1>1, <1>4, <2>6 DEF Pending
    <3>3. Pending(m) /\ ~Pending(m)'
      <4>1. \A j \in Insts \ {i} : m \notin Ahead(j)'
        BY <1>4, <2>5 DEF Ahead, Unacked
      <4>2. m \notin Ahead(i)' /\ m \notin ready'
        BY <1>1, <2>5, <2>6
      <4> QED
        BY <2>6, <4>1, <4>2 DEF Pending
    <3> SUFFICES ASSUME NEW k \in Msgs
                 PROVE  IF k \in bad \/ k > published THEN done'[k] = 0
                        ELSE done'[k] + (IF Pending(k)' THEN 1 ELSE 0) + Cardinality(Detached(k))
                               <= 1 + hits[k]
      BY <1>1, <3>1 DEF Account
    <3>4. CASE k # m
      BY <1>2, <3>2, <3>4 DEF Account
    <3>5. CASE k = m /\ ok
      <4>1. m \notin bad /\ ~(m > published)
        BY <1>1, <3>5
      <4>2. done[m] + 1 + Cardinality(Detached(m)) <= 1 + hits[m]
        BY <1>1, <3>3, <4>1 DEF Account
      <4>3. Cardinality(Detached(m)) \in Nat /\ hits[m] \in Nat
        BY <1>1, DetachedFinite DEF TypeOK
      <4>4. done'[m] = done[m] + 1 /\ done[m] \in Nat
        BY <1>2, <3>5
      <4> QED
        BY <3>3, <3>5, <4>1, <4>2, <4>3, <4>4
    <3>6. CASE k = m /\ ~ok
      BY <1>1, <1>2, <3>6 DEF Account
    <3> QED
      BY <3>4, <3>5, <3>6
  <2> QED
    BY <2>7, <2>8, <2>9, <2>10, <2>11, <2>12, <2>13 DEF IInv
<1>6. CASE proc[i] # "consuming"
  <2>1. answers' = answers /\ proc[i] = "idle"
    BY <1>1, <1>6 DEF Answer, Shape, TypeOK
  <2>2. \A j \in Insts : Answered(j)' = Answered(j) /\ Unacked(j)' = Unacked(j) /\ Ahead(j)' = Ahead(j)
    BY <1>1, <1>4, <1>6, <2>1 DEF Answered, Unacked, Ahead
  <2>3. TypeOK'
    <3>1. \A j \in Insts : Len(buf'[j]) + Cardinality(InHand(j)') + Len(answers'[j]) <= Prefetch
      <4> TAKE j \in Insts
      <4>1. CASE j # i
        BY <1>1, <1>3, <4>1 DEF TypeOK
      <4>2. CASE j = i
        <5>1. Cardinality(InHand(i)') = 0 /\ Len(buf[i]) = 0 /\ Len(answers[i]) = 0
          BY <1>3, <1>6, FS_EmptySet DEF Shape
        <5> QED
          BY <1>1, <2>1, <4>2, <5>1
      <4> QED
        BY <4>1, <4>2
    <3> QED
      BY <1>1, <1>2, <2>1, <3>1 DEF TypeOK
  <2>4. Shape'
    BY <1>1, <1>3, <2>1 DEF Shape
  <2>5. Known'
    BY <1>1, <1>3, <2>2 DEF Known
  <2>6. OnePlace'
    BY <1>1, <1>3, <1>6, <2>1, <2>2 DEF OnePlace
  <2>7. Kinds'
    <3>1. \A j \in Insts : \A k \in DOMAIN answers[j] :
            LET x == answers[j][k].msg IN done'[x] >= done[x] /\ done'[x] \in Nat /\ done[x] \in Nat
      BY <1>2, TypeFacts
    <3>2. \A k \in acked : k \notin bad /\ done'[k] > 0
      BY <1>1, <1>2 DEF Kinds, TypeOK, Msgs
    <3> QED
      BY <1>1, <2>1, <3>1, <3>2 DEF Kinds
  <2>8. Shared'
    BY <1>1, <2>2 DEF Shared
  <2>9. Account'
    <3>1. \A k \in Msgs : Pending(k)' <=> Pending(k)
      BY <1>1, <2>2 DEF Pending
    <3>2. \A k \in Msgs : k # m => Detached(k)' = Detached(k)
      BY <1>1, <1>3 DEF Detached, Msgs
    <3>3. Detached(m)' = Detached(m) \ {i} /\ i \in Detached(m)
      <4>1. i \in Detached(m)
        BY <2>1 DEF Detached
      <4>2. ASSUME NEW j \in Insts
            PROVE  proc'[j] = "idle" /\ hand'[j] = m <=> j # i /\ proc[j] = "idle" /\ hand[j] = m
        <5>1. m # 0
          BY <1>1 DEF Msgs
        <5>2. CASE j = i
          BY <1>3, <5>1, <5>2
        <5>3. CASE j # i
          BY <1>1, <1>3, <5>3
        <5> QED
          BY <5>2, <5>3
      <4> QED
        BY <4>1, <4>2 DEF Detached
    <3>4. /\ Cardinality(Detached(m)') = Cardinality(Detached(m)) - 1
          /\ Cardinality(Detached(m)) \in Nat
      <4>1. IsFiniteSet(Detached(m)) /\ Cardinality(Detached(m)) \in Nat
        BY DetachedFinite
      <4> QED
        BY <3>3, <4>1, FS_RemoveElement
    <3> SUFFICES ASSUME NEW k \in Msgs
                 PROVE  IF k \in bad \/ k > published THEN done'[k] = 0
                        ELSE done'[k] + (IF Pending(k) THEN 1 ELSE 0) + Cardinality(Detached(k)')
                               <= 1 + hits[k]
      BY <1>1, <3>1 DEF Account
    <3>5. CASE k # m
      BY <1>2, <3>2, <3>5 DEF Account
    <3>6. CASE k = m /\ ok
      <4>1. m \notin bad /\ ~(m > published) /\ hits[m] \in Nat
        BY <1>1, <3>6 DEF TypeOK
      <4>2. done[m] + (IF Pending(m) THEN 1 ELSE 0) + Cardinality(Detached(m)) <= 1 + hits[m]
        BY <1>1, <4>1 DEF Account
      <4>3. done'[m] = done[m] + 1 /\ done[m] \in Nat
        BY <1>2, <3>6
      <4> QED
        BY <3>4, <3>6, <4>1, <4>2, <4>3
    <3>7. CASE k = m /\ ~ok
      BY <1>1, <1>2, <3>7 DEF Account
    <3> QED
      BY <3>5, <3>6, <3>7
  <2> QED
    BY <2>3, <2>4, <2>5, <2>6, <2>7, <2>8, <2>9 DEF IInv
<1> QED
  BY <1>5, <1>6

LEMMA HandleIInv == \A i \in Insts : IInv /\ (Handle(i) \/ Reject(i)) => IInv'
<1> SUFFICES ASSUME NEW i \in Insts, IInv, Handle(i) \/ Reject(i) PROVE IInv'
  OBVIOUS
<1>1. hand[i] \in Msgs
  <2>1. hand[i] \in 0..MaxMsgs /\ bad \subseteq 1..published /\ published \in Nat /\ published <= MaxMsgs
    BY TypeFacts DEF IInv, TypeOK
  <2>2. CASE Handle(i)
    BY <2>1, <2>2 DEF Handle, Msgs
  <2>3. CASE Reject(i)
    BY <2>1, <2>3 DEF Reject, Msgs
  <2> QED
    BY <2>2, <2>3
<1>2. PICK m \in Msgs : m = hand[i]
  BY <1>1
<1>3. CASE Handle(i)
  <2>1. m \notin bad /\ done' = [done EXCEPT ![m] = @ + 1] /\ Answer(i, TRUE)
    BY <1>2, <1>3 DEF Handle
  <2> QED
    BY <1>2, <2>1, AnswerIInv
<1>4. CASE Reject(i)
  <2>1. m \in bad /\ done' = done /\ Answer(i, FALSE)
    BY <1>2, <1>4 DEF Reject
  <2> QED
    BY <1>2, <2>1, AnswerIInv
<1> QED
  BY <1>3, <1>4

LEMMA AnswerArrivesIInv == \A i \in Insts : IInv /\ AnswerArrives(i) => IInv'
<1> SUFFICES ASSUME NEW i \in Insts, IInv, AnswerArrives(i) PROVE IInv'
  OBVIOUS
<1> USE QueueAssumption DEF IInv
<1> DEFINE R == [msg : Msgs, ok : BOOLEAN]
<1>1. /\ answers[i] \in Seq(R) /\ answers[i] # <<>> /\ answers \in [Insts -> Seq(R)]
      /\ answers' = [answers EXCEPT ![i] = Tail(answers[i])]
      /\ UNCHANGED <<proc, starts, published, bad, buf, hand, done, hits>>
  BY TypeFacts DEF AnswerArrives
<1>2. /\ \A j \in Insts \ {i} : answers'[j] = answers[j]
      /\ answers'[i] = Tail(answers[i])
  BY <1>1
<1>3. /\ Tail(answers[i]) \in Seq(R) /\ Len(Tail(answers[i])) = Len(answers[i]) - 1
      /\ Len(answers[i]) \in Nat \ {0} /\ 1 \in DOMAIN answers[i]
      /\ Head(answers[i]) = answers[i][1]
      /\ \A k \in DOMAIN Tail(answers[i]) : /\ k + 1 \in DOMAIN answers[i] /\ k + 1 # 1
                                            /\ Tail(answers[i])[k] = answers[i][k + 1]
      /\ \A k \in DOMAIN answers[i] : k = 1 \/ (/\ k - 1 \in DOMAIN Tail(answers[i])
                                                /\ answers[i][k] = Tail(answers[i])[k - 1])
  <2> HIDE DEF R
  <2> QED
    BY <1>1, TailFacts
<1>4. \A k \in DOMAIN Tail(answers[i]) : k \in Int
  BY <1>3
<1>5. PICK m \in Msgs : m = answers[i][1].msg
  BY <1>3, TypeFacts
<1>6. /\ answers[i][1].ok => /\ m \notin bad /\ done[m] > 0
                             /\ acked' = acked \cup {m} /\ ready' = ready
      /\ ~answers[i][1].ok => m \in bad /\ ready' = ready \cup {m} /\ acked' = acked
  BY <1>3, <1>5 DEF AnswerArrives, Kinds
<1>7. m \in Answered(i) /\ m \in 1..published /\ proc[i] = "consuming"
  <2>1. m \in Answered(i)
    BY <1>3, <1>5 DEF Answered
  <2> QED
    BY <1>1, <2>1 DEF Known, Shape
<1>8. Answered(i)' = Answered(i) \ {m}
  <2>1. \A x \in Answered(i)' : x \in Answered(i) \ {m}
    <3> SUFFICES ASSUME NEW k \in DOMAIN answers'[i] PROVE answers'[i][k].msg \in Answered(i) \ {m}
      BY DEF Answered
    <3>1. answers'[i][k] = answers[i][k + 1] /\ k + 1 \in DOMAIN answers[i] /\ k + 1 # 1
      BY <1>2, <1>3
    <3>2. answers[i][k + 1].msg # answers[i][1].msg
      BY <1>3, <3>1 DEF OnePlace
    <3> QED
      BY <1>5, <3>1, <3>2 DEF Answered
  <2>2. \A x \in Answered(i) \ {m} : x \in Answered(i)'
    <3> SUFFICES ASSUME NEW k \in DOMAIN answers[i], answers[i][k].msg # m
                 PROVE  answers[i][k].msg \in Answered(i)'
      BY DEF Answered
    <3>1. k - 1 \in DOMAIN answers'[i] /\ answers[i][k] = answers'[i][k - 1]
      BY <1>2, <1>3, <1>5
    <3> QED
      BY <3>1 DEF Answered
  <2> QED
    BY <2>1, <2>2
<1>9. m \notin Elems(buf[i]) /\ m # hand[i] /\ m \notin ready /\ m \notin acked
      /\ m \in Unacked(i) /\ \A j \in Insts \ {i} : m \notin Unacked(j)
  BY <1>7 DEF OnePlace, Shared, Unacked
<1>10. \A j \in Insts : /\ InHand(j)' = InHand(j) /\ Elems(buf[j])' = Elems(buf[j])
                        /\ Ahead(j)' = Ahead(j)
                        /\ Answered(j)' = IF j = i THEN Answered(j) \ {m} ELSE Answered(j)
                        /\ Unacked(j)' = IF j = i THEN Unacked(j) \ {m} ELSE Unacked(j)
  <2> TAKE j \in Insts
  <2>1. InHand(j)' = InHand(j) /\ Elems(buf[j])' = Elems(buf[j]) /\ proc'[j] = proc[j]
    BY <1>1 DEF InHand
  <2>2. Ahead(j)' = Ahead(j)
    BY <2>1 DEF Ahead
  <2>3. CASE j = i
    BY <1>7, <1>8, <1>9, <2>1, <2>2, <2>3 DEF Unacked, InHand
  <2>4. CASE j # i
    <3>1. Answered(j)' = Answered(j)
      BY <1>2, <2>4 DEF Answered
    <3> QED
      BY <2>1, <2>2, <2>4, <3>1 DEF Unacked
  <2> QED
    BY <2>3, <2>4
<1>11. TypeOK'
  <2>1. answers' \in [Insts -> Seq(R)]
    BY <1>1, <1>3
  <2>2. \A j \in Insts : Len(buf'[j]) + Cardinality(InHand(j)') + Len(answers'[j]) <= Prefetch
    <3> TAKE j \in Insts
    <3>1. Cardinality(InHand(j)') = Cardinality(InHand(j)) /\ Len(buf'[j]) = Len(buf[j])
      BY <1>1, <1>10
    <3>2. Len(answers'[j]) <= Len(answers[j]) /\ Len(answers'[j]) \in Nat /\ Len(answers[j]) \in Nat
      <4>1. CASE j = i
        <5>1. /\ Len(answers'[i]) <= Len(answers[i])
              /\ Len(answers'[i]) \in Nat /\ Len(answers[i]) \in Nat
          BY <1>2, <1>3, <1>4
        <5> QED
          BY <4>1, <5>1
      <4>2. CASE j # i
        BY <1>2, <4>2, TypeFacts
      <4> QED
        BY <4>1, <4>2
    <3>3. /\ Len(buf[j]) + Cardinality(InHand(j)) + Len(answers[j]) <= Prefetch
          /\ Len(buf[j]) \in Nat
      BY TypeFacts DEF TypeOK
    <3>4. Cardinality(InHand(j)) \in Nat
      <4>1. hand[j] \in Nat
        BY TypeFacts
      <4> QED
        BY <4>1, HandFacts DEF InHand
    <3> QED
      BY <3>1, <3>2, <3>3, <3>4
  <2>3. ready' \subseteq 1..published' /\ acked' \subseteq 1..published'
    BY <1>1, <1>6, <1>7 DEF TypeOK
  <2> QED
    BY <1>1, <2>1, <2>2, <2>3 DEF TypeOK
<1>12. Shape'
  BY <1>1, <1>2, <1>7 DEF Shape
<1>13. Known'
  BY <1>1, <1>10 DEF Known
<1>14. OnePlace'
  <2> SUFFICES ASSUME NEW j \in Insts
               PROVE  /\ Injective(buf[j])
                      /\ \A k, l \in DOMAIN answers'[j] :
                           answers'[j][k].msg = answers'[j][l].msg => k = l
                      /\ proc[j] = "consuming" =>
                           /\ hand[j] \notin Elems(buf[j]) /\ hand[j] \notin Answered(j)'
                           /\ Elems(buf[j]) \cap Answered(j)' = {}
    BY <1>1 DEF OnePlace
  <2>1. CASE j = i
    <3>1. ASSUME NEW k \in DOMAIN answers'[i], NEW l \in DOMAIN answers'[i],
                 answers'[i][k].msg = answers'[i][l].msg
          PROVE  k = l
      <4>1. /\ answers'[i][k] = answers[i][k + 1] /\ k + 1 \in DOMAIN answers[i]
            /\ answers'[i][l] = answers[i][l + 1] /\ l + 1 \in DOMAIN answers[i]
            /\ k \in Int /\ l \in Int
        BY <1>2, <1>3, <1>4
      <4>2. k + 1 = l + 1
        BY <3>1, <4>1 DEF OnePlace
      <4> QED
        BY <4>1, <4>2
    <3> QED
      BY <1>10, <2>1, <3>1 DEF OnePlace
  <2>2. CASE j # i
    BY <1>2, <1>10, <2>2 DEF OnePlace
  <2> QED
    BY <2>1, <2>2
<1>15. Kinds'
  <2>1. ASSUME NEW j \in Insts, NEW k \in DOMAIN answers'[j]
        PROVE  LET a == answers'[j][k] IN (a.ok <=> a.msg \notin bad) /\ (a.ok => done[a.msg] > 0)
    <3>1. CASE j = i
      <4>1. answers'[i][k] = answers[i][k + 1] /\ k + 1 \in DOMAIN answers[i]
        BY <1>2, <1>3, <3>1
      <4> QED
        BY <3>1, <4>1 DEF Kinds
    <3>2. CASE j # i
      BY <1>2, <3>2 DEF Kinds
    <3> QED
      BY <3>1, <3>2
  <2>2. \A k \in acked' : k \notin bad /\ done[k] > 0
    BY <1>6 DEF Kinds
  <2> QED
    BY <1>1, <2>1, <2>2 DEF Kinds
<1>16. Shared'
  <2>1. acked' \cap ready' = {}
    BY <1>6, <1>9 DEF Shared
  <2>2. acked' \cup ready' = acked \cup ready \cup {m}
    BY <1>6
  <2>3. \A j \in Insts : Unacked(j)' \cap (acked' \cup ready') = {}
    BY <1>9, <1>10, <2>2 DEF Shared
  <2>4. \A j, k \in Insts : j # k => Unacked(j)' \cap Unacked(k)' = {}
    BY <1>10 DEF Shared
  <2>5. \A k \in 1..published' : k \in acked' \cup ready' \/ \E j \in Insts : k \in Unacked(j)'
    BY <1>1, <1>10, <2>2 DEF Shared
  <2> QED
    BY <2>1, <2>3, <2>4, <2>5 DEF Shared
<1>17. Account'
  <2>1. \A k \in Msgs : Detached(k)' = Detached(k)
    BY <1>1 DEF Detached
  <2>2. \A k \in Msgs : k \notin bad => (Pending(k)' <=> Pending(k))
    BY <1>6, <1>10 DEF Pending
  <2> QED
    BY <1>1, <2>1, <2>2 DEF Account
<1> QED
  BY <1>11, <1>12, <1>13, <1>14, <1>15, <1>16, <1>17 DEF IInv

-----------------------------------------------------------------------------
LEMMA NextIInv == IInv /\ [Next]_vars => IInv'
<1> SUFFICES ASSUME IInv, [Next]_vars PROVE IInv'
  OBVIOUS
<1>1. CASE Publish
  BY <1>1, PublishIInv
<1>2. ASSUME NEW i \in Insts, ConnectionLost(i) PROVE IInv'
  BY <1>2, LossIInv DEF ConnectionLost
<1>3. ASSUME NEW i \in Insts, Crash(i) PROVE IInv'
  BY <1>3, LossIInv DEF Crash
<1>4. CASE UNCHANGED vars
  <2>1. UNCHANGED <<proc, starts, published, bad, ready, acked, buf, hand, answers, done, hits>>
    BY <1>4 DEF vars, broker, consumer
  <2>2. \A i \in Insts : /\ InHand(i)' = InHand(i) /\ Answered(i)' = Answered(i)
                         /\ Elems(buf[i])' = Elems(buf[i])
    BY <2>1 DEF InHand, Answered
  <2>3. \A i \in Insts : Unacked(i)' = Unacked(i) /\ Ahead(i)' = Ahead(i)
    BY <2>1, <2>2 DEF Unacked, Ahead
  <2>4. \A m \in Msgs : Detached(m)' = Detached(m) /\ (Pending(m)' <=> Pending(m))
    BY <2>1, <2>3 DEF Detached, Pending
  <2>5. TypeOK'
    BY <2>1, <2>2 DEF IInv, TypeOK
  <2>6. Shape'
    BY <2>1 DEF IInv, Shape
  <2>7. Known'
    BY <2>1, <2>2, <2>3 DEF IInv, Known
  <2>8. OnePlace'
    BY <2>1, <2>2, <2>3 DEF IInv, OnePlace
  <2>9. Kinds'
    BY <2>1 DEF IInv, Kinds
  <2>10. Shared'
    BY <2>1, <2>3 DEF IInv, Shared
  <2>11. Account'
    BY <2>1, <2>4 DEF IInv, Account
  <2> QED
    BY <2>5, <2>6, <2>7, <2>8, <2>9, <2>10, <2>11 DEF IInv
<1> QED
  BY <1>1, <1>2, <1>3, <1>4, StartIInv, DeliverIInv, TakeIInv, HandleIInv, AnswerArrivesIInv
     DEF Next

THEOREM Invariant == Spec => []IInv
BY InitIInv, NextIInv, PTL DEF Spec

(* No consumer holds more than it prefetches, and everything has its type. *)
THEOREM TypeCorrect == Spec => []TypeOK
<1>1. IInv => TypeOK
  BY DEF IInv
<1> QED
  BY <1>1, Invariant, PTL

(* Whatever is lost and restarted, a message is acked, ready or unanswered *)
(* on one live connection, and acked only after its handler has finished.  *)
THEOREM NothingLost == Spec => []Accounted
<1>1. IInv => Accounted
  <2> SUFFICES ASSUME IInv PROVE Accounted
    OBVIOUS
  <2>1. \A m \in acked : m \notin bad /\ done[m] > 0
    BY DEF IInv, Kinds
  <2>2. ASSUME NEW m \in 1..published
        PROVE  \/ m \in acked /\ m \notin ready /\ \A i \in Insts : m \notin Unacked(i)
               \/ m \notin acked /\ m \in ready /\ \A i \in Insts : m \notin Unacked(i)
               \/ /\ m \notin acked /\ m \notin ready
                  /\ \E i \in Insts : /\ m \in Unacked(i)
                                      /\ \A j \in Insts \ {i} : m \notin Unacked(j)
    BY DEF IInv, Shared
  <2> QED
    BY <2>1, <2>2 DEF Accounted
<1> QED
  BY <1>1, Invariant, PTL

(* A message is handled once, and once more at most for each connection or *)
(* process lost while it was unanswered.                                   *)
THEOREM RepetitionsAreLosses == Spec => []HandledAgainOnlyIfLost
<1>1. IInv => HandledAgainOnlyIfLost
  <2> SUFFICES ASSUME IInv, NEW m \in Msgs PROVE done[m] <= 1 + hits[m]
    BY DEF HandledAgainOnlyIfLost
  <2>1. done[m] \in Nat /\ hits[m] \in Nat
    BY TypeFacts DEF IInv
  <2>2. Cardinality(Detached(m)) \in Nat
    BY DetachedFinite
  <2> QED
    BY <2>1, <2>2 DEF IInv, Account
<1> QED
  BY <1>1, Invariant, PTL
=============================================================================
