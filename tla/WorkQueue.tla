----------------------------- MODULE WorkQueue -----------------------------
(***************************************************************************)
(* A RabbitMQ queue and its consumers (server/internal/queue): every       *)
(* server process registers one consumer per queue, whose goroutine takes  *)
(* the deliveries in order, decodes and handles them, and answers each     *)
(* with an ack or, when it does not decode, a nack that requeues it.  The  *)
(* four queues are alike and share only the connection.                    *)
(*                                                                         *)
(* The broker is external: it keeps what it received in order, delivers at *)
(* most Prefetch unanswered messages to a consumer, and puts back in their *)
(* places the unanswered ones of a connection that is lost.  Messages are  *)
(* numbered as the broker received them.                                   *)
(***************************************************************************)
EXTENDS Naturals, Sequences, FiniteSets

CONSTANTS Insts,      \* server processes
          Prefetch,   \* Qos: 10
          MaxMsgs,    \* bound: messages published
          MaxStarts   \* bound: starts and restarts of processes

ASSUME QueueAssumption ==
    /\ IsFiniteSet(Insts)
    /\ Prefetch \in Nat \ {0}
    /\ {MaxMsgs, MaxStarts} \subseteq Nat

Msgs == 1..MaxMsgs

VARIABLES proc,      \* each process: "down", "idle" (it runs without the queue:
                     \* no connection, or lost it) or "consuming"
          starts,    \* how many starts there were
          published, \* how many messages the broker received
          bad,       \* those that do not decode
          ready,     \* those waiting in the queue
          acked,     \* those the broker has removed for an ack
          buf,       \* deliveries a consumer's goroutine has not taken yet
          hand,      \* the message it is handling; 0 is none
          answers,   \* acks and nacks on their way to the broker
          done,      \* history: how often each message's handler has finished
          hits       \* history: how often a connection or process was lost
                     \* that had it unanswered

broker   == <<published, bad, ready, acked>>
consumer == <<buf, hand, answers>>
vars     == <<proc, starts, broker, consumer, done, hits>>

Elems(s) == {s[k] : k \in DOMAIN s}
Answered(i) == {answers[i][k].msg : k \in DOMAIN answers[i]}
InHand(i) == {hand[i]} \ {0}

(* What the broker has delivered on this connection and has no answer for. *)
Unacked(i) == IF proc[i] = "consuming"
              THEN Elems(buf[i]) \cup InHand(i) \cup Answered(i) ELSE {}

Credit(i) == Len(buf[i]) + Cardinality(InHand(i)) + Len(answers[i]) < Prefetch

Init == /\ proc = [i \in Insts |-> "down"] /\ starts = 0
        /\ published = 0 /\ bad = {} /\ ready = {} /\ acked = {}
        /\ buf = [i \in Insts |-> <<>>]
        /\ hand = [i \in Insts |-> 0]
        /\ answers = [i \in Insts |-> <<>>]
        /\ done = [m \in Msgs |-> 0] /\ hits = [m \in Msgs |-> 0]

-----------------------------------------------------------------------------
(* Processes and connections.                                              *)

(* main: connect, with five attempts, open a channel, set the prefetch,    *)
(* declare the queues, register the consumers.  When any of it fails the   *)
(* process runs without the queue, for good.                               *)
Start(i) ==
    /\ proc[i] = "down" /\ starts < MaxStarts
    /\ proc' = [proc EXCEPT ![i] = "consuming"] \/ proc' = [proc EXCEPT ![i] = "idle"]
    /\ starts' = starts + 1
    /\ UNCHANGED <<broker, consumer, done, hits>>

(* The broker notices a connection's end: what it had no answer for is     *)
(* ready again.                                                            *)
Requeue(i) ==
    /\ ready' = ready \cup Unacked(i)
    /\ hits' = [m \in Msgs |-> hits[m] + (IF m \in Unacked(i) THEN 1 ELSE 0)]
    /\ UNCHANGED <<published, bad, acked>>

(* The connection is lost.  The library closes the goroutine's deliveries, *)
(* dropping those not taken; the handler goes on, but its answer will have *)
(* nowhere to go; nothing connects again.                                  *)
ConnectionLost(i) ==
    /\ proc[i] = "consuming"
    /\ proc' = [proc EXCEPT ![i] = "idle"]
    /\ Requeue(i)
    /\ buf' = [buf EXCEPT ![i] = <<>>] /\ answers' = [answers EXCEPT ![i] = <<>>]
    /\ UNCHANGED <<starts, hand, done>>

(* The process dies, and its handler with it. *)
Crash(i) ==
    /\ proc[i] # "down"
    /\ proc' = [proc EXCEPT ![i] = "down"]
    /\ Requeue(i)
    /\ buf' = [buf EXCEPT ![i] = <<>>] /\ answers' = [answers EXCEPT ![i] = <<>>]
    /\ hand' = [hand EXCEPT ![i] = 0]
    /\ UNCHANGED <<starts, done>>

-----------------------------------------------------------------------------
(* Publishing: persistent, to a durable queue, without a confirmation; a   *)
(* message lost on its way to the broker leaves no trace here, whatever    *)
(* Publish returned.  It decodes at the consumer or, if its publisher has  *)
(* another idea of the type, it does not.                                  *)
Publish ==
    /\ published < MaxMsgs
    /\ published' = published + 1
    /\ ready' = ready \cup {published'}
    /\ bad' \in {bad, bad \cup {published'}}
    /\ UNCHANGED <<proc, starts, acked, consumer, done, hits>>

-----------------------------------------------------------------------------
(* Consuming.                                                              *)

(* Mutant: the prefetch is not set. *)
DeliverUnlimited(i, m) ==
    /\ proc[i] = "consuming"
    /\ m \in ready /\ \A k \in ready : m <= k
    /\ ready' = ready \ {m}
    /\ buf' = [buf EXCEPT ![i] = Append(@, m)]
    /\ UNCHANGED <<proc, starts, published, bad, acked, hand, answers, done, hits>>

(* Mutant: auto-ack. *)
DeliverAcked(i, m) ==
    /\ proc[i] = "consuming" /\ Credit(i)
    /\ m \in ready /\ \A k \in ready : m <= k
    /\ ready' = ready \ {m} /\ acked' = acked \cup {m}
    /\ buf' = [buf EXCEPT ![i] = Append(@, m)]
    /\ UNCHANGED <<proc, starts, published, bad, hand, answers, done, hits>>

(* The first ready message goes to a consumer with credit left. *)
Deliver(i, m) ==
    /\ proc[i] = "consuming" /\ Credit(i)
    /\ m \in ready /\ \A k \in ready : m <= k
    /\ ready' = ready \ {m}
    /\ buf' = [buf EXCEPT ![i] = Append(@, m)]
    /\ UNCHANGED <<proc, starts, published, bad, acked, hand, answers, done, hits>>

(* for msg := range msgs *)
Take(i) ==
    /\ proc[i] = "consuming" /\ hand[i] = 0 /\ buf[i] # <<>>
    /\ hand' = [hand EXCEPT ![i] = Head(buf[i])]
    /\ buf' = [buf EXCEPT ![i] = Tail(@)]
    /\ UNCHANGED <<proc, starts, broker, answers, done, hits>>

(* The goroutine answers for the message in its hand and has none; without *)
(* the connection the answer fails, and nobody looks at its error.         *)
Answer(i, ok) ==
    /\ hand' = [hand EXCEPT ![i] = 0]
    /\ answers' = IF proc[i] = "consuming"
                  THEN [answers EXCEPT ![i] = Append(@, [msg |-> hand[i], ok |-> ok])]
                  ELSE answers
    /\ UNCHANGED <<proc, starts, broker, buf, hits>>

(* Mutant: ack and nack are swapped. *)
HandleSwapped(i) ==
    /\ hand[i] # 0 /\ hand[i] \notin bad
    /\ done' = [done EXCEPT ![hand[i]] = @ + 1]
    /\ Answer(i, FALSE)

(* The message decodes; none of the four handlers returns an error. *)
Handle(i) ==
    /\ hand[i] # 0 /\ hand[i] \notin bad
    /\ done' = [done EXCEPT ![hand[i]] = @ + 1]
    /\ Answer(i, TRUE)

(* Mutant: the goroutine returns at an error. *)
RejectAndStop(i) ==
    /\ hand[i] \in bad
    /\ UNCHANGED vars

(* It does not decode: nack with requeue. *)
Reject(i) ==
    /\ hand[i] \in bad
    /\ Answer(i, FALSE) /\ UNCHANGED done

(* The broker removes the message, or puts it back where it was. *)
AnswerArrives(i) ==
    /\ answers[i] # <<>>
    /\ answers' = [answers EXCEPT ![i] = Tail(@)]
    /\ LET a == Head(answers[i]) IN
         IF a.ok THEN acked' = acked \cup {a.msg} /\ UNCHANGED ready
                 ELSE ready' = ready \cup {a.msg} /\ UNCHANGED acked
    /\ UNCHANGED <<proc, starts, published, bad, buf, hand, done, hits>>

Next == \/ Publish
        \/ \E i \in Insts : \/ Start(i) \/ ConnectionLost(i) \/ Crash(i)
                            \/ \E m \in Msgs : Deliver(i, m)
                            \/ Take(i) \/ Handle(i) \/ Reject(i) \/ AnswerArrives(i)

Spec == Init /\ [][Next]_vars

(* Goroutines run and answers arrive.  A broker delivers what there is     *)
(* credit for before it looks at the next answer, so a message that is     *)
(* first with credit to spare again and again gets delivered.              *)
FairSpec ==
    /\ Spec
    /\ \A i \in Insts :
         /\ WF_vars(Take(i)) /\ WF_vars(Handle(i)) /\ WF_vars(Reject(i))
         /\ WF_vars(AnswerArrives(i))
         /\ \A m \in Msgs : SF_vars(Deliver(i, m))

-----------------------------------------------------------------------------
(* Properties.                                                             *)

(* Types; and no consumer holds more unanswered messages than prefetched. *)
TypeOK ==
    /\ proc \in [Insts -> {"down", "idle", "consuming"}]
    /\ starts \in 0..MaxStarts /\ published \in 0..MaxMsgs
    /\ bad \subseteq 1..published
    /\ ready \subseteq 1..published /\ acked \subseteq 1..published
    /\ buf \in [Insts -> Seq(Msgs)]
    /\ hand \in [Insts -> 0..MaxMsgs]
    /\ answers \in [Insts -> Seq([msg : Msgs, ok : BOOLEAN])]
    /\ done \in [Msgs -> Nat] /\ hits \in [Msgs -> Nat]
    /\ \A i \in Insts :
         Len(buf[i]) + Cardinality(InHand(i)) + Len(answers[i]) <= Prefetch

(* No message is lost, and none is removed unhandled: whatever crashes,    *)
(* each one is acked, ready, or unanswered on one live connection, and the *)
(* acked ones were handled (manual ack after the handler, durable queue).  *)
Accounted ==
    /\ \A m \in 1..published :
         \/ m \in acked /\ m \notin ready /\ \A i \in Insts : m \notin Unacked(i)
         \/ m \notin acked /\ m \in ready /\ \A i \in Insts : m \notin Unacked(i)
         \/ /\ m \notin acked /\ m \notin ready
            /\ \E i \in Insts : /\ m \in Unacked(i)
                                /\ \A j \in Insts \ {i} : m \notin Unacked(j)
    /\ \A m \in acked : m \notin bad /\ done[m] > 0

(* A message is handled again only for a connection or process lost while  *)
(* it was unanswered: the consumers, which have no other protection, must  *)
(* expect as many repetitions and no more.                                 *)
HandledAgainOnlyIfLost == \A m \in Msgs : done[m] <= 1 + hits[m]

(* As long as fewer messages fail to decode than a consumer prefetches,    *)
(* and some process keeps its connection, what decodes gets handled: a     *)
(* message requeued for ever does not hold up the ones behind it.          *)
EventuallyHandled ==
    \A m \in Msgs :
      (\E i \in Insts : <>[](proc[i] = "consuming"))
      => [](m <= published /\ m \notin bad
              => <>(done[m] > 0 \/ Cardinality(bad) >= Prefetch))
=============================================================================
