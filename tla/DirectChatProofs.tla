------------------------- MODULE DirectChatProofs -------------------------
(* What the pane shows in DirectChat, for any number of instances,         *)
(* messages, connections and requests, and any limit of a history.         *)
EXTENDS DirectChat, FiniteSetTheorems, SequenceTheorems, TLAPS

Injective(s) == \A j, k \in DOMAIN s : s[j] = s[k] => j = k

(* Live copies past the hub. *)
Flying(m) == \E c \in Mine : m \in Elems(chan[c]) \cup Elems(net[c])

(* There is one live copy of a message, and one row. *)
OneCopy ==
    /\ Injective(table)
    /\ \A c \in Mine : Injective(chan[c]) /\ Injective(net[c])
    /\ \A c, d \in Mine : /\ c # d => /\ Elems(chan[c]) \cap Elems(chan[d]) = {}
                                      /\ Elems(net[c]) \cap Elems(net[d]) = {}
                          /\ Elems(chan[c]) \cap Elems(net[d]) = {}
    /\ \A m \in Msgs : /\ pc[m] # "done" => ~Flying(m)
                       /\ pc[m] \in {"unsent", "wire"} => m \notin Stored

(* Rows younger than the first n. *)
Since(n) == {table[k] : k \in (n + 1)..Len(table)}

(* A reply is what the table was, and the rows stored since are accounted. *)
Accounted(a) == /\ opened /\ a.n <= Len(table) /\ a.rows = Newest(a.n)
             /\ Since(a.n) \subseteq Coming \cup gone \cup raced

Replies == \A r \in Asks : /\ asked[r].st # "none" => opened
                           /\ asked[r].st = "read" => Accounted(asked[r])

Shown == /\ base.n = 0 => base.rows = <<>>
         /\ base.n > 0 =>
              /\ opened /\ base.n <= Len(table) /\ base.rows = Newest(base.n)
              /\ Since(base.n) \subseteq Elems(pane) \cup Coming \cup gone \cup raced

(* The pane is a history and, behind it, what came since, once each.       *)
Behind == (Len(base.rows) + 1)..Len(pane)
Pane == /\ Len(base.rows) <= Len(pane)
        /\ \A k \in DOMAIN base.rows : pane[k] = base.rows[k]
        /\ \A j, k \in Behind : pane[j] = pane[k] => j = k
        /\ \A k \in Behind : /\ pane[k] \notin Coming /\ pc[pane[k]] # "unsent"
                             /\ pane[k] \in Elems(base.rows) => pane[k] \in late
        /\ Coming \cap Elems(base.rows) \subseteq late

IInv == TypeOK /\ OneCopy /\ Replies /\ Shown /\ Pane

-----------------------------------------------------------------------------
(* Sequences.                                                              *)

LEMMA ElementFacts ==
    ASSUME NEW S, NEW s \in Seq(S)
    PROVE  \A k \in DOMAIN s : s[k] \in S
OBVIOUS

LEMMA AppendFacts ==
    ASSUME NEW S, NEW s \in Seq(S), NEW e \in S
    PROVE  /\ Append(s, e) \in Seq(S) /\ Len(Append(s, e)) = Len(s) + 1
           /\ Elems(Append(s, e)) = Elems(s) \cup {e}
           /\ Injective(s) /\ e \notin Elems(s) => Injective(Append(s, e))
<1>1. /\ Append(s, e) \in Seq(S) /\ Len(Append(s, e)) = Len(s) + 1
      /\ DOMAIN s = 1..Len(s) /\ DOMAIN Append(s, e) = 1..(Len(s) + 1)
      /\ \A k \in 1..Len(s) : Append(s, e)[k] = s[k]
      /\ Append(s, e)[Len(s) + 1] = e /\ Len(s) \in Nat
  OBVIOUS
<1>2. \A k \in DOMAIN Append(s, e) : k \in DOMAIN s \/ k = Len(s) + 1
  BY <1>1
<1>3. Elems(Append(s, e)) = Elems(s) \cup {e}
  BY <1>1, <1>2 DEF Elems
<1>4. Injective(s) /\ e \notin Elems(s) => Injective(Append(s, e))
  BY <1>1, <1>2 DEF Elems, Injective
<1> QED
  BY <1>1, <1>3, <1>4

LEMMA TailFacts ==
    ASSUME NEW S, NEW s \in Seq(S), s # <<>>
    PROVE  /\ Tail(s) \in Seq(S) /\ Len(Tail(s)) = Len(s) - 1 /\ Len(s) \in Nat \ {0}
           /\ Head(s) = s[1] /\ 1 \in DOMAIN s /\ Head(s) \in S
           /\ \A k \in DOMAIN Tail(s) : k + 1 \in DOMAIN s /\ Tail(s)[k] = s[k + 1] /\ k + 1 # 1
           /\ \A k \in DOMAIN s : k = 1 \/ (k - 1 \in DOMAIN Tail(s) /\ s[k] = Tail(s)[k - 1])
           /\ Elems(s) = Elems(Tail(s)) \cup {Head(s)}
           /\ Injective(s) => Injective(Tail(s)) /\ Head(s) \notin Elems(Tail(s))
<1>1. /\ Tail(s) \in Seq(S) /\ Len(Tail(s)) = Len(s) - 1 /\ Len(s) \in Nat \ {0}
      /\ Head(s) = s[1] /\ 1 \in DOMAIN s /\ Head(s) \in S
      /\ DOMAIN s = 1..Len(s) /\ DOMAIN Tail(s) = 1..(Len(s) - 1)
      /\ \A k \in 1..(Len(s) - 1) : Tail(s)[k] = s[k + 1]
  OBVIOUS
<1>2. \A k \in DOMAIN Tail(s) : k + 1 \in DOMAIN s /\ Tail(s)[k] = s[k + 1] /\ k + 1 # 1
  BY <1>1
<1>3. \A k \in DOMAIN s : k = 1 \/ (k - 1 \in DOMAIN Tail(s) /\ s[k] = Tail(s)[k - 1])
  BY <1>1
<1>4. Elems(s) = Elems(Tail(s)) \cup {Head(s)}
  <2>1. ASSUME NEW e \in Elems(s) PROVE e \in Elems(Tail(s)) \cup {Head(s)}
    <3>1. PICK k \in DOMAIN s : e = s[k]
      BY DEF Elems
    <3>2. CASE k = 1
      BY <1>1, <3>1, <3>2
    <3>3. CASE k - 1 \in DOMAIN Tail(s) /\ s[k] = Tail(s)[k - 1]
      BY <3>1, <3>3 DEF Elems
    <3> QED
      BY <1>3, <3>2, <3>3
  <2>2. ASSUME NEW e \in Elems(Tail(s)) PROVE e \in Elems(s)
    BY <1>2 DEF Elems
  <2>3. Head(s) \in Elems(s)
    BY <1>1 DEF Elems
  <2> QED
    BY <2>1, <2>2, <2>3
<1>5. Injective(s) => Injective(Tail(s)) /\ Head(s) \notin Elems(Tail(s))
  <2> SUFFICES ASSUME Injective(s) PROVE Injective(Tail(s)) /\ Head(s) \notin Elems(Tail(s))
    OBVIOUS
  <2>1. Head(s) \notin Elems(Tail(s))
    BY <1>1, <1>2 DEF Elems, Injective
  <2>2. Injective(Tail(s))
    <3> SUFFICES ASSUME NEW j \in DOMAIN Tail(s), NEW k \in DOMAIN Tail(s), Tail(s)[j] = Tail(s)[k]
                 PROVE  j = k
      BY DEF Injective
    <3>1. j + 1 = k + 1
      BY <1>2 DEF Injective
    <3> QED
      BY <3>1, <1>1
  <2> QED
    BY <2>1, <2>2
<1> QED
  BY <1>1, <1>2, <1>3, <1>4, <1>5

LEMMA HeadIsElem == ASSUME NEW S, NEW s \in Seq(S), s # <<>> PROVE Head(s) \in Elems(s)
BY TailFacts

-----------------------------------------------------------------------------
(* The table and what is read of it.                                       *)

LEMMA NewestFacts ==
    ASSUME table \in Seq(Msgs), NEW n \in Nat, n <= Len(table)
    PROVE  /\ Newest(n) \in Seq(Msgs) /\ Len(Newest(n)) <= Limit
           /\ n = 0 => Newest(n) = <<>>
           /\ Elems(Newest(n)) \subseteq {table[k] : k \in 1..n}
           /\ Elems(Newest(n)) \subseteq Stored /\ Since(n) \subseteq Stored
           /\ Injective(table) => /\ Injective(Newest(n))
                                  /\ Elems(Newest(n)) \cap Since(n) = {}
<1> DEFINE f == IF n > Limit THEN n - Limit + 1 ELSE 1
<1>1. f \in Nat /\ f >= 1 /\ n - f + 1 <= Limit /\ Limit \in Nat /\ f \in Int /\ n \in Int
  BY ChatAssumption
<1>2. DOMAIN table = 1..Len(table) /\ Len(table) \in Nat /\ \A k \in f..n : table[k] \in Msgs
  BY <1>1
<1>3. Newest(n) = SubSeq(table, f, n)
  BY DEF Newest
<1> HIDE DEF f
<1>4. /\ Newest(n) \in Seq(Msgs)
      /\ Len(Newest(n)) = IF f <= n THEN n - f + 1 ELSE 0
      /\ \A k \in 1..(n - f + 1) : Newest(n)[k] = table[f + k - 1]
  BY <1>1, <1>2, <1>3, SubSeqProperties
<1>5. \A k \in DOMAIN Newest(n) : /\ Newest(n)[k] = table[f + k - 1]
                                  /\ f + k - 1 \in 1..n /\ f + k - 1 \in DOMAIN table
  BY <1>1, <1>2, <1>4
<1>6. \A k \in DOMAIN Newest(n) : k \in Nat
  BY <1>4
<1>7. n = 0 => Newest(n) = <<>>
  BY <1>1, <1>4
<1>8. Len(Newest(n)) <= Limit
  BY <1>1, <1>4
<1>9. Elems(Newest(n)) \subseteq {table[k] : k \in 1..n} /\ Elems(Newest(n)) \subseteq Stored
  BY <1>5 DEF Elems, Stored
<1>10. Since(n) \subseteq Stored
  BY <1>2 DEF Since, Stored, Elems
<1>11. ASSUME Injective(table) PROVE Injective(Newest(n))
  <2> SUFFICES ASSUME NEW j \in DOMAIN Newest(n), NEW k \in DOMAIN Newest(n),
                      Newest(n)[j] = Newest(n)[k]
               PROVE  j = k
    BY DEF Injective
  <2>1. f + j - 1 = f + k - 1
    BY <1>5, <1>11 DEF Injective
  <2> QED
    BY <1>1, <1>6, <2>1
<1>12. ASSUME Injective(table) PROVE Elems(Newest(n)) \cap Since(n) = {}
  <2> SUFFICES ASSUME NEW j \in 1..n, NEW k \in (n + 1)..Len(table) PROVE table[j] # table[k]
    BY <1>9 DEF Since
  <2> QED
    BY <1>2, <1>12 DEF Injective
<1> QED
  BY <1>4, <1>7, <1>8, <1>9, <1>10, <1>11, <1>12

LEMMA NewRow ==
    ASSUME table \in Seq(Msgs), NEW m \in Msgs, table' = Append(table, m),
           NEW n \in Nat, n <= Len(table)
    PROVE  Newest(n)' = Newest(n) /\ Since(n)' = Since(n) \cup {m}
<1> DEFINE f == IF n > Limit THEN n - Limit + 1 ELSE 1
<1>1. f \in Nat /\ f >= 1 /\ f \in Int /\ n \in Int
  BY ChatAssumption
<1>2. /\ Len(table) \in Nat /\ Len(table') = Len(table) + 1
      /\ \A k \in 1..Len(table) : table'[k] = table[k] /\ table[k] \in Msgs
      /\ table'[Len(table) + 1] = m
  OBVIOUS
<1>3. \A k \in f..n : table[k] \in Msgs /\ table'[k] = table[k] /\ table'[k] \in Msgs
  BY <1>1, <1>2
<1>4. Newest(n) = SubSeq(table, f, n) /\ Newest(n)' = SubSeq(table', f, n)
  BY DEF Newest
<1> HIDE DEF f
<1>5. /\ SubSeq(table, f, n) \in Seq(Msgs)
      /\ Len(SubSeq(table, f, n)) = IF f <= n THEN n - f + 1 ELSE 0
      /\ \A k \in 1..(n - f + 1) : SubSeq(table, f, n)[k] = table[f + k - 1]
  BY <1>1, <1>3, SubSeqProperties
<1>6. /\ SubSeq(table', f, n) \in Seq(Msgs)
      /\ Len(SubSeq(table', f, n)) = IF f <= n THEN n - f + 1 ELSE 0
      /\ \A k \in 1..(n - f + 1) : SubSeq(table', f, n)[k] = table'[f + k - 1]
  BY <1>1, <1>3, SubSeqProperties
<1>7. \A k \in 1..(n - f + 1) : f + k - 1 \in f..n
  BY <1>1
<1>8. SubSeq(table', f, n) = SubSeq(table, f, n)
  <2>1. \A k \in 1..(n - f + 1) : SubSeq(table', f, n)[k] = SubSeq(table, f, n)[k]
    BY <1>3, <1>5, <1>6, <1>7
  <2>2. /\ Len(SubSeq(table', f, n)) = Len(SubSeq(table, f, n))
        /\ 1..Len(SubSeq(table', f, n)) \subseteq 1..(n - f + 1)
    BY <1>1, <1>5, <1>6
  <2> QED
    BY <1>5, <1>6, <2>1, <2>2, SeqEqual
<1>9. Since(n)' = Since(n) \cup {m}
  BY <1>2 DEF Since
<1> QED
  BY <1>4, <1>8, <1>9

-----------------------------------------------------------------------------
(* What the steps have in common.                                          *)

LEMMA TypeFacts ==
    ASSUME TypeOK
    PROVE  /\ table \in Seq(Msgs) /\ Len(table) \in Nat /\ Stored \subseteq Msgs
           /\ pane \in Seq(Msgs) /\ Len(pane) \in Nat
           /\ base.rows \in Seq(Msgs) /\ Len(base.rows) \in Nat /\ base.n \in Nat
           /\ \A r \in Asks : asked[r].rows \in Seq(Msgs) /\ asked[r].n \in Nat
           /\ \A c \in Mine : chan[c] \in Seq(Msgs) /\ net[c] \in Seq(Msgs)
           /\ \A c \in Mine : Elems(chan[c]) \subseteq Msgs /\ Elems(net[c]) \subseteq Msgs
<1>1. table \in Seq(Msgs) /\ pane \in Seq(Msgs) /\ base \in Reply
  BY DEF TypeOK
<1>2. asked \in [Asks -> Reply] /\ chan \in [Mine -> Seq(Msgs)] /\ net \in [Mine -> Seq(Msgs)]
  BY DEF TypeOK
<1>3. base.rows \in Seq(Msgs) /\ base.n \in Nat
  BY <1>1 DEF Reply
<1>4. \A r \in Asks : asked[r].rows \in Seq(Msgs) /\ asked[r].n \in Nat
  BY <1>2 DEF Reply
<1>5. \A c \in Mine : chan[c] \in Seq(Msgs) /\ net[c] \in Seq(Msgs)
  BY <1>2
<1>6. \A c \in Mine : Elems(chan[c]) \subseteq Msgs /\ Elems(net[c]) \subseteq Msgs
  BY <1>5, ElementFacts DEF Elems
<1>7. Stored \subseteq Msgs
  BY <1>1, ElementFacts DEF Elems, Stored
<1> QED
  BY <1>1, <1>3, <1>4, <1>5, <1>6, <1>7

(* The rows of the history shown are stored. *)
LEMMA BaseFacts ==
    ASSUME IInv
    PROVE  /\ Elems(base.rows) \subseteq Stored /\ Injective(base.rows)
           /\ \A e \in Elems(base.rows) : e \in Msgs /\ pc[e] \notin {"unsent", "wire"}
<1>1. TypeOK /\ OneCopy /\ Shown /\ Injective(table)
  BY DEF IInv, OneCopy
<1>2. CASE base.n = 0
  <2>1. base.rows = <<>>
    BY <1>1, <1>2 DEF Shown
  <2>2. Elems(base.rows) = {} /\ Injective(base.rows)
    BY <2>1 DEF Elems, Injective
  <2> QED
    BY <2>2
<1>3. CASE base.n > 0
  <2>1. base.rows = Newest(base.n) /\ base.n <= Len(table) /\ base.n \in Nat
    BY <1>1, <1>3, TypeFacts DEF Shown
  <2>2. Elems(base.rows) \subseteq Stored /\ Injective(base.rows)
    BY <1>1, <2>1, NewestFacts, TypeFacts
  <2> QED
    BY <1>1, <2>2, TypeFacts DEF OneCopy
<1> QED
  BY <1>1, <1>2, <1>3, TypeFacts

LEMMA ComingFacts ==
    \A m \in Msgs : m \in Coming <=> pc[m] \in {"wire", "saved"} \/ Flying(m)
BY DEF Coming, Flying

(* Live copies move or are lost; nothing is read or shown. *)
LEMMA StillAccounted ==
    ASSUME IInv, UNCHANGED <<table, opened, pane, asked, base>>,
           Coming \cap Stored \subseteq Coming' \cup gone', gone \subseteq gone', raced \subseteq raced'
    PROVE  Replies' /\ Shown'
<1> USE DEF IInv
<1>1. \A n : Newest(n)' = Newest(n) /\ Since(n)' = Since(n)
  BY DEF Newest, Since
<1>2. \A n \in Nat : n <= Len(table) => Since(n) \subseteq Stored
  BY NewestFacts, TypeFacts
<1>3. \A r \in Asks : asked[r].st = "read" => Accounted(asked[r])'
  <2> SUFFICES ASSUME NEW r \in Asks, asked[r].st = "read" PROVE Accounted(asked[r])'
    OBVIOUS
  <2>1. /\ opened /\ asked[r].n <= Len(table) /\ asked[r].rows = Newest(asked[r].n)
        /\ Since(asked[r].n) \subseteq Coming \cup gone \cup raced
    BY DEF Replies, Accounted
  <2>2. Since(asked[r].n) \subseteq Stored
    BY <1>2, <2>1, TypeFacts
  <2>3. Since(asked[r].n) \subseteq Coming' \cup gone' \cup raced'
    BY <2>1, <2>2
  <2> QED
    BY <1>1, <2>1, <2>3 DEF Accounted
<1>4. Replies'
  BY <1>3 DEF Replies
<1>5. Shown'
  <2>1. CASE base.n > 0
    <3>1. /\ opened /\ base.n <= Len(table) /\ base.rows = Newest(base.n)
          /\ Since(base.n) \subseteq Elems(pane) \cup Coming \cup gone \cup raced
      BY <2>1 DEF Shown
    <3>2. Since(base.n) \subseteq Stored
      BY <1>2, <3>1, TypeFacts
    <3>3. Since(base.n) \subseteq Elems(pane) \cup Coming' \cup gone' \cup raced'
      BY <3>1, <3>2
    <3> QED
      BY <1>1, <2>1, <3>1, <3>3 DEF Shown
  <2>2. CASE base.n = 0
    BY <2>2 DEF Shown
  <2> QED
    BY <2>1, <2>2, TypeFacts
<1> QED
  BY <1>4, <1>5

LEMMA PaneStays ==
    ASSUME IInv, UNCHANGED <<pane, base, late>>,
           \A m \in Msgs : /\ m \in Coming' => m \in Coming \/ pc[m] = "unsent"
                           /\ pc[m] # "unsent" => pc'[m] # "unsent"
    PROVE  Pane'
<1>1. TypeOK /\ Pane
  BY DEF IInv
<1>2. Behind' = Behind /\ \A k \in Behind : pane[k] \in Msgs
  <2>1. Behind' = Behind
    BY DEF Behind
  <2>2. Len(pane) \in Nat /\ Len(base.rows) \in Nat /\ pane \in Seq(Msgs)
    BY <1>1, TypeFacts
  <2>3. \A k \in Behind : k \in DOMAIN pane
    BY <2>2 DEF Behind
  <2> QED
    BY <2>1, <2>2, <2>3, ElementFacts
<1>3. \A k \in Behind : pane[k] \notin Coming' /\ pc'[pane[k]] # "unsent"
  BY <1>1, <1>2 DEF Pane
<1>4. Coming' \cap Elems(base.rows) \subseteq late
  BY <1>1, BaseFacts DEF Pane
<1> QED
  BY <1>1, <1>2, <1>3, <1>4 DEF Pane

(* Copies disappear, or nothing happens to them. *)
LEMMA FewerCopies ==
    ASSUME IInv, table' = table,
           \A c \in Mine : /\ chan'[c] = chan[c] \/ chan'[c] = <<>>
                           /\ net'[c] = net[c] \/ net'[c] = <<>>,
           \A m \in Msgs : pc'[m] = pc[m] \/ (pc[m] = "wire" /\ pc'[m] = "done")
    PROVE  /\ OneCopy'
           /\ \A m \in Msgs : Flying(m)' => Flying(m)
           /\ Coming' \cap Msgs \subseteq Coming
<1>1. OneCopy
  BY DEF IInv
<1>2. Elems(<<>>) = {} /\ Injective(<<>>)
  BY DEF Elems, Injective
<1>3. \A c \in Mine : /\ Injective(chan'[c]) /\ Injective(net'[c])
                      /\ Elems(chan'[c]) \subseteq Elems(chan[c])
                      /\ Elems(net'[c]) \subseteq Elems(net[c])
  BY <1>1, <1>2 DEF OneCopy
<1>4. \A m \in Msgs : Flying(m)' => Flying(m)
  BY <1>3 DEF Flying
<1>5. \A c, d \in Mine : /\ c # d => /\ Elems(chan'[c]) \cap Elems(chan'[d]) = {}
                                     /\ Elems(net'[c]) \cap Elems(net'[d]) = {}
                         /\ Elems(chan'[c]) \cap Elems(net'[d]) = {}
  BY <1>1, <1>3 DEF OneCopy
<1>6. \A m \in Msgs : /\ pc'[m] # "done" => ~Flying(m)'
                      /\ pc'[m] \in {"unsent", "wire"} => m \notin Stored'
  BY <1>1, <1>4 DEF OneCopy, Stored
<1>7. Injective(table)'
  BY <1>1 DEF OneCopy, Injective
<1>8. OneCopy'
  BY <1>3, <1>5, <1>6, <1>7 DEF OneCopy
<1>9. Coming' \cap Msgs \subseteq Coming
  BY <1>4, ComingFacts DEF Coming, Flying
<1> QED
  BY <1>4, <1>8, <1>9

LEMMA Quiet ==
    ASSUME IInv, UNCHANGED <<live, table, page, notes>>, TypeOK'
    PROVE  IInv'
<1>1. UNCHANGED <<pc, via, chan, net, table, opened, pane, asked, base, late, gone, raced>>
  BY DEF live, page, notes
<1>2. OneCopy'
  BY <1>1, FewerCopies
<1>3. Coming' = Coming
  BY <1>1 DEF Coming
<1>4. Replies' /\ Shown'
  BY <1>1, <1>3, StillAccounted
<1>5. Pane'
  BY <1>1, <1>3, PaneStays
<1> QED
  BY <1>2, <1>4, <1>5 DEF IInv

LEMMA InitIInv == Init => IInv
<1> SUFFICES ASSUME Init PROVE IInv
  OBVIOUS
<1> USE DEF Init
<1>1. Elems(<<>>) = {} /\ Injective(<<>>) /\ Len(<<>>) = 0
  BY DEF Elems, Injective
<1>2. TypeOK
  <2>1. NoReply \in Reply /\ Len(NoReply.rows) = 0 /\ Limit \in Nat
    BY ChatAssumption DEF NoReply, Reply
  <2>2. NoConn \in Conns \cup {NoConn} /\ MaxDrops \in Nat
    BY ChatAssumption
  <2>3. /\ made \in [Users -> 0..(MaxDrops + 1)]
        /\ up \subseteq Conns /\ \A c, d \in up : c[1] = d[1] => c = d
        /\ at \in [Conns -> Insts \cup {Away}] /\ ended \subseteq Conns
    BY <2>2
  <2>4. /\ pc \in [Msgs -> {"unsent", "wire", "saved", "done"}]
        /\ via \in [Msgs -> Conns \cup {NoConn}]
        /\ table \in Seq(Msgs)
        /\ chan \in [Mine -> Seq(Msgs)] /\ net \in [Mine -> Seq(Msgs)]
    BY <2>2
  <2>5. /\ asked \in [Asks -> Reply] /\ base \in Reply
        /\ \A r \in Asks : Len(asked[r].rows) <= Limit
    BY <2>1, ChatAssumption
  <2> QED
    BY <2>3, <2>4, <2>5 DEF TypeOK
<1>3. \A m \in Msgs : ~Flying(m) /\ m \notin Stored
  BY <1>1 DEF Flying, Stored
<1>4. OneCopy
  BY <1>1, <1>3 DEF OneCopy
<1>5. base.n = 0 /\ base.rows = <<>> /\ \A r \in Asks : asked[r].st = "none"
  BY DEF NoReply
<1>6. Replies /\ Shown
  BY <1>5 DEF Replies, Shown
<1>7. Coming = {}
  BY <1>3, ComingFacts DEF Coming, Flying
<1>8. Pane
  BY <1>1, <1>5, <1>7 DEF Pane, Behind
<1> QED
  BY <1>2, <1>4, <1>6, <1>8 DEF IInv

-----------------------------------------------------------------------------
(* Connections.                                                            *)

LEMMA ConnectIInv == \A c \in Conns : IInv /\ Connect(c) => IInv'
<1> SUFFICES ASSUME NEW c \in Conns, IInv, Connect(c) PROVE IInv'
  OBVIOUS
<1>1. TypeOK
  BY DEF IInv
<1>2. PICK u \in Users, k \in 1..(MaxDrops + 1) : c = <<u, k>>
  BY DEF Conns
<1>3. made' \in [Users -> 0..(MaxDrops + 1)]
  <2>1. made' = [made EXCEPT ![u] = k] /\ MaxDrops \in Nat
    BY <1>1, <1>2, ChatAssumption DEF Connect, TypeOK
  <2> QED
    BY <1>1, <2>1 DEF TypeOK
<1>4. up' \subseteq Conns /\ \A d, e \in up' : d[1] = e[1] => d = e
  BY <1>1 DEF Connect, TypeOK
<1>5. TypeOK'
  BY <1>1, <1>3, <1>4 DEF Connect, TypeOK, live, page, notes
<1> QED
  BY <1>5, Quiet DEF Connect

LEMMA RegisterIInv == \A c \in Conns, i \in Insts : IInv /\ Register(c, i) => IInv'
<1> SUFFICES ASSUME NEW c \in Conns, NEW i \in Insts, IInv, Register(c, i) PROVE IInv'
  OBVIOUS
<1>1. TypeOK'
  BY DEF IInv, Register, TypeOK, live, page, notes
<1> QED
  BY <1>1, Quiet DEF Register

LEMMA DropIInv == \A c \in Conns : IInv /\ Drop(c) => IInv'
<1> SUFFICES ASSUME NEW c \in Conns, IInv, Drop(c) PROVE IInv'
  OBVIOUS
<1>1. /\ UNCHANGED <<made, at, ended, pc, via, chan, table, opened, pane, asked, base, late, raced>>
      /\ up' = up \ {c} /\ TypeOK /\ \A d \in Mine : Elems(net[d]) \subseteq Msgs
  BY TypeFacts DEF Drop, IInv, page
<1>2. /\ net' \in [Mine -> Seq(Msgs)] /\ gone \subseteq gone' /\ gone' \subseteq Msgs
      /\ \A d \in Mine : \/ net'[d] = net[d]
                         \/ d = c /\ net'[d] = <<>> /\ Elems(net[d]) \cap Stored \subseteq gone'
  <2>1. net \in [Mine -> Seq(Msgs)] /\ gone \subseteq Msgs /\ <<>> \in Seq(Msgs)
    BY <1>1 DEF TypeOK
  <2>2. CASE c \in Mine
    BY <1>1, <2>1, <2>2 DEF Drop
  <2>3. CASE c \notin Mine
    BY <1>1, <2>1, <2>3 DEF Drop
  <2> QED
    BY <2>2, <2>3
<1>3. TypeOK'
  BY <1>1, <1>2 DEF TypeOK
<1>4. OneCopy' /\ Coming' \cap Msgs \subseteq Coming
  BY <1>1, <1>2, FewerCopies
<1>5. Coming \cap Stored \subseteq Coming' \cup gone'
  BY <1>1, <1>2 DEF Coming
<1>6. Replies' /\ Shown'
  BY <1>1, <1>2, <1>5, StillAccounted
<1>7. Pane'
  BY <1>1, <1>4, PaneStays
<1> QED
  BY <1>3, <1>4, <1>6, <1>7 DEF IInv

LEMMA UnregisterIInv == \A c \in Conns : IInv /\ Unregister(c) => IInv'
<1> SUFFICES ASSUME NEW c \in Conns, IInv, Unregister(c) PROVE IInv'
  OBVIOUS
<1>1. /\ UNCHANGED <<made, up, via, net, table, opened, pane, asked, base, late, raced>>
      /\ at' = [at EXCEPT ![c] = Away] /\ ended' = ended \cup {c} /\ TypeOK /\ OneCopy
      /\ \A m \in Msgs : pc'[m] = pc[m] \/ (pc[m] = "wire" /\ pc'[m] = "done")
  BY DEF Unregister, IInv, page
<1>2. /\ chan' \in [Mine -> Seq(Msgs)] /\ gone \subseteq gone' /\ gone' \subseteq Msgs
      /\ \A d \in Mine : \/ chan'[d] = chan[d]
                         \/ d = c /\ chan'[d] = <<>> /\ Elems(chan[d]) \cap Stored \subseteq gone'
  <2>1. /\ chan \in [Mine -> Seq(Msgs)] /\ gone \subseteq Msgs /\ <<>> \in Seq(Msgs)
        /\ \A d \in Mine : Elems(chan[d]) \subseteq Msgs
    BY <1>1, TypeFacts DEF TypeOK
  <2>2. chan' = [d \in Mine |-> IF d = c THEN <<>> ELSE chan[d]]
    BY DEF Unregister
  <2>3. gone' = gone \cup (IF c \in Mine THEN Elems(chan[c]) \cap Stored ELSE {})
    BY DEF Unregister
  <2> QED
    BY <2>1, <2>2, <2>3
<1>3. TypeOK'
  <2>1. pc' \in [Msgs -> {"unsent", "wire", "saved", "done"}]
    BY <1>1 DEF Unregister, TypeOK
  <2> QED
    BY <1>1, <1>2, <2>1 DEF TypeOK
<1>4. OneCopy' /\ Coming' \cap Msgs \subseteq Coming
  BY <1>1, <1>2, FewerCopies
<1>5. Coming \cap Stored \subseteq Coming' \cup gone'
  <2> SUFFICES ASSUME NEW m \in Msgs, m \in Coming, m \in Stored PROVE m \in Coming' \cup gone'
    BY DEF Coming
  <2>1. pc[m] # "wire"
    BY <1>1 DEF OneCopy
  <2>2. CASE pc[m] = "saved"
    BY <1>1, <2>2 DEF Coming
  <2>3. CASE Flying(m)
    BY <1>1, <1>2, <2>3 DEF Coming, Flying
  <2> QED
    BY <2>1, <2>2, <2>3, ComingFacts
<1>6. Replies' /\ Shown'
  BY <1>1, <1>2, <1>5, StillAccounted
<1>7. Pane'
  <2>1. \A m \in Msgs : m \in Coming' => m \in Coming
    BY <1>4
  <2>2. \A m \in Msgs : pc[m] # "unsent" => pc'[m] # "unsent"
    BY <1>1
  <2> QED
    BY <1>1, <2>1, <2>2, PaneStays
<1> QED
  BY <1>3, <1>4, <1>6, <1>7 DEF IInv

-----------------------------------------------------------------------------
(* A message's way.                                                        *)

LEMMA SendIInv == \A m \in Msgs, c \in Conns : IInv /\ Send(m, c) => IInv'
<1> SUFFICES ASSUME NEW m \in Msgs, NEW c \in Conns, IInv, Send(m, c) PROVE IInv'
  OBVIOUS
<1>1. /\ UNCHANGED <<made, up, at, ended, chan, net, table, opened, pane, asked, base, late,
                     gone, raced>>
      /\ TypeOK /\ OneCopy /\ pc[m] = "unsent"
      /\ pc' = [pc EXCEPT ![m] = "wire"] /\ via' = [via EXCEPT ![m] = c]
  BY DEF Send, IInv, conns, page, notes
<1>2. TypeOK'
  BY <1>1 DEF TypeOK
<1>3. /\ \A k \in Msgs : pc'[k] = IF k = m THEN "wire" ELSE pc[k]
      /\ \A k \in Msgs : Flying(k)' <=> Flying(k)
  <2>1. \A k \in Msgs : pc'[k] = IF k = m THEN "wire" ELSE pc[k]
    BY <1>1 DEF TypeOK
  <2> QED
    BY <1>1, <2>1 DEF Flying
<1>4. OneCopy'
  BY <1>1, <1>3 DEF OneCopy, Injective, Stored
<1>5. \A k \in Msgs : k \in Coming' <=> k \in Coming \/ k = m
  BY <1>3, ComingFacts DEF Coming, Flying
<1>6. Replies' /\ Shown'
  <2>1. Coming \cap Stored \subseteq Coming' \cup gone'
    BY <1>5 DEF Coming
  <2> QED
    BY <1>1, <2>1, StillAccounted
<1>7. Pane'
  BY <1>1, <1>3, <1>5, PaneStays
<1> QED
  BY <1>2, <1>4, <1>6, <1>7 DEF IInv

LEMMA ThrottleIInv == \A m \in Msgs : IInv /\ Throttle(m) => IInv'
<1> SUFFICES ASSUME NEW m \in Msgs, IInv, Throttle(m) PROVE IInv'
  OBVIOUS
<1>1. /\ UNCHANGED <<made, up, at, ended, via, chan, net, table, opened, pane, asked, base, late,
                     gone, raced>>
      /\ TypeOK /\ OneCopy /\ pc[m] = "wire" /\ pc' = [pc EXCEPT ![m] = "done"]
  BY DEF Throttle, Reads, IInv, conns, page, notes
<1>2. TypeOK'
  BY <1>1 DEF TypeOK
<1>3. \A k \in Msgs : pc'[k] = IF k = m THEN "done" ELSE pc[k]
  BY <1>1 DEF TypeOK
<1>4. OneCopy' /\ Coming' \cap Msgs \subseteq Coming
  BY <1>1, <1>3, FewerCopies
<1>5. Coming \cap Stored \subseteq Coming' \cup gone'
  BY <1>1, <1>3 DEF OneCopy, Coming
<1>6. Replies' /\ Shown'
  BY <1>1, <1>5, StillAccounted
<1>7. Pane'
  BY <1>1, <1>3, <1>4, PaneStays
<1> QED
  BY <1>2, <1>4, <1>6, <1>7 DEF IInv

LEMMA SaveIInv == \A m \in Msgs : IInv /\ Save(m) => IInv'
<1> SUFFICES ASSUME NEW m \in Msgs, IInv, Save(m) PROVE IInv'
  OBVIOUS
<1>1. /\ UNCHANGED <<made, up, at, ended, via, chan, net, opened, pane, asked, base, late,
                     gone, raced>>
      /\ TypeOK /\ OneCopy /\ Replies /\ Shown /\ pc[m] = "wire"
      /\ pc' = [pc EXCEPT ![m] = "saved"] /\ table' \in {table, Append(table, m)}
  BY DEF Save, Reads, IInv, conns, page, notes
<1>2. /\ table \in Seq(Msgs) /\ table' \in Seq(Msgs) /\ Len(table) \in Nat
      /\ Len(table') \in Nat /\ Len(table) <= Len(table')
      /\ Stored' \subseteq Stored \cup {m} /\ m \notin Stored /\ Injective(table')
  <2>1. table \in Seq(Msgs) /\ Len(table) \in Nat /\ Injective(table) /\ m \notin Stored
    BY <1>1, TypeFacts DEF OneCopy
  <2>2. CASE table' = table
    BY <2>1, <2>2 DEF Stored
  <2>3. CASE table' = Append(table, m)
    BY <2>1, <2>3, AppendFacts DEF Stored
  <2> QED
    BY <1>1, <2>2, <2>3
<1>3. \A k \in Msgs : /\ pc'[k] = IF k = m THEN "saved" ELSE pc[k]
                      /\ Flying(k)' <=> Flying(k)
  <2>1. \A k \in Msgs : pc'[k] = IF k = m THEN "saved" ELSE pc[k]
    BY <1>1 DEF TypeOK
  <2> QED
    BY <1>1, <2>1 DEF Flying
<1>4. \A k \in Msgs : k \in Coming' <=> k \in Coming
  <2>1. \A k \in Msgs : k \in Coming' <=> pc'[k] \in {"wire", "saved"} \/ Flying(k)'
    BY DEF Coming, Flying
  <2> QED
    BY <1>1, <1>3, <2>1, ComingFacts
<1>5. TypeOK'
  BY <1>1, <1>2 DEF TypeOK
<1>6. OneCopy'
  <2>1. \A k \in Msgs : /\ pc'[k] # "done" => ~Flying(k)'
                        /\ pc'[k] \in {"unsent", "wire"} => k \notin Stored'
    BY <1>1, <1>2, <1>3 DEF OneCopy
  <2>2. Injective(table)'
    BY <1>2 DEF Injective
  <2> QED
    BY <1>1, <2>1, <2>2 DEF OneCopy, Injective
<1>7. \A n \in Nat : n <= Len(table) => /\ Newest(n)' = Newest(n) /\ n <= Len(table')
                                        /\ Since(n)' \subseteq Since(n) \cup {m}
  <2> SUFFICES ASSUME NEW n \in Nat, n <= Len(table)
               PROVE  Newest(n)' = Newest(n) /\ Since(n)' \subseteq Since(n) \cup {m}
    BY <1>2
  <2>1. CASE table' = table
    BY <2>1 DEF Newest, Since
  <2>2. CASE table' = Append(table, m)
    BY <1>2, <2>2, NewRow
  <2> QED
    BY <1>1, <2>1, <2>2
<1>8. m \in Coming' /\ Coming \subseteq Coming'
  BY <1>3, <1>4 DEF Coming
<1>9. Replies'
  <2>1. \A r \in Asks : asked[r].st = "read" => Accounted(asked[r])'
    <3> SUFFICES ASSUME NEW r \in Asks, asked[r].st = "read" PROVE Accounted(asked[r])'
      OBVIOUS
    <3>1. /\ opened /\ asked[r].n <= Len(table) /\ asked[r].rows = Newest(asked[r].n)
          /\ Since(asked[r].n) \subseteq Coming \cup gone \cup raced /\ asked[r].n \in Nat
      BY <1>1, TypeFacts DEF Replies, Accounted
    <3>2. Since(asked[r].n)' \subseteq Coming' \cup gone \cup raced
      BY <1>1, <1>7, <1>8, <3>1
    <3> QED
      BY <1>1, <1>7, <3>1, <3>2 DEF Accounted
  <2> QED
    BY <1>1, <2>1 DEF Replies
<1>10. Shown'
  <2>1. CASE base.n > 0
    <3>1. /\ opened /\ base.n <= Len(table) /\ base.rows = Newest(base.n) /\ base.n \in Nat
          /\ Since(base.n) \subseteq Elems(pane) \cup Coming \cup gone \cup raced
      BY <1>1, <2>1, TypeFacts DEF Shown
    <3>2. Since(base.n)' \subseteq Elems(pane) \cup Coming' \cup gone \cup raced
      BY <1>1, <1>7, <1>8, <3>1
    <3> QED
      BY <1>1, <1>7, <2>1, <3>1, <3>2 DEF Shown
  <2>2. CASE base.n = 0
    BY <1>1, <2>2 DEF Shown
  <2> QED
    BY <1>1, <2>1, <2>2, TypeFacts
<1>11. Pane'
  BY <1>1, <1>3, <1>4, PaneStays
<1> QED
  BY <1>5, <1>6, <1>9, <1>10, <1>11 DEF IInv

LEMMA ForwardIInv == \A m \in Msgs : IInv /\ Forward(m) => IInv'
<1> SUFFICES ASSUME NEW m \in Msgs, IInv, Forward(m) PROVE IInv'
  OBVIOUS
<1>1. /\ UNCHANGED <<made, up, at, ended, via, net, table, opened, pane, asked, base, late, raced>>
      /\ TypeOK /\ OneCopy /\ pc[m] = "saved" /\ pc' = [pc EXCEPT ![m] = "done"] /\ ~Flying(m)
  BY DEF Forward, IInv, conns, page, OneCopy
<1>2. \A k \in Msgs : pc'[k] = IF k = m THEN "done" ELSE pc[k]
  BY <1>1 DEF TypeOK
<1>3. CASE gone' = gone \cup ({m} \cap Stored) /\ UNCHANGED chan
  <2>1. TypeOK'
    BY <1>1, <1>3 DEF TypeOK
  <2>2. \A k \in Msgs : Flying(k)' <=> Flying(k)
    BY <1>1, <1>3 DEF Flying
  <2>3. OneCopy'
    BY <1>1, <1>2, <1>3, <2>2 DEF OneCopy, Stored, Injective
  <2>4. \A k \in Msgs : k \in Coming' <=> k \in Coming /\ k # m
    <3>1. \A k \in Msgs : k \in Coming' <=> pc'[k] \in {"wire", "saved"} \/ Flying(k)'
      BY DEF Coming, Flying
    <3> QED
      BY <1>1, <1>2, <2>2, <3>1, ComingFacts
  <2>5. Replies' /\ Shown'
    <3>1. Coming \cap Stored \subseteq Coming' \cup gone'
      BY <1>3, <2>4 DEF Coming
    <3> QED
      BY <1>1, <1>3, <3>1, StillAccounted
  <2>6. Pane'
    BY <1>1, <1>2, <2>4, PaneStays
  <2> QED
    BY <2>1, <2>3, <2>5, <2>6 DEF IInv
<1>4. ASSUME NEW c \in Mine, chan' = [chan EXCEPT ![c] = Append(@, m)], UNCHANGED gone PROVE IInv'
  <2>1. /\ chan \in [Mine -> Seq(Msgs)] /\ m \notin Elems(chan[c]) /\ Injective(chan[c])
        /\ \A d \in Mine : m \notin Elems(chan[d]) /\ m \notin Elems(net[d])
    BY <1>1 DEF TypeOK, OneCopy, Flying
  <2>2. /\ chan'[c] = Append(chan[c], m) /\ chan'[c] \in Seq(Msgs)
        /\ Elems(chan'[c]) = Elems(chan[c]) \cup {m} /\ Injective(chan'[c])
        /\ \A d \in Mine \ {c} : chan'[d] = chan[d]
    BY <1>4, <2>1, AppendFacts
  <2>3. TypeOK'
    <3>1. chan' \in [Mine -> Seq(Msgs)]
      BY <1>4, <2>1, <2>2
    <3> QED
      BY <1>1, <1>4, <3>1 DEF TypeOK
  <2>4. \A k \in Msgs : Flying(k)' <=> Flying(k) \/ k = m
    BY <1>1, <2>2 DEF Flying
  <2>5. OneCopy'
    <3>1. \A d \in Mine : Injective(chan'[d]) /\ Injective(net'[d])
      BY <1>1, <2>2 DEF OneCopy
    <3>2. \A d, e \in Mine : /\ d # e => /\ Elems(chan'[d]) \cap Elems(chan'[e]) = {}
                                         /\ Elems(net'[d]) \cap Elems(net'[e]) = {}
                             /\ Elems(chan'[d]) \cap Elems(net'[e]) = {}
      <4>1. \A d \in Mine : Elems(net'[d]) = Elems(net[d])
        BY <1>1
      <4>2. \A d \in Mine \ {c} : Elems(chan'[d]) = Elems(chan[d])
        BY <2>2
      <4>3. \A d \in Mine : Elems(chan'[d]) \subseteq Elems(chan[d]) \cup {m}
        BY <2>2, <4>2
      <4>4. \A d, e \in Mine : /\ d # e => /\ Elems(chan[d]) \cap Elems(chan[e]) = {}
                                           /\ Elems(net[d]) \cap Elems(net[e]) = {}
                               /\ Elems(chan[d]) \cap Elems(net[e]) = {}
        BY <1>1 DEF OneCopy
      <4>5. \A d, e \in Mine : d # e => Elems(chan'[d]) \cap Elems(chan'[e]) = {}
        <5> SUFFICES ASSUME NEW d \in Mine, NEW e \in Mine, d # e
                     PROVE  Elems(chan'[d]) \cap Elems(chan'[e]) = {}
          OBVIOUS
        <5>1. CASE d # c /\ e # c
          BY <4>2, <4>4, <5>1
        <5>2. CASE d = c
          BY <2>1, <2>2, <4>2, <4>4, <5>2
        <5>3. CASE e = c
          BY <2>1, <2>2, <4>2, <4>4, <5>3
        <5> QED
          BY <5>1, <5>2, <5>3
      <4> QED
        BY <2>1, <4>1, <4>3, <4>4, <4>5
    <3>3. \A k \in Msgs : /\ pc'[k] # "done" => ~Flying(k)'
                          /\ pc'[k] \in {"unsent", "wire"} => k \notin Stored'
      BY <1>1, <1>2, <2>4 DEF OneCopy, Stored
    <3>4. Injective(table)'
      BY <1>1 DEF OneCopy, Injective
    <3> QED
      BY <3>1, <3>2, <3>3, <3>4 DEF OneCopy
  <2>6. \A k \in Msgs : k \in Coming' <=> k \in Coming
    <3>1. \A k \in Msgs : k \in Coming' <=> pc'[k] \in {"wire", "saved"} \/ Flying(k)'
      BY DEF Coming, Flying
    <3> QED
      BY <1>1, <1>2, <2>4, <3>1, ComingFacts
  <2>7. Replies' /\ Shown'
    <3>1. Coming \cap Stored \subseteq Coming' \cup gone'
      BY <2>6 DEF Coming
    <3> QED
      BY <1>1, <1>4, <3>1, StillAccounted
  <2>8. Pane'
    BY <1>1, <1>2, <2>6, PaneStays
  <2> QED
    BY <2>3, <2>5, <2>7, <2>8 DEF IInv
<1>5. PICK to : /\ to \subseteq Mine
                /\ \/ gone' = gone \cup ({m} \cap Stored) /\ UNCHANGED chan
                   \/ /\ \E c \in to : chan' = [chan EXCEPT ![c] = Append(@, m)]
                      /\ UNCHANGED gone
  <2> DEFINE to == IF via[m] \in Mine THEN {via[m]} ELSE {c \in Mine : at[c] = at[via[m]]}
  <2>1. to \subseteq Mine
    OBVIOUS
  <2> QED
    BY <2>1 DEF Forward
<1> QED
  BY <1>3, <1>4, <1>5

LEMMA WriteIInv == \A c \in Mine : IInv /\ Write(c) => IInv'
<1> SUFFICES ASSUME NEW c \in Mine, IInv, Write(c) PROVE IInv'
  OBVIOUS
<1>1. /\ UNCHANGED <<made, up, at, ended, pc, via, table, opened, pane, asked, base, late, raced>>
      /\ TypeOK /\ OneCopy /\ chan[c] # <<>> /\ chan' = [chan EXCEPT ![c] = <<>>]
  BY DEF Write, IInv, conns, page
<1>2. /\ chan \in [Mine -> Seq(Msgs)] /\ net \in [Mine -> Seq(Msgs)] /\ gone \subseteq Msgs
      /\ chan' \in [Mine -> Seq(Msgs)] /\ chan'[c] = <<>> /\ Elems(chan'[c]) = {}
      /\ \A d \in Mine \ {c} : chan'[d] = chan[d]
      /\ Elems(chan[c]) \subseteq Msgs
  <2>1. chan \in [Mine -> Seq(Msgs)] /\ net \in [Mine -> Seq(Msgs)] /\ gone \subseteq Msgs
    BY <1>1 DEF TypeOK
  <2>2. Elems(<<>>) = {} /\ <<>> \in Seq(Msgs)
    BY DEF Elems
  <2> QED
    BY <1>1, <2>1, <2>2, TypeFacts
<1>3. CASE gone' = gone \cup (Elems(chan[c]) \cap Stored) /\ UNCHANGED net
  <2>1. TypeOK'
    BY <1>1, <1>2, <1>3 DEF TypeOK
  <2>2. OneCopy' /\ Coming' \cap Msgs \subseteq Coming
    BY <1>1, <1>2, <1>3, FewerCopies
  <2>3. Coming \cap Stored \subseteq Coming' \cup gone'
    BY <1>1, <1>2, <1>3 DEF Coming
  <2>4. Replies' /\ Shown'
    BY <1>1, <1>3, <2>3, StillAccounted
  <2>5. Pane'
    BY <1>1, <2>2, PaneStays
  <2> QED
    BY <2>1, <2>2, <2>4, <2>5 DEF IInv
<1>4. CASE Len(chan[c]) = 1 /\ net' = [net EXCEPT ![c] = Append(@, Head(chan[c]))] /\ UNCHANGED gone
  <2>1. PICK m \in Msgs : m = Head(chan[c]) /\ Elems(chan[c]) = {m}
    <3>1. Len(Tail(chan[c])) = 0 /\ Elems(chan[c]) = Elems(Tail(chan[c])) \cup {Head(chan[c])}
          /\ Tail(chan[c]) \in Seq(Msgs) /\ Head(chan[c]) \in Msgs
      BY <1>1, <1>2, <1>4, TailFacts
    <3>2. Elems(Tail(chan[c])) = {}
      BY <3>1 DEF Elems
    <3> QED
      BY <3>1, <3>2
  <2>2. \A d \in Mine : m \notin Elems(net[d]) /\ (d # c => m \notin Elems(chan[d]))
    BY <1>1, <2>1 DEF OneCopy
  <2>3. /\ net'[c] \in Seq(Msgs) /\ Elems(net'[c]) = Elems(net[c]) \cup {m} /\ Injective(net'[c])
        /\ \A d \in Mine \ {c} : net'[d] = net[d]
    <3>1. net'[c] = Append(net[c], m) /\ net[c] \in Seq(Msgs) /\ Injective(net[c])
      BY <1>1, <1>2, <1>4, <2>1 DEF OneCopy
    <3> QED
      BY <1>2, <1>4, <2>2, <3>1, AppendFacts
  <2>4. TypeOK'
    <3>1. net' \in [Mine -> Seq(Msgs)]
      BY <1>2, <1>4, <2>3
    <3> QED
      BY <1>1, <1>2, <1>4, <3>1 DEF TypeOK
  <2>5. \A k \in Msgs : Flying(k)' <=> Flying(k)
    <3>1. \A k \in Msgs : Flying(k)' => Flying(k)
      BY <1>2, <2>1, <2>3 DEF Flying
    <3>2. \A k \in Msgs : Flying(k) => Flying(k)'
      <4> SUFFICES ASSUME NEW k \in Msgs, NEW d \in Mine, k \in Elems(chan[d]) \cup Elems(net[d])
                   PROVE  Flying(k)'
        BY DEF Flying
      <4>1. CASE d # c
        BY <1>2, <2>3, <4>1 DEF Flying
      <4>2. CASE d = c
        BY <2>1, <2>3, <4>2 DEF Flying
      <4> QED
        BY <4>1, <4>2
    <3> QED
      BY <3>1, <3>2
  <2>6. OneCopy'
    <3>1. \A d \in Mine : Injective(chan'[d]) /\ Injective(net'[d])
      <4>1. Injective(<<>>)
        BY DEF Injective
      <4> QED
        BY <1>1, <1>2, <2>3, <4>1 DEF OneCopy
    <3>2. \A d, e \in Mine : /\ d # e => /\ Elems(chan'[d]) \cap Elems(chan'[e]) = {}
                                         /\ Elems(net'[d]) \cap Elems(net'[e]) = {}
                             /\ Elems(chan'[d]) \cap Elems(net'[e]) = {}
      BY <1>1, <1>2, <2>2, <2>3 DEF OneCopy
    <3>3. \A k \in Msgs : /\ pc'[k] # "done" => ~Flying(k)'
                          /\ pc'[k] \in {"unsent", "wire"} => k \notin Stored'
      BY <1>1, <2>5 DEF OneCopy, Stored
    <3>4. Injective(table)'
      BY <1>1 DEF OneCopy, Injective
    <3> QED
      BY <3>1, <3>2, <3>3, <3>4 DEF OneCopy
  <2>7. \A k \in Msgs : k \in Coming' <=> k \in Coming
    <3>1. \A k \in Msgs : k \in Coming' <=> pc'[k] \in {"wire", "saved"} \/ Flying(k)'
      BY DEF Coming, Flying
    <3> QED
      BY <1>1, <2>5, <3>1, ComingFacts
  <2>8. Replies' /\ Shown'
    <3>1. Coming \cap Stored \subseteq Coming' \cup gone'
      BY <2>7 DEF Coming
    <3> QED
      BY <1>1, <1>4, <3>1, StillAccounted
  <2>9. Pane'
    BY <1>1, <2>7, PaneStays
  <2> QED
    BY <2>4, <2>6, <2>8, <2>9 DEF IInv
<1> QED
  BY <1>3, <1>4 DEF Write

-----------------------------------------------------------------------------
(* The page.                                                               *)

LEMMA ArriveIInv == \A c \in Mine : IInv /\ Arrive(c) => IInv'
<1> SUFFICES ASSUME NEW c \in Mine, IInv, Arrive(c) PROVE IInv'
  OBVIOUS
<1>1. /\ UNCHANGED <<made, up, at, ended, pc, via, chan, table, opened, asked, base, late, gone>>
      /\ TypeOK /\ OneCopy /\ Replies /\ Shown /\ Pane /\ net[c] # <<>>
      /\ net' = [net EXCEPT ![c] = Tail(@)] /\ net \in [Mine -> Seq(Msgs)] /\ net[c] \in Seq(Msgs)
  BY DEF Arrive, IInv, conns, TypeOK
<1>2. PICK m \in Msgs : m = Head(net[c])
  BY <1>1, TailFacts
<1>3. /\ pane' = IF opened THEN Append(pane, m) ELSE pane
      /\ raced' = IF \E r \in Asks : asked[r].st = "read" /\ m \notin Elems(asked[r].rows)
                  THEN raced \cup ({m} \cap Stored) ELSE raced
  BY <1>2 DEF Arrive
<1>4. /\ net'[c] = Tail(net[c]) /\ net'[c] \in Seq(Msgs) /\ Injective(net'[c])
      /\ Elems(net[c]) = Elems(net'[c]) \cup {m} /\ m \notin Elems(net'[c])
      /\ \A d \in Mine \ {c} : net'[d] = net[d]
  <2>1. net'[c] = Tail(net[c]) /\ Injective(net[c])
    BY <1>1 DEF OneCopy
  <2> QED
    BY <1>1, <1>2, <2>1, TailFacts
<1>5. /\ \A d \in Mine : m \notin Elems(net'[d]) /\ m \notin Elems(chan[d])
      /\ Flying(m) /\ pc[m] = "done" /\ m \in Coming
  <2>1. Flying(m)
    BY <1>4 DEF Flying
  <2>2. \A d \in Mine : m \notin Elems(net'[d]) /\ m \notin Elems(chan[d])
    BY <1>1, <1>4 DEF OneCopy
  <2>3. pc[m] = "done"
    BY <1>1, <2>1 DEF OneCopy
  <2> QED
    BY <2>1, <2>2, <2>3, ComingFacts
<1>6. \A k \in Msgs : Flying(k)' <=> Flying(k) /\ k # m
  <2>1. \A k \in Msgs : Flying(k)' => Flying(k) /\ k # m
    BY <1>1, <1>4, <1>5 DEF Flying
  <2>2. \A k \in Msgs : Flying(k) /\ k # m => Flying(k)'
    BY <1>1, <1>4 DEF Flying
  <2> QED
    BY <2>1, <2>2
<1>7. \A k \in Msgs : k \in Coming' <=> k \in Coming /\ k # m
  <2>1. \A k \in Msgs : k \in Coming' <=> pc'[k] \in {"wire", "saved"} \/ Flying(k)'
    BY DEF Coming, Flying
  <2> QED
    BY <1>1, <1>5, <1>6, <2>1, ComingFacts
<1>8. Coming \subseteq Coming' \cup {m}
  BY <1>7 DEF Coming
<1>9. pane \in Seq(Msgs) /\ Len(pane) \in Nat /\ Len(base.rows) \in Nat /\ raced \subseteq Msgs
  BY <1>1, TypeFacts DEF TypeOK
<1>10. TypeOK'
  <2>1. net' \in [Mine -> Seq(Msgs)]
    BY <1>1, <1>4
  <2>2. pane' \in Seq(Msgs) /\ raced' \subseteq Msgs
    BY <1>3, <1>9
  <2> QED
    BY <1>1, <2>1, <2>2 DEF TypeOK
<1>11. OneCopy'
  <2>1. \A d \in Mine : Injective(chan'[d]) /\ Injective(net'[d])
    BY <1>1, <1>4 DEF OneCopy
  <2>2. \A d \in Mine : Elems(chan'[d]) = Elems(chan[d]) /\ Elems(net'[d]) \subseteq Elems(net[d])
    <3>1. \A d \in Mine \ {c} : Elems(net'[d]) = Elems(net[d])
      BY <1>4
    <3>2. \A d \in Mine : Elems(chan'[d]) = Elems(chan[d])
      BY <1>1
    <3> QED
      BY <1>4, <3>1, <3>2
  <2>3. \A d, e \in Mine : /\ d # e => /\ Elems(chan'[d]) \cap Elems(chan'[e]) = {}
                                       /\ Elems(net'[d]) \cap Elems(net'[e]) = {}
                           /\ Elems(chan'[d]) \cap Elems(net'[e]) = {}
    BY <1>1, <2>2 DEF OneCopy
  <2>4. \A k \in Msgs : /\ pc'[k] # "done" => ~Flying(k)'
                        /\ pc'[k] \in {"unsent", "wire"} => k \notin Stored'
    BY <1>1, <1>6 DEF OneCopy, Stored
  <2>5. Injective(table)'
    BY <1>1 DEF OneCopy, Injective
  <2> QED
    BY <2>1, <2>3, <2>4, <2>5 DEF OneCopy
<1>12. \A n : Newest(n)' = Newest(n) /\ Since(n)' = Since(n)
  BY <1>1 DEF Newest, Since
<1>13. Replies'
  <2>1. \A r \in Asks : asked[r].st = "read" => Accounted(asked[r])'
    <3> SUFFICES ASSUME NEW r \in Asks, asked[r].st = "read" PROVE Accounted(asked[r])'
      OBVIOUS
    <3>1. /\ opened /\ asked[r].n <= Len(table) /\ asked[r].rows = Newest(asked[r].n)
          /\ Since(asked[r].n) \subseteq Coming \cup gone \cup raced /\ asked[r].n \in Nat
      BY <1>1, TypeFacts DEF Replies, Accounted
    <3>2. Elems(asked[r].rows) \cap Since(asked[r].n) = {}
      BY <1>1, <3>1, NewestFacts, TypeFacts DEF OneCopy
    <3>3. m \in Since(asked[r].n) => m \in raced'
      <4>1. Since(asked[r].n) \subseteq Stored
        BY <3>1 DEF Since, Stored, Elems
      <4> QED
        BY <1>3, <3>2, <4>1
    <3>4. Since(asked[r].n) \subseteq Coming' \cup gone \cup raced'
      BY <1>3, <1>8, <3>1, <3>3
    <3> QED
      BY <1>1, <1>12, <3>1, <3>4 DEF Accounted
  <2> QED
    BY <1>1, <2>1 DEF Replies
<1>14. Shown'
  <2>1. CASE base.n > 0
    <3>1. /\ opened /\ base.n <= Len(table) /\ base.rows = Newest(base.n)
          /\ Since(base.n) \subseteq Elems(pane) \cup Coming \cup gone \cup raced
      BY <1>1, <2>1 DEF Shown
    <3>2. Elems(pane') = Elems(pane) \cup {m} /\ raced \subseteq raced'
      BY <1>3, <1>9, <3>1, AppendFacts
    <3>3. Since(base.n) \subseteq Elems(pane') \cup Coming' \cup gone \cup raced'
      BY <1>8, <3>1, <3>2
    <3> QED
      BY <1>1, <1>12, <2>1, <3>1, <3>3 DEF Shown
  <2>2. CASE base.n = 0
    BY <1>1, <2>2 DEF Shown
  <2> QED
    BY <1>1, <2>1, <2>2, TypeFacts
<1>15. CASE ~opened
  <2>1. Pane'
    BY <1>1, <1>3, <1>7, <1>15, PaneStays
  <2> QED
    BY <1>10, <1>11, <1>13, <1>14, <2>1 DEF IInv
<1>16. CASE opened
  <2>1. /\ Len(pane') = Len(pane) + 1 /\ pane'[Len(pane) + 1] = m
        /\ \A k \in 1..Len(pane) : pane'[k] = pane[k]
    BY <1>3, <1>9, <1>16
  <2>2. /\ \A k \in Behind' : k \in Behind \/ k = Len(pane) + 1
        /\ \A k \in Behind : k \in 1..Len(pane) /\ pane[k] \in Msgs
    BY <1>1, <1>9, <2>1, ElementFacts DEF Behind
  <2>3. \A k \in Behind : pane[k] # m
    BY <1>1, <1>5 DEF Pane
  <2>4. Len(base.rows) <= Len(pane') /\ \A k \in DOMAIN base.rows : pane'[k] = base.rows[k]
    <3>1. \A k \in DOMAIN base.rows : k \in 1..Len(pane)
      BY <1>1, <1>9, TypeFacts DEF Pane
    <3>2. \A k \in DOMAIN base.rows : pane[k] = base.rows[k]
      BY <1>1 DEF Pane
    <3>3. Len(base.rows) <= Len(pane)
      BY <1>1 DEF Pane
    <3> QED
      BY <1>9, <2>1, <3>1, <3>2, <3>3
  <2>5. \A j, k \in Behind' : pane'[j] = pane'[k] => j = k
    BY <1>1, <2>1, <2>2, <2>3 DEF Pane
  <2>6. \A k \in Behind' : /\ pane'[k] \notin Coming' /\ pc'[pane'[k]] # "unsent"
                           /\ pane'[k] \in Elems(base.rows) => pane'[k] \in late
    <3> SUFFICES ASSUME NEW k \in Behind'
                 PROVE  /\ pane'[k] \notin Coming' /\ pc[pane'[k]] # "unsent"
                        /\ pane'[k] \in Elems(base.rows) => pane'[k] \in late
      BY <1>1
    <3>1. CASE k \in Behind
      BY <1>1, <1>7, <2>1, <2>2, <3>1 DEF Pane
    <3>2. CASE k = Len(pane) + 1
      BY <1>1, <1>5, <1>7, <2>1, <3>2 DEF Pane
    <3> QED
      BY <2>2, <3>1, <3>2
  <2>7. Coming' \cap Elems(base.rows) \subseteq late
    BY <1>1, <1>7 DEF Pane, Coming
  <2>8. Pane'
    BY <1>1, <2>4, <2>5, <2>6, <2>7 DEF Pane
  <2> QED
    BY <1>10, <1>11, <1>13, <1>14, <2>8 DEF IInv
<1> QED
  BY <1>15, <1>16

(* The steps of the requests leave rows and live copies alone. *)
LEMMA RowsStay ==
    ASSUME UNCHANGED <<pc, chan, net, table, gone, raced>>
    PROVE  /\ Coming' = Coming /\ \A n : Newest(n)' = Newest(n) /\ Since(n)' = Since(n)
           /\ \A k : Flying(k)' <=> Flying(k)
           /\ OneCopy => OneCopy'
<1>1. Coming' = Coming /\ \A n : Newest(n)' = Newest(n) /\ Since(n)' = Since(n)
  BY DEF Coming, Newest, Since
<1>2. \A k : Flying(k)' <=> Flying(k)
  BY DEF Flying
<1>3. OneCopy => OneCopy'
  BY <1>2 DEF OneCopy, Injective, Stored
<1> QED
  BY <1>1, <1>2, <1>3

LEMMA OpenIInv == \A r \in Asks : IInv /\ Open(r) => IInv'
<1> SUFFICES ASSUME NEW r \in Asks, IInv, Open(r) PROVE IInv'
  OBVIOUS
<1>1. /\ UNCHANGED <<made, up, at, ended, pc, via, chan, net, table, gone, raced>>
      /\ TypeOK /\ OneCopy /\ Replies /\ Shown /\ Pane
      /\ opened' = TRUE /\ asked' = [asked EXCEPT ![r].st = "sent"] /\ asked \in [Asks -> Reply]
      /\ \/ UNCHANGED <<pane, base, late>>
         \/ pane' = <<>> /\ base' = NoReply /\ late' = {}
  BY DEF Open, IInv, conns, live, TypeOK
<1>2. /\ Coming' = Coming /\ \A n : Newest(n)' = Newest(n) /\ Since(n)' = Since(n)
      /\ OneCopy'
  BY <1>1, RowsStay
<1>3. /\ asked' \in [Asks -> Reply] /\ asked'[r].st = "sent"
      /\ \A q \in Asks : q # r => asked'[q] = asked[q]
      /\ \A q \in Asks : asked'[q].rows = asked[q].rows
  BY <1>1 DEF Reply
<1>4. NoReply \in Reply /\ NoReply.rows = <<>> /\ NoReply.n = 0
  BY DEF NoReply, Reply
<1>5. TypeOK'
  <2>1. \A q \in Asks : Len(asked'[q].rows) <= Limit
    BY <1>1, <1>3 DEF TypeOK
  <2>2. pane' \in Seq(Msgs) /\ base' \in Reply /\ late' \subseteq Msgs
    <3>1. pane \in Seq(Msgs) /\ base \in Reply /\ late \subseteq Msgs
      BY <1>1 DEF TypeOK
    <3>2. <<>> \in Seq(Msgs)
      OBVIOUS
    <3> QED
      BY <1>1, <1>4, <3>1, <3>2
  <2> QED
    BY <1>1, <1>3, <2>1, <2>2 DEF TypeOK
<1>6. Replies'
  <2>1. ASSUME NEW q \in Asks, asked'[q].st = "read" PROVE Accounted(asked[q])'
    <3>1. asked'[q] = asked[q]
      BY <1>3, <2>1
    <3>2. Accounted(asked[q])
      BY <1>1, <2>1, <3>1 DEF Replies
    <3> QED
      BY <1>1, <1>2, <3>1, <3>2 DEF Accounted
  <2> QED
    BY <1>1, <2>1 DEF Replies
<1>7. CASE UNCHANGED <<pane, base, late>>
  <2>1. Shown'
    BY <1>1, <1>2, <1>7 DEF Shown
  <2>2. Pane'
    BY <1>1, <1>2, <1>7, PaneStays
  <2> QED
    BY <1>2, <1>5, <1>6, <2>1, <2>2 DEF IInv
<1>8. CASE pane' = <<>> /\ base' = NoReply /\ late' = {}
  <2>1. Shown'
    BY <1>4, <1>8 DEF Shown
  <2>2. Pane'
    <3>1. Len(pane') = 0 /\ Len(base'.rows) = 0 /\ DOMAIN base'.rows = {} /\ Elems(base'.rows) = {}
      BY <1>4, <1>8 DEF Elems
    <3>2. Behind' = {}
      BY <3>1 DEF Behind
    <3> QED
      BY <3>1, <3>2 DEF Pane
  <2> QED
    BY <1>2, <1>5, <1>6, <2>1, <2>2 DEF IInv
<1> QED
  BY <1>1, <1>7, <1>8

LEMMA ReadIInv == \A r \in Asks : IInv /\ ReadHistory(r) => IInv'
<1> SUFFICES ASSUME NEW r \in Asks, IInv, ReadHistory(r) PROVE IInv'
  OBVIOUS
<1> DEFINE a == [st |-> "read", rows |-> Newest(Len(table)), n |-> Len(table)]
<1>1. /\ UNCHANGED <<made, up, at, ended, pc, via, chan, net, table, gone, raced, opened, pane,
                     base, late>>
      /\ TypeOK /\ OneCopy /\ Replies /\ Shown /\ Pane /\ opened
      /\ asked' = [asked EXCEPT ![r] = a] /\ asked \in [Asks -> Reply]
  BY DEF ReadHistory, IInv, conns, live, notes, TypeOK, Replies, Rows
<1>2. /\ Coming' = Coming /\ \A n : Newest(n)' = Newest(n) /\ Since(n)' = Since(n)
      /\ OneCopy'
  BY <1>1, RowsStay
<1>3. /\ a \in Reply /\ Len(a.rows) <= Limit /\ Since(a.n) = {} /\ a.n = Len(table)
  <2>1. Newest(Len(table)) \in Seq(Msgs) /\ Len(Newest(Len(table))) <= Limit /\ Len(table) \in Nat
    BY <1>1, NewestFacts, TypeFacts
  <2>2. Since(Len(table)) = {}
    BY <2>1 DEF Since
  <2> QED
    BY <2>1, <2>2 DEF Reply
<1>4. /\ asked' \in [Asks -> Reply] /\ asked'[r] = a
      /\ \A q \in Asks : q # r => asked'[q] = asked[q]
  BY <1>1, <1>3
<1>5. TypeOK'
  <2>1. \A q \in Asks : Len(asked'[q].rows) <= Limit
    BY <1>1, <1>3, <1>4 DEF TypeOK
  <2> QED
    BY <1>1, <1>4, <2>1 DEF TypeOK
<1>6. Replies'
  <2>1. ASSUME NEW q \in Asks, asked'[q].st = "read" PROVE Accounted(asked[q])'
    <3>1. CASE q # r
      BY <1>1, <1>2, <1>4, <2>1, <3>1 DEF Replies, Accounted
    <3>2. CASE q = r
      <4>1. asked'[q].n = Len(table) /\ asked'[q].rows = Newest(Len(table))
        BY <1>4, <3>2
      <4> QED
        BY <1>1, <1>2, <1>3, <4>1, TypeFacts DEF Accounted
    <3> QED
      BY <3>1, <3>2
  <2> QED
    BY <1>1, <2>1 DEF Replies
<1>7. Shown'
  BY <1>1, <1>2 DEF Shown
<1>8. Pane'
  BY <1>1, <1>2, PaneStays
<1> QED
  BY <1>2, <1>5, <1>6, <1>7, <1>8 DEF IInv

LEMMA SettleIInv ==
    ASSUME NEW r \in Asks, IInv, Show(r) \/ Fail(r)
    PROVE  IInv'
<1> DEFINE a == [NoReply EXCEPT !.st = "over"]
<1>1. /\ UNCHANGED <<made, up, at, ended, pc, via, chan, net, table, gone, raced, opened>>
      /\ TypeOK /\ OneCopy /\ Replies /\ Shown /\ Pane /\ opened
      /\ asked' = [asked EXCEPT ![r] = a] /\ asked \in [Asks -> Reply]
      /\ \/ UNCHANGED <<pane, base, late>>
         \/ /\ asked[r].st = "read" /\ asked[r].rows # <<>>
            /\ pane' = asked[r].rows /\ base' = asked[r] /\ late' = Coming
  BY DEF Show, Fail, IInv, conns, live, notes, TypeOK, Replies
<1>2. /\ Coming' = Coming /\ \A n : Newest(n)' = Newest(n) /\ Since(n)' = Since(n)
      /\ OneCopy'
  BY <1>1, RowsStay
<1>3. a \in Reply /\ Len(a.rows) <= Limit /\ a.st = "over"
  <2>1. a = [st |-> "over", rows |-> <<>>, n |-> 0]
    BY DEF NoReply
  <2>2. Len(<<>>) = 0 /\ <<>> \in Seq(Msgs) /\ Limit \in Nat
    BY ChatAssumption
  <2> HIDE DEF a
  <2> QED
    BY <2>1, <2>2 DEF Reply
<1>4. /\ asked' \in [Asks -> Reply] /\ asked'[r] = a
      /\ \A q \in Asks : q # r => asked'[q] = asked[q]
  BY <1>1, <1>3
<1>5. TypeOK'
  <2>1. \A q \in Asks : Len(asked'[q].rows) <= Limit
    BY <1>1, <1>3, <1>4 DEF TypeOK
  <2>2. pane' \in Seq(Msgs) /\ base' \in Reply /\ late' \subseteq Msgs
    <3>1. asked[r] \in Reply /\ asked[r].rows \in Seq(Msgs) /\ Coming \subseteq Msgs
      BY <1>1, TypeFacts DEF Coming
    <3> QED
      BY <1>1, <3>1 DEF TypeOK
  <2> QED
    BY <1>1, <1>4, <2>1, <2>2 DEF TypeOK
<1>6. Replies'
  <2>1. ASSUME NEW q \in Asks, asked'[q].st = "read" PROVE Accounted(asked[q])'
    <3>1. q # r /\ asked'[q] = asked[q]
      BY <1>3, <1>4, <2>1
    <3> QED
      BY <1>1, <1>2, <2>1, <3>1 DEF Replies, Accounted
  <2> QED
    BY <1>1, <2>1 DEF Replies
<1>7. CASE UNCHANGED <<pane, base, late>>
  <2>1. Shown'
    BY <1>1, <1>2, <1>7 DEF Shown
  <2>2. Pane'
    BY <1>1, <1>2, <1>7, PaneStays
  <2> QED
    BY <1>2, <1>5, <1>6, <2>1, <2>2 DEF IInv
<1>8. CASE /\ asked[r].st = "read" /\ asked[r].rows # <<>>
           /\ pane' = asked[r].rows /\ base' = asked[r] /\ late' = Coming
  <2>1. Accounted(asked[r]) /\ asked[r].n \in Nat /\ asked[r].rows \in Seq(Msgs)
    BY <1>1, <1>8, TypeFacts DEF Replies
  <2>2. asked[r].n # 0
    <3> SUFFICES ASSUME asked[r].n = 0 PROVE FALSE
      OBVIOUS
    <3>1. Newest(0) = <<>>
      BY <1>1, NewestFacts, TypeFacts
    <3> QED
      BY <1>8, <2>1, <3>1 DEF Accounted
  <2>3. Shown'
    BY <1>1, <1>2, <1>8, <2>1, <2>2 DEF Shown, Accounted
  <2>4. Pane'
    <3>1. pane' = base'.rows /\ Len(pane') \in Nat
      BY <1>8, <2>1
    <3>2. Behind' = {}
      BY <3>1 DEF Behind
    <3> QED
      BY <1>2, <1>8, <3>1, <3>2 DEF Pane
  <2> QED
    BY <1>2, <1>5, <1>6, <2>3, <2>4 DEF IInv
<1> QED
  BY <1>1, <1>7, <1>8

-----------------------------------------------------------------------------
LEMMA NextIInv == IInv /\ [Next]_vars => IInv'
<1> SUFFICES ASSUME IInv, [Next]_vars PROVE IInv'
  OBVIOUS
<1>1. CASE UNCHANGED vars
  <2>1. UNCHANGED <<live, table, page, notes, conns>>
    BY <1>1 DEF vars
  <2>2. TypeOK'
    BY <2>1 DEF IInv, TypeOK, conns, live, page, notes
  <2> QED
    BY <2>1, <2>2, Quiet
<1>2. CASE \E c \in Conns : \/ Connect(c) \/ Drop(c) \/ Unregister(c)
                            \/ \E i \in Insts : Register(c, i)
  BY <1>2, ConnectIInv, DropIInv, UnregisterIInv, RegisterIInv
<1>3. CASE \E m \in Msgs : \/ \E c \in Conns : Send(m, c)
                           \/ Throttle(m) \/ Save(m) \/ Forward(m)
  BY <1>3, SendIInv, ThrottleIInv, SaveIInv, ForwardIInv
<1>4. CASE \E c \in Mine : Write(c) \/ Arrive(c)
  BY <1>4, WriteIInv, ArriveIInv
<1>5. CASE \E r \in Asks : Open(r) \/ ReadHistory(r) \/ Show(r) \/ Fail(r)
  BY <1>5, OpenIInv, ReadIInv, SettleIInv
<1> QED
  BY <1>1, <1>2, <1>3, <1>4, <1>5 DEF Next

THEOREM Invariant == Spec => []IInv
BY InitIInv, NextIInv, PTL DEF Spec

(* Types, one open connection per page, no history beyond its limit. *)
THEOREM TypeCorrect == Spec => []TypeOK
<1>1. IInv => TypeOK
  BY DEF IInv
<1> QED
  BY <1>1, Invariant, PTL

LEMMA AtMostOne ==
    ASSUME NEW S, \A j, k \in S : j = k
    PROVE  IsFiniteSet(S) /\ Cardinality(S) <= 1 /\ Cardinality(S) \in Nat
<1>1. CASE S = {}
  BY <1>1, FS_EmptySet
<1>2. CASE S # {}
  <2>1. PICK k : S = {k}
    BY <1>2
  <2>2. IsFiniteSet({k}) /\ Cardinality({k}) = 1
    BY FS_Singleton
  <2> QED
    BY <2>1, <2>2
<1> QED
  BY <1>1, <1>2

(* A message is in the pane twice at most, and then because its live copy  *)
(* was on its way when a history with it was shown.                        *)
THEOREM TwiceOnlyIfLate == Spec => []ShownTwiceOnlyIfLate
<1>1. IInv => ShownTwiceOnlyIfLate
  <2> SUFFICES ASSUME IInv, NEW m \in Msgs
               PROVE  /\ Cardinality(Places(m)) <= 2
                      /\ Cardinality(Places(m)) = 2 => m \in late \cap Elems(base.rows)
    BY DEF ShownTwiceOnlyIfLate
  <2> DEFINE old == {k \in DOMAIN base.rows : base.rows[k] = m}
             new == {k \in Behind : pane[k] = m}
  <2>1. TypeOK /\ Pane /\ Injective(base.rows)
    BY BaseFacts DEF IInv
  <2>2. /\ Len(pane) \in Nat /\ Len(base.rows) \in Nat /\ Len(base.rows) <= Len(pane)
        /\ DOMAIN pane = 1..Len(pane) /\ DOMAIN base.rows = 1..Len(base.rows)
    BY <2>1, TypeFacts DEF Pane
  <2>3. Places(m) = old \cup new
    <3>1. \A k \in DOMAIN pane : k \in DOMAIN base.rows \/ k \in Behind
      BY <2>2 DEF Behind
    <3>2. DOMAIN base.rows \subseteq DOMAIN pane /\ Behind \subseteq DOMAIN pane
      BY <2>2 DEF Behind
    <3>3. \A k \in DOMAIN base.rows : pane[k] = base.rows[k]
      BY <2>1 DEF Pane
    <3> QED
      BY <3>1, <3>2, <3>3 DEF Places
  <2>4. \A j, k \in old : j = k
    BY <2>1 DEF Injective
  <2>5. \A j, k \in new : j = k
    BY <2>1 DEF Pane
  <2>6. IsFiniteSet(old) /\ Cardinality(old) <= 1 /\ Cardinality(old) \in Nat
    <3> HIDE DEF old, new
    <3> QED
      BY <2>4, AtMostOne
  <2>7. IsFiniteSet(new) /\ Cardinality(new) <= 1 /\ Cardinality(new) \in Nat
    <3> HIDE DEF old, new
    <3> QED
      BY <2>5, AtMostOne
  <2>8. CASE old # {} /\ new # {}
    <3>1. m \in Elems(base.rows)
      BY <2>8 DEF Elems
    <3>2. m \in late
      BY <2>1, <2>8, <3>1 DEF Pane
    <3> HIDE DEF old, new
    <3>3. Cardinality(old \cup new) <= Cardinality(old) + Cardinality(new)
          /\ Cardinality(old \cup new) \in Nat
      <4>1. Cardinality(old \cup new) = Cardinality(old) + Cardinality(new) - Cardinality(old \cap new)
        BY <2>6, <2>7, FS_Union
      <4>2. Cardinality(old \cap new) \in Nat /\ Cardinality(old \cup new) \in Nat
        BY <2>6, <2>7, FS_Intersection, FS_Union, FS_CardinalityType
      <4> QED
        BY <2>6, <2>7, <4>1, <4>2
    <3> QED
      BY <2>3, <2>6, <2>7, <3>1, <3>2, <3>3
  <2>9. CASE old = {}
    <3>1. Places(m) = new
      BY <2>3, <2>9
    <3> HIDE DEF old, new
    <3> QED
      BY <2>7, <3>1
  <2>10. CASE new = {}
    <3>1. Places(m) = old
      BY <2>3, <2>10
    <3> HIDE DEF old, new
    <3> QED
      BY <2>6, <3>1
  <2> QED
    BY <2>8, <2>9, <2>10
<1> QED
  BY <1>1, Invariant, PTL

(* Nothing stored is missing without a reason: the newest rows of the      *)
(* history shown are in the pane, a younger row is there, or coming, or    *)
(* its live copy was lost or overtook a reply.                             *)
THEOREM NothingElseMissing == Spec => []MissingOnlyIfLost
<1>1. IInv => MissingOnlyIfLost
  <2> SUFFICES ASSUME IInv, base.n > 0
               PROVE  /\ Elems(Newest(base.n)) \subseteq Elems(pane)
                      /\ \A k \in (base.n + 1)..Len(table) :
                           table[k] \in Elems(pane) \cup Coming \cup gone \cup raced
    BY DEF MissingOnlyIfLost
  <2>1. /\ base.rows = Newest(base.n)
        /\ Since(base.n) \subseteq Elems(pane) \cup Coming \cup gone \cup raced
    BY DEF IInv, Shown
  <2>2. Elems(base.rows) \subseteq Elems(pane)
    <3>1. \A k \in DOMAIN base.rows : k \in DOMAIN pane /\ pane[k] = base.rows[k]
      <4>1. /\ Len(pane) \in Nat /\ Len(base.rows) \in Nat
            /\ DOMAIN pane = 1..Len(pane) /\ DOMAIN base.rows = 1..Len(base.rows)
        BY TypeFacts DEF IInv
      <4>2. Len(base.rows) <= Len(pane) /\ \A k \in DOMAIN base.rows : pane[k] = base.rows[k]
        BY DEF IInv, Pane
      <4> QED
        BY <4>1, <4>2
    <3> QED
      BY <3>1 DEF Elems
  <2> QED
    BY <2>1, <2>2 DEF Since
<1> QED
  BY <1>1, Invariant, PTL

-----------------------------------------------------------------------------
(* The order of a sender's messages.                                       *)

(* Messages m and k were sent on one connection, in this order. *)
Pair(m, k) == m < k /\ via[m] = via[k] /\ pc[m] # "unsent"

Before(s, m, k) == \A i, j \in DOMAIN s : s[i] = m /\ s[j] = k => i < j

Copy(m, c) == m \in Elems(chan[c]) \cup Elems(net[c])

(* What is unsent comes last; a message has a connection once it is sent.  *)
SentInOrder ==
    /\ \A m, k \in Msgs : m < k /\ pc[m] = "unsent" => pc[k] = "unsent"
    /\ \A m \in Msgs : pc[m] = "unsent" <=> via[m] = NoConn

(* A reader takes one message at a time. *)
ReadInOrder ==
    \A m, k \in Msgs : Pair(m, k) /\ pc[m] \in {"wire", "saved"} => pc[k] = "wire"

StoredInOrder == \A m, k \in Msgs : Pair(m, k) => Before(table, m, k)

(* A connection that is not registered has nothing in its channel, one     *)
(* that is not open no frames.                                             *)
Registered ==
    /\ \A c \in Conns : c[2] > made[c[1]] => at[c] = Away /\ c \notin up
    /\ \A c \in Mine : /\ at[c] = Away => chan[c] = <<>>
                       /\ c \notin up => net[c] = <<>>
    /\ \A m \in Msgs : pc[m] = "saved" => at[via[m]] # Away

CopiesInOrder ==
    \A m, k \in Msgs, c \in Mine :
      Pair(m, k) => /\ Before(chan[c], m, k) /\ Before(net[c], m, k)
                    /\ ~(m \in Elems(chan[c]) /\ k \in Elems(net[c]))

(* Behind the history the messages of a connection are in order, and none  *)
(* that is before one of them can still come; one before a row of the      *)
(* history, and not in it, was on its way when that was shown.             *)
PaneInOrder ==
    /\ \A i, j \in Behind : Pair(pane[i], pane[j]) => i < j
    /\ \A j \in Behind, m \in Msgs, c \in Mine : Pair(m, pane[j]) /\ c \in up => ~Copy(m, c)
    /\ \A k \in Elems(base.rows), m \in Msgs \ Elems(base.rows) :
         Pair(m, k) /\ (m \in Coming \/ \E i \in Behind : pane[i] = m) => m \in late

OrderInv == /\ SentInOrder /\ ReadInOrder /\ StoredInOrder
            /\ Registered /\ CopiesInOrder /\ PaneInOrder

-----------------------------------------------------------------------------
(* Sequences in which one message is before another.                       *)

LEMMA BeforeAppend ==
    ASSUME NEW S, NEW s \in Seq(S), NEW e \in S, NEW m, NEW k, m # k, Before(s, m, k),
           e = m => k \notin Elems(s)
    PROVE  Before(Append(s, e), m, k)
<1>1. /\ DOMAIN s = 1..Len(s) /\ DOMAIN Append(s, e) = 1..(Len(s) + 1)
      /\ \A x \in 1..Len(s) : Append(s, e)[x] = s[x]
      /\ Append(s, e)[Len(s) + 1] = e /\ Len(s) \in Nat
  OBVIOUS
<1> SUFFICES ASSUME NEW i \in DOMAIN Append(s, e), NEW j \in DOMAIN Append(s, e),
                    Append(s, e)[i] = m, Append(s, e)[j] = k
             PROVE  i < j
  BY DEF Before
<1>2. /\ i \in DOMAIN s \/ i = Len(s) + 1
      /\ j \in DOMAIN s \/ j = Len(s) + 1
  BY <1>1
<1>3. CASE i \in DOMAIN s /\ j \in DOMAIN s
  BY <1>1, <1>3 DEF Before
<1>4. CASE i \in DOMAIN s /\ j = Len(s) + 1
  BY <1>1, <1>4
<1>5. CASE i = Len(s) + 1
  <2>1. e = m /\ k \notin Elems(s)
    BY <1>1, <1>5
  <2>2. j \in DOMAIN s
    BY <1>1, <1>2, <2>1
  <2> QED
    BY <1>1, <2>1, <2>2 DEF Elems
<1> QED
  BY <1>2, <1>3, <1>4, <1>5

LEMMA BeforeTail ==
    ASSUME NEW S, NEW s \in Seq(S), s # <<>>, NEW m, NEW k, Before(s, m, k)
    PROVE  /\ Before(Tail(s), m, k)
           /\ k = Head(s) => m \notin Elems(s)
<1>1. Before(Tail(s), m, k)
  <2> SUFFICES ASSUME NEW i \in DOMAIN Tail(s), NEW j \in DOMAIN Tail(s),
                      Tail(s)[i] = m, Tail(s)[j] = k
               PROVE  i < j
    BY DEF Before
  <2>1. /\ i + 1 \in DOMAIN s /\ s[i + 1] = m /\ j + 1 \in DOMAIN s /\ s[j + 1] = k
        /\ i \in Nat /\ j \in Nat
    BY TailFacts
  <2>2. i + 1 < j + 1
    BY <2>1 DEF Before
  <2> QED
    BY <2>1, <2>2
<1>2. ASSUME k = Head(s), m \in Elems(s) PROVE FALSE
  <2>1. PICK i \in DOMAIN s : s[i] = m
    BY <1>2 DEF Elems
  <2>2. 1 \in DOMAIN s /\ s[1] = k
    BY <1>2, TailFacts
  <2>3. i < 1 /\ i \in 1..Len(s)
    BY <2>1, <2>2 DEF Before
  <2> QED
    BY <2>3
<1> QED
  BY <1>1, <1>2

LEMMA NothingBefore == \A m, k : Before(<<>>, m, k) /\ Elems(<<>>) = {}
BY DEF Before, Elems

-----------------------------------------------------------------------------
(* Which steps change what.                                                *)

LEMMA ProgressSteps ==
    ASSUME [Next]_vars
    PROVE  \/ UNCHANGED <<pc, via>>
           \/ \E m \in Msgs : \/ \E c \in Conns : Send(m, c)
                              \/ Throttle(m) \/ Save(m) \/ Forward(m)
           \/ \E c \in Conns : Unregister(c)
<1>1. ASSUME NEW c \in Conns, NEW i \in Insts, Connect(c) \/ Drop(c) \/ Register(c, i)
      PROVE  UNCHANGED <<pc, via>>
  BY <1>1 DEF Connect, Drop, Register, live
<1>2. ASSUME NEW c \in Conns, Connect(c) \/ Drop(c) PROVE UNCHANGED <<pc, via>>
  BY <1>2 DEF Connect, Drop, live
<1>3. ASSUME NEW c \in Mine, Write(c) \/ Arrive(c) PROVE UNCHANGED <<pc, via>>
  BY <1>3 DEF Write, Arrive
<1>4. ASSUME NEW r \in Asks, Open(r) \/ ReadHistory(r) \/ Show(r) \/ Fail(r)
      PROVE  UNCHANGED <<pc, via>>
  BY <1>4 DEF Open, ReadHistory, Show, Fail, live
<1>5. CASE UNCHANGED vars
  BY <1>5 DEF vars, live
<1> QED
  BY <1>1, <1>2, <1>3, <1>4, <1>5 DEF Next

LEMMA TableSteps ==
    ASSUME [Next]_vars PROVE table' = table \/ \E m \in Msgs : Save(m)
<1>1. ASSUME NEW c \in Conns, Connect(c) \/ Drop(c) \/ Unregister(c) PROVE table' = table
  BY <1>1 DEF Connect, Drop, Unregister
<1>2. ASSUME NEW c \in Conns, NEW i \in Insts, Register(c, i) PROVE table' = table
  BY <1>2 DEF Register
<1>3. ASSUME NEW c \in Mine, Write(c) \/ Arrive(c) PROVE table' = table
  BY <1>3 DEF Write, Arrive
<1>4. ASSUME NEW r \in Asks, Open(r) \/ ReadHistory(r) \/ Show(r) \/ Fail(r) PROVE table' = table
  BY <1>4 DEF Open, ReadHistory, Show, Fail
<1>5. ASSUME NEW m \in Msgs, Throttle(m) \/ Forward(m) PROVE table' = table
  BY <1>5 DEF Throttle, Forward
<1>6. ASSUME NEW m \in Msgs, NEW c \in Conns, Send(m, c) PROVE table' = table
  BY <1>6 DEF Send
<1>7. CASE UNCHANGED vars
  BY <1>7 DEF vars
<1> QED
  BY <1>1, <1>2, <1>3, <1>4, <1>5, <1>6, <1>7 DEF Next

LEMMA CopySteps ==
    ASSUME [Next]_vars
    PROVE  \/ UNCHANGED <<chan, net>>
           \/ \E c \in Conns : Drop(c) \/ Unregister(c)
           \/ \E m \in Msgs : Forward(m)
           \/ \E c \in Mine : Write(c) \/ Arrive(c)
<1>1. ASSUME NEW c \in Conns, NEW i \in Insts, Connect(c) \/ Register(c, i)
      PROVE  UNCHANGED <<chan, net>>
  BY <1>1 DEF Connect, Register, live
<1>2. ASSUME NEW c \in Conns, Connect(c) PROVE UNCHANGED <<chan, net>>
  BY <1>2 DEF Connect, live
<1>3. ASSUME NEW m \in Msgs, Throttle(m) \/ Save(m) PROVE UNCHANGED <<chan, net>>
  BY <1>3 DEF Throttle, Save
<1>4. ASSUME NEW m \in Msgs, NEW c \in Conns, Send(m, c) PROVE UNCHANGED <<chan, net>>
  BY <1>4 DEF Send
<1>5. ASSUME NEW r \in Asks, Open(r) \/ ReadHistory(r) \/ Show(r) \/ Fail(r)
      PROVE  UNCHANGED <<chan, net>>
  BY <1>5 DEF Open, ReadHistory, Show, Fail, live
<1>6. CASE UNCHANGED vars
  BY <1>6 DEF vars, live
<1> QED
  BY <1>1, <1>2, <1>3, <1>4, <1>5, <1>6 DEF Next

LEMMA ConnectionSteps ==
    ASSUME [Next]_vars
    PROVE  \/ UNCHANGED <<made, up, at>>
           \/ \E c \in Conns : Connect(c) \/ Drop(c) \/ Unregister(c) \/ \E i \in Insts : Register(c, i)
<1>1. ASSUME NEW m \in Msgs, Throttle(m) \/ Save(m) \/ Forward(m) PROVE UNCHANGED <<made, up, at>>
  BY <1>1 DEF Throttle, Save, Forward, conns
<1>2. ASSUME NEW m \in Msgs, NEW c \in Conns, Send(m, c) PROVE UNCHANGED <<made, up, at>>
  BY <1>2 DEF Send, conns
<1>3. ASSUME NEW c \in Mine, Write(c) \/ Arrive(c) PROVE UNCHANGED <<made, up, at>>
  BY <1>3 DEF Write, Arrive, conns
<1>4. ASSUME NEW r \in Asks, Open(r) \/ ReadHistory(r) \/ Show(r) \/ Fail(r)
      PROVE  UNCHANGED <<made, up, at>>
  BY <1>4 DEF Open, ReadHistory, Show, Fail, conns
<1>5. CASE UNCHANGED vars
  BY <1>5 DEF vars, conns
<1> QED
  BY <1>1, <1>2, <1>3, <1>4, <1>5 DEF Next

LEMMA PaneSteps ==
    ASSUME [Next]_vars
    PROVE  \/ UNCHANGED <<pane, base, late>>
           \/ \E c \in Mine : Arrive(c)
           \/ \E r \in Asks : Open(r) \/ Show(r)
<1>1. ASSUME NEW c \in Conns, Connect(c) \/ Drop(c) \/ Unregister(c)
      PROVE  UNCHANGED <<pane, base, late>>
  BY <1>1 DEF Connect, Drop, Unregister, page, notes
<1>2. ASSUME NEW c \in Conns, NEW i \in Insts, Register(c, i) PROVE UNCHANGED <<pane, base, late>>
  BY <1>2 DEF Register, page, notes
<1>3. ASSUME NEW m \in Msgs, Throttle(m) \/ Save(m) \/ Forward(m)
      PROVE  UNCHANGED <<pane, base, late>>
  BY <1>3 DEF Throttle, Save, Forward, page, notes
<1>4. ASSUME NEW m \in Msgs, NEW c \in Conns, Send(m, c) PROVE UNCHANGED <<pane, base, late>>
  BY <1>4 DEF Send, page, notes
<1>5. ASSUME NEW c \in Mine, Write(c) PROVE UNCHANGED <<pane, base, late>>
  BY <1>5 DEF Write, page
<1>6. ASSUME NEW r \in Asks, ReadHistory(r) \/ Fail(r) PROVE UNCHANGED <<pane, base, late>>
  BY <1>6 DEF ReadHistory, Fail, notes
<1>7. CASE UNCHANGED vars
  BY <1>7 DEF vars, page, notes
<1> QED
  BY <1>1, <1>2, <1>3, <1>4, <1>5, <1>6, <1>7 DEF Next

-----------------------------------------------------------------------------
(* Sending and reading.                                                    *)

LEMMA Progress ==
    ASSUME IInv, [Next]_vars, NEW m \in Msgs
    PROVE  \/ pc'[m] = pc[m] /\ via'[m] = via[m]
           \/ pc[m] = "unsent" /\ pc'[m] = "wire" /\ via'[m] \in Conns
           \/ pc[m] = "wire" /\ pc'[m] \in {"saved", "done"} /\ via'[m] = via[m]
           \/ pc[m] = "saved" /\ pc'[m] = "done" /\ via'[m] = via[m]
<1>1. /\ pc \in [Msgs -> {"unsent", "wire", "saved", "done"}]
      /\ via \in [Msgs -> Conns \cup {NoConn}]
  BY DEF IInv, TypeOK
<1>2. ASSUME NEW j \in Msgs, NEW c \in Conns, Send(j, c)
      PROVE  \/ pc'[m] = pc[m] /\ via'[m] = via[m]
             \/ pc[m] = "unsent" /\ pc'[m] = "wire" /\ via'[m] \in Conns
  <2>1. /\ pc[j] = "unsent" /\ pc' = [pc EXCEPT ![j] = "wire"] /\ via' = [via EXCEPT ![j] = c]
    BY <1>2 DEF Send
  <2> QED
    BY <1>1, <2>1
<1>3. ASSUME NEW j \in Msgs, Throttle(j) \/ Save(j)
      PROVE  \/ pc'[m] = pc[m] /\ via'[m] = via[m]
             \/ pc[m] = "wire" /\ pc'[m] \in {"saved", "done"} /\ via'[m] = via[m]
  BY <1>1, <1>3 DEF Throttle, Save, Reads
<1>4. ASSUME NEW j \in Msgs, Forward(j)
      PROVE  \/ pc'[m] = pc[m] /\ via'[m] = via[m]
             \/ pc[m] = "saved" /\ pc'[m] = "done" /\ via'[m] = via[m]
  BY <1>1, <1>4 DEF Forward
<1>5. ASSUME NEW c \in Conns, Unregister(c)
      PROVE  \/ pc'[m] = pc[m] /\ via'[m] = via[m]
             \/ pc[m] = "wire" /\ pc'[m] \in {"saved", "done"} /\ via'[m] = via[m]
  BY <1>1, <1>5 DEF Unregister
<1>6. CASE UNCHANGED <<pc, via>>
  BY <1>6
<1> QED
  BY <1>2, <1>3, <1>4, <1>5, <1>6, ProgressSteps

LEMMA PairDiffers == \A m, k \in Msgs : Pair(m, k) => m # k
BY DEF Pair, Msgs

(* A step takes a pair on, or sends the second of a new one.               *)
LEMMA Pairs ==
    ASSUME IInv, [Next]_vars, SentInOrder, NEW m \in Msgs, NEW k \in Msgs, Pair(m, k)'
    PROVE  Pair(m, k) \/ (pc[k] = "unsent" /\ pc'[k] = "wire")
<1>1. m < k /\ via'[m] = via'[k] /\ pc'[m] # "unsent"
  BY DEF Pair
<1>2. CASE pc'[k] = pc[k] /\ via'[k] = via[k]
  <2>1. CASE pc[m] # "unsent"
    <3>1. via'[m] = via[m]
      BY <2>1, Progress
    <3> QED
      BY <1>1, <1>2, <2>1, <3>1 DEF Pair
  <2>2. CASE pc[m] = "unsent"
    <3>1. pc[k] = "unsent" /\ via[k] = NoConn
      BY <1>1, <2>2 DEF SentInOrder
    <3>2. via'[m] \in Conns
      BY <1>1, <2>2, Progress
    <3>3. NoConn \notin Conns
      BY DEF NoConn, Conns
    <3> QED
      BY <1>1, <1>2, <3>1, <3>2, <3>3
  <2> QED
    BY <2>1, <2>2
<1>3. CASE pc[k] # "unsent" /\ via'[k] = via[k]
  <2>1. pc[m] # "unsent"
    BY <1>1, <1>3 DEF SentInOrder
  <2>2. via'[m] = via[m]
    BY <2>1, Progress
  <2> QED
    BY <1>1, <1>3, <2>1, <2>2 DEF Pair
<1> QED
  BY <1>2, <1>3, Progress

LEMMA SentStep == ASSUME IInv, [Next]_vars, SentInOrder PROVE SentInOrder'
<1>1. CASE \A m \in Msgs : (pc'[m] = "unsent" <=> pc[m] = "unsent") /\ via'[m] = via[m]
  BY <1>1 DEF SentInOrder
<1>2. CASE UNCHANGED <<pc, via>>
  BY <1>1, <1>2
<1>3. ASSUME NEW j \in Msgs, Throttle(j) \/ Save(j) \/ Forward(j)
      PROVE  SentInOrder'
  <2>1. /\ via' = via /\ pc[j] \in {"wire", "saved"}
        /\ pc' = [pc EXCEPT ![j] = "done"] \/ pc' = [pc EXCEPT ![j] = "saved"]
    BY <1>3 DEF Throttle, Save, Forward, Reads
  <2> QED
    BY <1>1, <2>1 DEF IInv, TypeOK
<1>4. ASSUME NEW c \in Conns, Unregister(c) PROVE SentInOrder'
  BY <1>1, <1>4 DEF Unregister
<1>5. ASSUME NEW j \in Msgs, NEW c \in Conns, Send(j, c) PROVE SentInOrder'
  <2>1. /\ pc[j] = "unsent" /\ \A k \in 1..(j - 1) : pc[k] # "unsent"
        /\ \A k \in Msgs : /\ pc'[k] = IF k = j THEN "wire" ELSE pc[k]
                           /\ via'[k] = IF k = j THEN c ELSE via[k]
    BY <1>5 DEF Send, IInv, TypeOK
  <2>2. NoConn \notin Conns
    BY DEF NoConn, Conns
  <2>3. ASSUME NEW m \in Msgs, NEW k \in Msgs, m < k, pc'[m] = "unsent" PROVE pc'[k] = "unsent"
    <3>1. m # j /\ pc[m] = "unsent"
      BY <2>1, <2>3
    <3>2. pc[k] = "unsent"
      BY <2>3, <3>1 DEF SentInOrder
    <3>3. k # j
      <4>1. m \in Nat /\ k \in Nat /\ m >= 1
        BY DEF Msgs
      <4>2. k = j => m \in 1..(j - 1)
        BY <2>3, <4>1
      <4> QED
        BY <2>1, <3>1, <4>2
    <3> QED
      BY <2>1, <3>2, <3>3
  <2>4. \A m \in Msgs : pc'[m] = "unsent" <=> via'[m] = NoConn
    BY <2>1, <2>2 DEF SentInOrder
  <2> QED
    BY <2>3, <2>4 DEF SentInOrder
<1> QED
  BY <1>2, <1>3, <1>4, <1>5, ProgressSteps

(* A reader goes past a message only after those before it.                *)
LEMMA ReadStep ==
    ASSUME IInv, [Next]_vars, SentInOrder, ReadInOrder PROVE ReadInOrder'
<1> SUFFICES ASSUME NEW m \in Msgs, NEW k \in Msgs, Pair(m, k)', pc'[m] \in {"wire", "saved"}
             PROVE  pc'[k] = "wire"
  BY DEF ReadInOrder
<1>1. CASE pc'[k] = "wire"
  BY <1>1
<1>2. CASE Pair(m, k)
  <2>1. m < k /\ via[m] = via[k] /\ pc[m] # "unsent"
    BY <1>2 DEF Pair
  <2>2. pc[m] \in {"wire", "saved"}
    BY <2>1, Progress
  <2>3. pc[k] = "wire"
    BY <1>2, <2>2 DEF ReadInOrder
  <2>4. CASE UNCHANGED <<pc, via>>
    BY <2>3, <2>4
  <2>5. ASSUME NEW j \in Msgs, Throttle(j) \/ Save(j) PROVE pc'[k] = "wire"
    <3>1. Reads(j) /\ \A i \in Msgs : i # j => pc'[i] = pc[i]
      BY <2>5 DEF Throttle, Save, IInv, TypeOK
    <3>2. j # k
      BY <2>1, <2>2, <3>1 DEF Reads, Busy
    <3> QED
      BY <2>3, <3>1, <3>2
  <2>6. ASSUME NEW j \in Msgs, Forward(j) PROVE pc'[k] = "wire"
    BY <2>3, <2>6 DEF Forward, IInv, TypeOK
  <2>7. ASSUME NEW j \in Msgs, NEW c \in Conns, Send(j, c) PROVE pc'[k] = "wire"
    BY <2>3, <2>7 DEF Send, IInv, TypeOK
  <2>8. ASSUME NEW c \in Conns, Unregister(c) PROVE pc'[k] = "wire"
    <3>1. /\ ~Busy(c)
          /\ \A i \in Msgs : pc'[i] = IF via[i] = c /\ pc[i] = "wire" THEN "done" ELSE pc[i]
      BY <2>8 DEF Unregister
    <3>2. via[k] # c
      BY <2>1, <2>2, <3>1 DEF Busy
    <3> QED
      BY <2>3, <3>1, <3>2
  <2> QED
    BY <2>4, <2>5, <2>6, <2>7, <2>8, ProgressSteps
<1> QED
  BY <1>1, <1>2, Pairs

LEMMA StoredStep ==
    ASSUME IInv, [Next]_vars, IInv', SentInOrder, ReadInOrder, StoredInOrder
    PROVE  StoredInOrder'
<1> SUFFICES ASSUME NEW m \in Msgs, NEW k \in Msgs, Pair(m, k)' PROVE Before(table', m, k)
  BY DEF StoredInOrder, Before
<1>1. CASE pc'[k] = "wire"
  BY <1>1 DEF IInv, OneCopy, Stored, Elems, Before
<1>2. CASE Pair(m, k)
  <2>1. Before(table, m, k) /\ m # k
    BY <1>2, PairDiffers DEF StoredInOrder
  <2>2. CASE table' = table
    BY <2>1, <2>2
  <2>3. ASSUME NEW j \in Msgs, Save(j) PROVE Before(table', m, k)
    <3>1. pc[j] = "wire" /\ table' \in {table, Append(table, j)} /\ table \in Seq(Msgs)
      BY <2>3 DEF Save, Reads, IInv, TypeOK
    <3>2. j = m => k \notin Elems(table)
      <4>1. j = m => pc[k] = "wire"
        BY <1>2, <3>1 DEF ReadInOrder
      <4> QED
        BY <4>1 DEF IInv, OneCopy, Stored
    <3>3. CASE table' = Append(table, j)
      BY <2>1, <3>1, <3>2, <3>3, BeforeAppend
    <3> QED
      BY <2>1, <3>1, <3>3
  <2> QED
    BY <2>2, <2>3, TableSteps
<1> QED
  BY <1>1, <1>2, Pairs

-----------------------------------------------------------------------------
(* Connections and the copies on them.                                     *)

LEMMA RegisteredStep ==
    ASSUME IInv, [Next]_vars, SentInOrder, Registered PROVE Registered'
<1>1. /\ made \in [Users -> 0..(MaxDrops + 1)] /\ up \subseteq Conns
      /\ at \in [Conns -> Insts \cup {Away}] /\ Mine \subseteq Conns
      /\ chan \in [Mine -> Seq(Msgs)] /\ net \in [Mine -> Seq(Msgs)]
  BY DEF IInv, TypeOK, Mine, Conns, Users
<1>2. \A c \in Conns : c[1] \in Users /\ c[2] \in Nat /\ made[c[1]] \in Nat
  BY <1>1 DEF Conns, Users
<1>3. \A m \in Msgs : pc[m] = "saved" => via[m] \in Conns
  BY DEF SentInOrder, IInv, TypeOK
<1>4. \A c \in Conns : c[2] > made'[c[1]] => at'[c] = Away /\ c \notin up'
  <2>1. CASE UNCHANGED <<made, up, at>>
    BY <2>1 DEF Registered
  <2>2. ASSUME NEW d \in Conns, Connect(d), NEW c \in Conns, c[2] > made'[c[1]]
        PROVE  at'[c] = Away /\ c \notin up'
    <3>1. /\ d[2] = made[d[1]] + 1 /\ made' = [made EXCEPT ![d[1]] = @ + 1]
          /\ up' = up \cup {d} /\ at' = at
      BY <2>2 DEF Connect
    <3>2. c # d /\ c[2] > made[c[1]]
      <4>1. made'[d[1]] = made[d[1]] + 1 /\ \A u \in Users : u # d[1] => made'[u] = made[u]
        BY <1>1, <1>2, <3>1
      <4>2. CASE c[1] = d[1]
        BY <1>2, <2>2, <3>1, <4>1, <4>2
      <4>3. CASE c[1] # d[1]
        BY <1>2, <2>2, <4>1, <4>3
      <4> QED
        BY <4>2, <4>3
    <3> QED
      BY <3>1, <3>2 DEF Registered
  <2>3. ASSUME NEW d \in Conns, Drop(d) \/ Unregister(d), NEW c \in Conns, c[2] > made'[c[1]]
        PROVE  at'[c] = Away /\ c \notin up'
    <3>1. made' = made /\ up' \subseteq up /\ (at' = at \/ at' = [at EXCEPT ![d] = Away])
      BY <2>3 DEF Drop, Unregister
    <3> QED
      BY <1>1, <2>3, <3>1 DEF Registered
  <2>4. ASSUME NEW d \in Conns, NEW i \in Insts, Register(d, i), NEW c \in Conns,
               c[2] > made'[c[1]]
        PROVE  at'[c] = Away /\ c \notin up'
    <3>1. made' = made /\ up' = up /\ at' = [at EXCEPT ![d] = i] /\ d[2] <= made[d[1]]
      BY <2>4 DEF Register
    <3>2. c # d
      BY <1>2, <2>4, <3>1
    <3> QED
      BY <1>1, <2>4, <3>1, <3>2 DEF Registered
  <2> QED
    BY <2>1, <2>2, <2>3, <2>4, ConnectionSteps
<1>5. ASSUME NEW c \in Mine, at'[c] = Away PROVE chan'[c] = <<>>
  <2>1. CASE at[c] = Away
    <3>1. chan[c] = <<>>
      BY <2>1 DEF Registered
    <3>2. CASE UNCHANGED <<chan, net>>
      BY <3>1, <3>2
    <3>3. ASSUME NEW d \in Conns, Drop(d) \/ Unregister(d) PROVE chan'[c] = <<>>
      BY <3>1, <3>3 DEF Drop, Unregister
    <3>4. ASSUME NEW m \in Msgs, Forward(m) PROVE chan'[c] = <<>>
      <4>1. pc[m] = "saved" /\ at[via[m]] # Away
        BY <3>4 DEF Forward, Registered
      <4>2. chan' = chan \/ \E d \in Mine : /\ chan' = [chan EXCEPT ![d] = Append(@, m)]
                                            /\ at[d] = at[via[m]]
        BY <3>4 DEF Forward
      <4>3. ASSUME NEW d \in Mine, chan' = [chan EXCEPT ![d] = Append(@, m)], at[d] = at[via[m]]
            PROVE  chan'[c] = <<>>
        <5>1. d # c
          BY <2>1, <4>1, <4>3
        <5> QED
          BY <1>1, <3>1, <4>3, <5>1
      <4> QED
        BY <3>1, <4>2, <4>3
    <3>5. ASSUME NEW d \in Mine, Write(d) \/ Arrive(d) PROVE chan'[c] = <<>>
      BY <1>1, <3>1, <3>5 DEF Write, Arrive
    <3> QED
      BY <3>2, <3>3, <3>4, <3>5, CopySteps
  <2>2. CASE at[c] # Away
    <3>1. CASE UNCHANGED <<made, up, at>>
      BY <2>2, <3>1, <1>5
    <3>2. ASSUME NEW d \in Conns, Connect(d) \/ Drop(d) PROVE FALSE
      BY <1>5, <2>2, <3>2 DEF Connect, Drop
    <3>3. ASSUME NEW d \in Conns, NEW i \in Insts, Register(d, i) PROVE FALSE
      BY <1>1, <1>5, <2>2, <3>3, ChatAssumption DEF Register
    <3>4. ASSUME NEW d \in Conns, Unregister(d) PROVE chan'[c] = <<>>
      BY <1>1, <1>5, <2>2, <3>4 DEF Unregister
    <3> QED
      BY <1>5, <2>2, <3>1, <3>2, <3>3, <3>4, ConnectionSteps
  <2> QED
    BY <2>1, <2>2
<1>6. ASSUME NEW c \in Mine, c \notin up' PROVE net'[c] = <<>>
  <2>1. CASE c \in up
    <3>1. CASE UNCHANGED <<made, up, at>>
      BY <1>6, <2>1, <3>1
    <3>2. ASSUME NEW d \in Conns, Connect(d) \/ Unregister(d) PROVE FALSE
      BY <1>6, <2>1, <3>2 DEF Connect, Unregister
    <3>3. ASSUME NEW d \in Conns, NEW i \in Insts, Register(d, i) PROVE FALSE
      BY <1>6, <2>1, <3>3 DEF Register
    <3>4. ASSUME NEW d \in Conns, Drop(d) PROVE net'[c] = <<>>
      BY <1>1, <1>6, <2>1, <3>4 DEF Drop
    <3> QED
      BY <1>6, <2>1, <3>1, <3>2, <3>3, <3>4, ConnectionSteps
  <2>2. CASE c \notin up
    <3>1. net[c] = <<>>
      BY <2>2 DEF Registered
    <3>2. CASE UNCHANGED <<chan, net>>
      BY <3>1, <3>2
    <3>3. ASSUME NEW d \in Conns, Drop(d) \/ Unregister(d) PROVE net'[c] = <<>>
      BY <1>1, <3>1, <3>3 DEF Drop, Unregister
    <3>4. ASSUME NEW m \in Msgs, Forward(m) PROVE net'[c] = <<>>
      BY <3>1, <3>4 DEF Forward
    <3>5. ASSUME NEW d \in Mine, Write(d) \/ Arrive(d) PROVE net'[c] = <<>>
      BY <1>1, <2>2, <3>1, <3>5 DEF Write, Arrive
    <3> QED
      BY <3>2, <3>3, <3>4, <3>5, CopySteps
  <2> QED
    BY <2>1, <2>2
<1>7. ASSUME NEW m \in Msgs, pc'[m] = "saved" PROVE at'[via'[m]] # Away
  <2>1. via'[m] = via[m] /\ pc[m] \in {"wire", "saved"}
    BY <1>7, Progress
  <2>2. at[via[m]] # Away /\ via[m] \in Conns
    <3>1. CASE pc[m] = "saved"
      BY <1>3, <3>1 DEF Registered
    <3>2. CASE pc[m] = "wire"
      <4>1. via[m] \in Conns
        BY <3>2 DEF SentInOrder, IInv, TypeOK
      <4>2. /\ \A j \in Msgs, c \in Conns : ~Send(j, c)
            /\ \A c \in Conns : ~Unregister(c)
            /\ \A j \in Msgs : ~Throttle(j) /\ ~Forward(j)
        <5>1. \A j \in Msgs, c \in Conns : ~Send(j, c)
          BY <1>7, <3>2 DEF Send, IInv, TypeOK
        <5>2. \A c \in Conns : ~Unregister(c)
          BY <1>7, <3>2 DEF Unregister
        <5>3. \A j \in Msgs : ~Throttle(j) /\ ~Forward(j)
          BY <1>7, <3>2 DEF Throttle, Forward, IInv, TypeOK
        <5> QED
          BY <5>1, <5>2, <5>3
      <4>3. PICK j \in Msgs : Save(j)
        BY <1>7, <3>2, <4>2, ProgressSteps
      <4>4. j = m
        BY <1>7, <3>2, <4>3 DEF Save, IInv, TypeOK
      <4> QED
        BY <4>1, <4>3, <4>4 DEF Save, Reads
    <3> QED
      BY <2>1, <3>1, <3>2
  <2>3. CASE UNCHANGED <<made, up, at>>
    BY <2>1, <2>2, <2>3
  <2>4. ASSUME NEW d \in Conns, Connect(d) \/ Drop(d) PROVE at'[via[m]] # Away
    BY <2>2, <2>4 DEF Connect, Drop
  <2>5. ASSUME NEW d \in Conns, NEW i \in Insts, Register(d, i) PROVE at'[via[m]] # Away
    BY <1>1, <2>2, <2>5, ChatAssumption DEF Register
  <2>6. ASSUME NEW d \in Conns, Unregister(d) PROVE at'[via[m]] # Away
    <3>1. ~Busy(d) /\ at' = [at EXCEPT ![d] = Away]
          /\ \A j \in Msgs : pc'[j] = IF via[j] = d /\ pc[j] = "wire" THEN "done" ELSE pc[j]
      BY <2>6 DEF Unregister
    <3>2. via[m] # d
      BY <1>7, <3>1 DEF Busy
    <3> QED
      BY <1>1, <2>2, <3>1, <3>2
  <2> QED
    BY <2>1, <2>3, <2>4, <2>5, <2>6, ConnectionSteps
<1> QED
  BY <1>4, <1>5, <1>6, <1>7 DEF Registered

(* Each channel, and the frames before it, are queues.                     *)
LEMMA CopiesStep ==
    ASSUME IInv, [Next]_vars, IInv', SentInOrder, ReadInOrder, CopiesInOrder
    PROVE  CopiesInOrder'
<1> SUFFICES ASSUME NEW m \in Msgs, NEW k \in Msgs, NEW c \in Mine, Pair(m, k)'
             PROVE  /\ Before(chan'[c], m, k) /\ Before(net'[c], m, k)
                    /\ ~(m \in Elems(chan'[c]) /\ k \in Elems(net'[c]))
  BY DEF CopiesInOrder, Before
<1>1. CASE pc'[k] = "wire"
  <2>1. ~Flying(k)'
    BY <1>1 DEF IInv, OneCopy
  <2>2. k \notin Elems(chan'[c]) /\ k \notin Elems(net'[c])
    BY <2>1 DEF Flying
  <2> QED
    BY <2>2 DEF Elems, Before
<1>2. CASE Pair(m, k)
  <2>1. /\ Before(chan[c], m, k) /\ Before(net[c], m, k) /\ m # k
        /\ ~(m \in Elems(chan[c]) /\ k \in Elems(net[c]))
    BY <1>2, PairDiffers DEF CopiesInOrder
  <2>2. /\ chan \in [Mine -> Seq(Msgs)] /\ net \in [Mine -> Seq(Msgs)]
        /\ chan[c] \in Seq(Msgs) /\ net[c] \in Seq(Msgs)
    BY DEF IInv, TypeOK
  <2>3. CASE /\ chan'[c] = chan[c] \/ chan'[c] = <<>>
             /\ net'[c] = net[c] \/ net'[c] = <<>>
    BY <2>1, <2>3, NothingBefore
  <2>4. ASSUME NEW d \in Conns, Drop(d) \/ Unregister(d)
        PROVE  /\ chan'[c] = chan[c] \/ chan'[c] = <<>>
               /\ net'[c] = net[c] \/ net'[c] = <<>>
    BY <2>2, <2>4 DEF Drop, Unregister
  <2>5. ASSUME NEW j \in Msgs, Forward(j)
        PROVE  /\ Before(chan'[c], m, k) /\ Before(net'[c], m, k)
               /\ ~(m \in Elems(chan'[c]) /\ k \in Elems(net'[c]))
    <3>1. /\ pc[j] = "saved" /\ net' = net
          /\ chan' = chan \/ \E d \in Mine : chan' = [chan EXCEPT ![d] = Append(@, j)]
      BY <2>5 DEF Forward
    <3>2. chan'[c] = chan[c] \/ chan'[c] = Append(chan[c], j)
      BY <2>2, <3>1
    <3>3. CASE chan'[c] = chan[c]
      BY <2>1, <3>1, <3>3
    <3>4. CASE chan'[c] = Append(chan[c], j)
      <4>1. j = m => k \notin Elems(chan[c]) /\ k \notin Elems(net[c])
        <5>1. j = m => pc[k] = "wire"
          BY <1>2, <3>1 DEF ReadInOrder
        <5>2. pc[k] = "wire" => ~Flying(k)
          BY DEF IInv, OneCopy
        <5> QED
          BY <5>1, <5>2 DEF Flying
      <4>2. Before(chan'[c], m, k)
        BY <2>1, <2>2, <3>4, <4>1, BeforeAppend
      <4>3. Elems(chan'[c]) = Elems(chan[c]) \cup {j}
        BY <2>2, <3>4, AppendFacts
      <4> QED
        BY <2>1, <3>1, <4>1, <4>2, <4>3
    <3> QED
      BY <3>2, <3>3, <3>4
  <2>6. ASSUME NEW d \in Mine, Write(d)
        PROVE  /\ Before(chan'[c], m, k) /\ Before(net'[c], m, k)
               /\ ~(m \in Elems(chan'[c]) /\ k \in Elems(net'[c]))
    <3>1. /\ chan[d] # <<>> /\ chan' = [chan EXCEPT ![d] = <<>>]
          /\ net' = net \/ net' = [net EXCEPT ![d] = Append(@, Head(chan[d]))]
      BY <2>6 DEF Write
    <3>2. CASE c # d
      BY <2>1, <2>2, <3>1, <3>2
    <3>3. CASE c = d
      <4>1. chan'[c] = <<>> /\ (net'[c] = net[c] \/ net'[c] = Append(net[c], Head(chan[c])))
        BY <2>2, <3>1, <3>3
      <4>2. Head(chan[c]) \in Msgs /\ Head(chan[c]) \in Elems(chan[c])
        BY <2>2, <3>1, <3>3, TailFacts, HeadIsElem
      <4>3. Before(net'[c], m, k)
        <5>1. CASE net'[c] = Append(net[c], Head(chan[c]))
          BY <2>1, <2>2, <4>2, <5>1, BeforeAppend
        <5> QED
          BY <2>1, <4>1, <5>1
      <4> QED
        BY <4>1, <4>3, NothingBefore
    <3> QED
      BY <3>2, <3>3
  <2>7. ASSUME NEW d \in Mine, Arrive(d)
        PROVE  /\ Before(chan'[c], m, k) /\ Before(net'[c], m, k)
               /\ ~(m \in Elems(chan'[c]) /\ k \in Elems(net'[c]))
    <3>1. /\ net[d] # <<>> /\ chan' = chan /\ net' = [net EXCEPT ![d] = Tail(@)]
      BY <2>7 DEF Arrive
    <3>2. CASE c # d
      BY <2>1, <2>2, <3>1, <3>2
    <3>3. CASE c = d
      <4>1. net[c] # <<>> /\ net'[c] = Tail(net[c])
        BY <2>2, <3>1, <3>3
      <4>2. Before(net'[c], m, k)
        BY <2>1, <2>2, <4>1, BeforeTail
      <4>3. Elems(net'[c]) \subseteq Elems(net[c])
        BY <2>2, <4>1, TailFacts
      <4> QED
        BY <2>1, <3>1, <4>2, <4>3
    <3> QED
      BY <3>2, <3>3
  <2>8. CASE UNCHANGED <<chan, net>>
    BY <2>3, <2>8
  <2> QED
    BY <2>3, <2>4, <2>5, <2>6, <2>7, <2>8, CopySteps
<1> QED
  BY <1>1, <1>2, Pairs

(* A copy was there before, or comes from the sender's reader.             *)
LEMMA CopyOrigin ==
    ASSUME IInv, [Next]_vars, NEW m \in Msgs, NEW c \in Mine, Copy(m, c)'
    PROVE  Copy(m, c) \/ pc[m] = "saved"
<1>1. /\ chan \in [Mine -> Seq(Msgs)] /\ net \in [Mine -> Seq(Msgs)]
      /\ \A d \in Mine : chan[d] \in Seq(Msgs) /\ net[d] \in Seq(Msgs)
  BY DEF IInv, TypeOK
<1>2. m \in Elems(chan'[c]) \cup Elems(net'[c])
  BY DEF Copy
<1>3. CASE UNCHANGED <<chan, net>>
  BY <1>2, <1>3 DEF Copy
<1>4. ASSUME NEW d \in Conns, Drop(d) \/ Unregister(d) PROVE Copy(m, c)
  <2>1. /\ chan'[c] = chan[c] \/ chan'[c] = <<>>
        /\ net'[c] = net[c] \/ net'[c] = <<>>
    BY <1>1, <1>4 DEF Drop, Unregister
  <2> QED
    BY <1>2, <2>1, NothingBefore DEF Copy
<1>5. ASSUME NEW j \in Msgs, Forward(j) PROVE Copy(m, c) \/ pc[m] = "saved"
  <2>1. /\ pc[j] = "saved" /\ net' = net
        /\ chan' = chan \/ \E d \in Mine : chan' = [chan EXCEPT ![d] = Append(@, j)]
    BY <1>5 DEF Forward
  <2>2. chan'[c] = chan[c] \/ chan'[c] = Append(chan[c], j)
    BY <1>1, <2>1
  <2>3. Elems(chan'[c]) \subseteq Elems(chan[c]) \cup {j}
    <3>1. CASE chan'[c] = Append(chan[c], j)
      BY <1>1, <3>1, AppendFacts
    <3> QED
      BY <2>2, <3>1
  <2> QED
    BY <1>2, <2>1, <2>3 DEF Copy
<1>6. ASSUME NEW d \in Mine, Write(d) PROVE Copy(m, c)
  <2>1. /\ chan[d] # <<>> /\ chan' = [chan EXCEPT ![d] = <<>>]
        /\ net' = net \/ net' = [net EXCEPT ![d] = Append(@, Head(chan[d]))]
    BY <1>6 DEF Write
  <2>2. chan'[c] = chan[c] \/ chan'[c] = <<>>
    BY <1>1, <2>1
  <2>3. net'[c] = net[c] \/ (c = d /\ net'[c] = Append(net[c], Head(chan[c])))
    BY <1>1, <2>1
  <2>4. Elems(net'[c]) \subseteq Elems(net[c]) \cup Elems(chan[c])
    <3>1. CASE c = d /\ net'[c] = Append(net[c], Head(chan[c]))
      <4>1. Head(chan[c]) \in Msgs /\ Head(chan[c]) \in Elems(chan[c])
        BY <1>1, <2>1, <3>1, TailFacts, HeadIsElem
      <4> QED
        BY <1>1, <3>1, <4>1, AppendFacts
    <3> QED
      BY <2>3, <3>1
  <2> QED
    BY <1>2, <2>2, <2>4, NothingBefore DEF Copy
<1>7. ASSUME NEW d \in Mine, Arrive(d) PROVE Copy(m, c)
  <2>1. /\ net[d] # <<>> /\ chan' = chan /\ net' = [net EXCEPT ![d] = Tail(@)]
    BY <1>7 DEF Arrive
  <2>2. net'[c] = net[c] \/ (net[c] # <<>> /\ net'[c] = Tail(net[c]))
    BY <1>1, <2>1
  <2>3. Elems(net'[c]) \subseteq Elems(net[c])
    <3>1. CASE net[c] # <<>> /\ net'[c] = Tail(net[c])
      BY <1>1, <3>1, TailFacts
    <3> QED
      BY <2>2, <3>1
  <2> QED
    BY <1>2, <2>1, <2>3 DEF Copy
<1> QED
  BY <1>3, <1>4, <1>5, <1>6, <1>7, CopySteps

(* No message becomes expected again but by being sent.                    *)
LEMMA ComingOrigin ==
    ASSUME IInv, [Next]_vars, NEW m \in Msgs, m \in Coming'
    PROVE  m \in Coming \/ pc[m] = "unsent"
<1>1. CASE pc'[m] \in {"wire", "saved"}
  BY <1>1, Progress, ComingFacts
<1>2. CASE \E c \in Mine : Copy(m, c)'
  <2>1. pc[m] = "saved" \/ \E c \in Mine : Copy(m, c)
    BY <1>2, CopyOrigin
  <2> QED
    BY <2>1 DEF Coming, Copy
<1> QED
  BY <1>1, <1>2 DEF Coming, Copy

(* A new connection is empty.                                              *)
LEMMA OpenCopyOrigin ==
    ASSUME IInv, [Next]_vars, Registered, NEW m \in Msgs, NEW c \in Mine, c \in up', Copy(m, c)'
    PROVE  (c \in up /\ Copy(m, c)) \/ pc[m] = "saved"
<1>1. CASE c \in up
  BY <1>1, CopyOrigin
<1>2. CASE c \notin up
  <2>1. Connect(c)
    <3>1. \A d \in Conns, i \in Insts : ~Register(d, i) /\ ~Drop(d) /\ ~Unregister(d)
      BY <1>2 DEF Register, Drop, Unregister
    <3>2. \A d \in Conns : ~Drop(d) /\ ~Unregister(d)
      BY <1>2 DEF Drop, Unregister
    <3>3. \E d \in Conns : Connect(d)
      BY <1>2, <3>1, <3>2, ConnectionSteps
    <3> QED
      BY <1>2, <3>3 DEF Connect
  <2>2. c \in Conns /\ c[2] > made[c[1]]
    <3>1. c \in Conns /\ c[1] \in Users
      BY DEF Mine, Conns, Users
    <3>2. made[c[1]] \in Nat
      BY <3>1 DEF IInv, TypeOK
    <3> QED
      BY <2>1, <3>1, <3>2 DEF Connect
  <2>3. chan[c] = <<>> /\ net[c] = <<>>
    BY <1>2, <2>2 DEF Registered
  <2>4. chan' = chan /\ net' = net
    BY <2>1 DEF Connect, live
  <2>5. ~Copy(m, c)'
    BY <2>3, <2>4, NothingBefore DEF Copy
  <2> QED
    BY <2>5
<1> QED
  BY <1>1, <1>2

-----------------------------------------------------------------------------
(* The pane.                                                               *)

(* What is behind the history is not expected any more. *)
LEMMA BehindFacts ==
    ASSUME IInv, NEW j \in Behind
    PROVE  pane[j] \in Msgs /\ pc[pane[j]] \notin {"unsent", "wire", "saved"}
<1>1. pane[j] \in Msgs
  BY TypeFacts, ElementFacts DEF IInv, Behind
<1>2. pane[j] \notin Coming /\ pc[pane[j]] # "unsent"
  BY DEF IInv, Pane
<1> QED
  BY <1>1, <1>2, ComingFacts

LEMMA NothingShown ==
    ASSUME Behind' = {}, \A m \in Msgs, k \in Elems(base'.rows) : Pair(m, k)' /\ m \in Coming' => m \in late'
    PROVE  PaneInOrder'
BY DEF PaneInOrder

LEMMA PaneStaysInOrder ==
    ASSUME IInv, [Next]_vars, SentInOrder, ReadInOrder, Registered, PaneInOrder,
           UNCHANGED <<pane, base, late>>
    PROVE  PaneInOrder'
<1>1. Behind' = Behind
  BY DEF Behind
<1>2. ASSUME NEW i \in Behind, NEW j \in Behind, Pair(pane[i], pane[j])' PROVE i < j
  <2>1. Pair(pane[i], pane[j])
    <3> DEFINE m == pane[i]
               k == pane[j]
    <3>1. m \in Msgs /\ k \in Msgs /\ pc[k] # "unsent"
      BY BehindFacts
    <3>2. m' = m /\ k' = k
      OBVIOUS
    <3>3. PICK a \in Msgs, b \in Msgs : a = m /\ b = k
      BY <3>1
    <3>4. Pair(a, b)'
      BY <1>2, <3>2, <3>3 DEF Pair
    <3>5. Pair(a, b)
      BY <3>1, <3>3, <3>4, Pairs
    <3> QED
      BY <3>3, <3>5
  <2> QED
    BY <2>1 DEF PaneInOrder
<1>3. ASSUME NEW j \in Behind, NEW m \in Msgs, NEW c \in Mine, Pair(m, pane[j])', c \in up',
             Copy(m, c)'
      PROVE  FALSE
  <2>1. PICK k \in Msgs : k = pane[j]
    BY BehindFacts
  <2>2. pc[k] \notin {"unsent", "wire", "saved"}
    BY <2>1, BehindFacts
  <2>3. Pair(m, k)'
    BY <1>3, <2>1 DEF Pair
  <2>4. Pair(m, k)
    BY <2>2, <2>3, Pairs
  <2>5. pc[m] # "saved"
    BY <2>2, <2>4 DEF ReadInOrder
  <2>6. c \in up /\ Copy(m, c)
    BY <1>3, <2>5, OpenCopyOrigin
  <2> QED
    BY <2>1, <2>4, <2>6 DEF PaneInOrder
<1>4. ASSUME NEW k \in Elems(base.rows), NEW m \in Msgs \ Elems(base.rows), Pair(m, k)',
             m \in Coming' \/ \E i \in Behind : pane[i] = m
      PROVE  m \in late
  <2>1. PICK b \in Msgs : b = k /\ pc[b] # "unsent"
    BY BaseFacts
  <2>2. Pair(m, b)
    BY <1>4, <2>1, Pairs
  <2>3. m \in Coming' => m \in Coming
    BY <2>2, ComingOrigin DEF Pair
  <2> QED
    BY <1>4, <2>1, <2>2, <2>3 DEF PaneInOrder
<1> QED
  BY <1>1, <1>2, <1>3, <1>4 DEF PaneInOrder

LEMMA ArriveInOrder ==
    ASSUME IInv, [Next]_vars, SentInOrder, ReadInOrder, Registered, CopiesInOrder, PaneInOrder,
           NEW c \in Mine, Arrive(c)
    PROVE  PaneInOrder'
<1>1. /\ net[c] # <<>> /\ net[c] \in Seq(Msgs) /\ net' = [net EXCEPT ![c] = Tail(@)]
      /\ UNCHANGED <<pc, via, chan, up, base, late>> /\ net \in [Mine -> Seq(Msgs)]
      /\ pane' = IF opened THEN Append(pane, Head(net[c])) ELSE pane
  BY DEF Arrive, IInv, TypeOK, conns
<1>2. CASE ~opened
  BY <1>1, <1>2, PaneStaysInOrder
<1>3. CASE opened
  <2>1. PICK p \in Msgs : p = Head(net[c])
    BY <1>1, TailFacts
  <2>2. /\ c \in up /\ p \in Elems(net[c]) /\ p \in Coming /\ Copy(p, c)
    <3>1. c \in up
      BY <1>1 DEF Registered
    <3>2. p \in Elems(net[c])
      BY <1>1, <2>1, HeadIsElem
    <3> QED
      BY <3>1, <3>2 DEF Coming, Copy
  <2>3. /\ pane \in Seq(Msgs) /\ Len(pane) \in Nat /\ Len(base.rows) \in Nat
        /\ pane' = Append(pane, p)
    BY <1>1, <1>3, <2>1, TypeFacts DEF IInv
  <2>4. /\ pane'[Len(pane) + 1] = p /\ \A i \in Behind : pane'[i] = pane[i]
        /\ \A i \in Behind' : i \in Behind \/ i = Len(pane) + 1
        /\ \A i \in Behind : i \in Nat /\ i < Len(pane) + 1
    <3>1. Behind = (Len(base.rows) + 1)..Len(pane)
      BY DEF Behind
    <3>2. Len(pane') = Len(pane) + 1 /\ Behind' = (Len(base.rows) + 1)..(Len(pane) + 1)
      BY <1>1, <2>3 DEF Behind
    <3>3. \A i \in 1..Len(pane) : pane'[i] = pane[i]
      BY <2>3
    <3> QED
      BY <2>3, <3>1, <3>2, <3>3
  <2>5. \A m, k : Pair(m, k)' <=> Pair(m, k)
    BY <1>1 DEF Pair
  <2>6. ASSUME NEW i \in Behind', NEW j \in Behind', Pair(pane'[i], pane'[j]) PROVE i < j
    <3>1. CASE i \in Behind /\ j \in Behind
      BY <2>4, <2>6, <3>1 DEF PaneInOrder
    <3>2. CASE i \in Behind /\ j = Len(pane) + 1
      BY <2>4, <3>2
    <3>3. CASE i = Len(pane) + 1 /\ j \in Behind
      <4>1. Pair(p, pane[j])
        BY <2>4, <2>6, <3>3
      <4> QED
        BY <2>2, <3>3, <4>1 DEF PaneInOrder
    <3>4. CASE i = Len(pane) + 1 /\ j = Len(pane) + 1
      <4>1. Pair(p, p)
        BY <2>4, <2>6, <3>4
      <4> QED
        BY <4>1, PairDiffers
    <3> QED
      BY <2>4, <3>1, <3>2, <3>3, <3>4
  <2>7. ASSUME NEW j \in Behind', NEW m \in Msgs, NEW d \in Mine, Pair(m, pane'[j]), d \in up,
               Copy(m, d)'
        PROVE  FALSE
    <3>1. Copy(m, d) \/ pc[m] = "saved"
      BY <2>7, CopyOrigin
    <3>2. CASE j \in Behind
      <4>1. PICK k \in Msgs : k = pane[j] /\ pc[k] # "wire"
        BY <3>2, BehindFacts
      <4>2. Pair(m, k)
        BY <2>4, <2>7, <3>2, <4>1
      <4>3. pc[m] # "saved"
        BY <4>1, <4>2 DEF ReadInOrder
      <4> QED
        BY <2>7, <3>1, <3>2, <4>1, <4>2, <4>3 DEF PaneInOrder
    <3>3. CASE j = Len(pane) + 1
      <4>1. Pair(m, p)
        BY <2>4, <2>7, <3>3
      <4>2. d = c
        <5>1. d[1] = c[1]
          BY DEF Mine
        <5> QED
          BY <2>2, <2>7, <5>1 DEF IInv, TypeOK
      <4>3. /\ Before(net[c], m, p) /\ m \notin Elems(chan[c])
        BY <2>2, <4>1 DEF CopiesInOrder
      <4>4. m \notin Elems(net[c])
        BY <1>1, <2>1, <4>3, BeforeTail
      <4>5. Elems(net'[c]) \subseteq Elems(net[c])
        <5>1. net'[c] = Tail(net[c])
          BY <1>1
        <5> QED
          BY <1>1, <5>1, TailFacts
      <4> QED
        BY <1>1, <2>7, <4>2, <4>3, <4>4, <4>5 DEF Copy
    <3> QED
      BY <2>4, <3>2, <3>3
  <2>8. ASSUME NEW k \in Elems(base.rows), NEW m \in Msgs \ Elems(base.rows), Pair(m, k),
               m \in Coming' \/ \E i \in Behind' : pane'[i] = m
        PROVE  m \in late
    <3>1. m \in Coming \/ \E i \in Behind : pane[i] = m
      <4>1. m \in Coming' => m \in Coming
        BY <2>8, ComingOrigin DEF Pair
      <4>2. (\E i \in Behind' : pane'[i] = m) => m = p \/ \E i \in Behind : pane[i] = m
        BY <2>4
      <4> QED
        BY <2>2, <2>8, <4>1, <4>2
    <3> QED
      BY <2>8, <3>1 DEF PaneInOrder
  <2> QED
    BY <1>1, <2>5, <2>6, <2>7, <2>8 DEF PaneInOrder
<1> QED
  BY <1>2, <1>3

LEMMA PaneStep ==
    ASSUME IInv, [Next]_vars, SentInOrder, ReadInOrder, Registered, CopiesInOrder, PaneInOrder
    PROVE  PaneInOrder'
<1>1. CASE UNCHANGED <<pane, base, late>>
  BY <1>1, PaneStaysInOrder
<1>2. ASSUME NEW c \in Mine, Arrive(c) PROVE PaneInOrder'
  BY <1>2, ArriveInOrder
<1>3. ASSUME NEW r \in Asks, Open(r) PROVE PaneInOrder'
  <2>1. CASE pane' = <<>> /\ base' = NoReply /\ late' = {}
    <3>1. base'.rows = <<>>
      BY <2>1 DEF NoReply
    <3>2. Behind' = {} /\ Elems(base'.rows) = {}
      BY <2>1, <3>1, NothingBefore DEF Behind
    <3> QED
      BY <3>2, NothingShown
  <2> QED
    BY <1>1, <1>3, <2>1 DEF Open
<1>4. ASSUME NEW r \in Asks, Show(r) PROVE PaneInOrder'
  <2>1. CASE asked[r].rows # <<>>
    <3>1. pane' = base'.rows /\ late' = Coming /\ Coming' = Coming /\ base'.rows \in Seq(Msgs)
      BY <1>4, <2>1, TypeFacts DEF Show, Coming, live, IInv
    <3>2. Behind' = {}
      <4>1. Len(base'.rows) \in Nat
        BY <3>1
      <4> QED
        BY <3>1, <4>1 DEF Behind
    <3> QED
      BY <3>1, <3>2, NothingShown
  <2> QED
    BY <1>1, <1>4, <2>1 DEF Show
<1> QED
  BY <1>1, <1>2, <1>3, <1>4, PaneSteps

-----------------------------------------------------------------------------
LEMMA InitOrder == Init => OrderInv
<1> SUFFICES ASSUME Init PROVE OrderInv
  OBVIOUS
<1>1. SentInOrder /\ ReadInOrder /\ StoredInOrder /\ CopiesInOrder
  BY DEF Init, SentInOrder, ReadInOrder, StoredInOrder, CopiesInOrder, Pair
<1>2. Registered
  BY DEF Init, Registered
<1>3. PaneInOrder
  <2>1. Behind = {} /\ Elems(base.rows) = {}
    BY NothingBefore DEF Init, Behind, NoReply
  <2> QED
    BY <2>1 DEF PaneInOrder
<1> QED
  BY <1>1, <1>2, <1>3 DEF OrderInv

LEMMA NextOrder == IInv /\ OrderInv /\ [Next]_vars /\ IInv' => OrderInv'
BY SentStep, ReadStep, StoredStep, RegisteredStep, CopiesStep, PaneStep DEF OrderInv

(* A history is a piece of the table. *)
LEMMA NewestIsPiece ==
    ASSUME table \in Seq(Msgs), NEW n \in Nat, n <= Len(table)
    PROVE  \E f \in Nat : \A x \in DOMAIN Newest(n) :
             x \in Nat /\ f + x \in DOMAIN table /\ Newest(n)[x] = table[f + x]
<1> DEFINE f == IF n > Limit THEN n - Limit + 1 ELSE 1
<1>1. f \in Nat /\ f >= 1 /\ f \in Int /\ n \in Int
  BY ChatAssumption
<1>2. DOMAIN table = 1..Len(table) /\ Len(table) \in Nat /\ \A k \in f..n : table[k] \in Msgs
  BY <1>1
<1>3. Newest(n) = SubSeq(table, f, n)
  BY DEF Newest
<1> HIDE DEF f
<1>4. /\ Newest(n) \in Seq(Msgs)
      /\ Len(Newest(n)) = IF f <= n THEN n - f + 1 ELSE 0
      /\ \A k \in 1..(n - f + 1) : Newest(n)[k] = table[f + k - 1]
  BY <1>1, <1>2, <1>3, SubSeqProperties
<1>5. \A x \in DOMAIN Newest(n) : /\ Newest(n)[x] = table[f + x - 1]
                                  /\ f + x - 1 \in 1..n /\ f + x - 1 \in DOMAIN table
  BY <1>1, <1>2, <1>4
<1>6. \A x \in DOMAIN Newest(n) : x \in Nat
  BY <1>4
<1>7. PICK g \in Nat : \A x \in Nat : g + x = f + x - 1
  <2>1. f - 1 \in Nat /\ \A x \in Nat : (f - 1) + x = f + x - 1
    BY <1>1
  <2> QED
    BY <2>1
<1>8. \A x \in DOMAIN Newest(n) :
        x \in Nat /\ g + x \in DOMAIN table /\ Newest(n)[x] = table[g + x]
  BY <1>5, <1>6, <1>7
<1> QED
  BY <1>8

(* Messages are in order in the rows of a history shown.                   *)
LEMMA HistoryInOrder ==
    ASSUME IInv, StoredInOrder, NEW m \in Msgs, NEW k \in Msgs, Pair(m, k)
    PROVE  Before(base.rows, m, k)
<1>1. CASE base.n = 0
  BY <1>1, NothingBefore DEF IInv, Shown
<1>2. CASE base.n > 0
  <2>1. /\ base.rows = Newest(base.n) /\ base.n <= Len(table) /\ base.n \in Nat
        /\ table \in Seq(Msgs)
    BY <1>2, TypeFacts DEF IInv, Shown
  <2>2. PICK f \in Nat : \A x \in DOMAIN base.rows :
          x \in Nat /\ f + x \in DOMAIN table /\ base.rows[x] = table[f + x]
    BY <2>1, NewestIsPiece
  <2>3. Before(table, m, k)
    BY DEF StoredInOrder
  <2> SUFFICES ASSUME NEW i \in DOMAIN base.rows, NEW j \in DOMAIN base.rows,
                      base.rows[i] = m, base.rows[j] = k
               PROVE  i < j
    BY DEF Before
  <2>4. f + i < f + j
    BY <2>2, <2>3 DEF Before
  <2> QED
    BY <2>2, <2>4
<1> QED
  BY <1>1, <1>2, TypeFacts DEF IInv

(* The pane's places are those of the history and those behind it.         *)
LEMMA PlaceFacts ==
    ASSUME IInv, NEW m, NEW x \in Places(m)
    PROVE  /\ x \in Nat /\ pane[x] = m
           /\ \/ x \in DOMAIN base.rows /\ base.rows[x] = m /\ x <= Len(base.rows)
              \/ x \in Behind /\ x > Len(base.rows)
<1>1. /\ Len(pane) \in Nat /\ Len(base.rows) \in Nat /\ DOMAIN pane = 1..Len(pane)
      /\ DOMAIN base.rows = 1..Len(base.rows) /\ Len(base.rows) <= Len(pane)
      /\ \A k \in DOMAIN base.rows : pane[k] = base.rows[k]
  BY TypeFacts DEF IInv, Pane
<1>2. x \in DOMAIN pane /\ pane[x] = m
  BY DEF Places
<1>3. CASE x <= Len(base.rows)
  BY <1>1, <1>2, <1>3
<1>4. CASE x > Len(base.rows)
  <2> DEFINE a == Len(base.rows)
             b == Len(pane)
  <2>1. a \in Nat /\ b \in Nat /\ x \in 1..b /\ x > a
    BY <1>1, <1>2, <1>4
  <2>2. Behind = (a + 1)..b
    BY DEF Behind
  <2> HIDE DEF a, b
  <2>3. x \in Behind /\ x \in Nat
    BY <2>1, <2>2
  <2> QED
    BY <1>2, <1>4, <2>3
<1> QED
  BY <1>1, <1>2, <1>3, <1>4

LEMMA FirstFacts ==
    ASSUME IInv, NEW m, Places(m) # {}
    PROVE  First(m) \in Places(m) /\ \A j \in Places(m) : First(m) <= j
<1>1. Len(base.rows) \in Nat /\ Injective(base.rows)
  BY TypeFacts, BaseFacts DEF IInv
<1>2. CASE \E x \in Places(m) : x \in DOMAIN base.rows /\ base.rows[x] = m /\ x <= Len(base.rows)
  <2>1. PICK x \in Places(m) : x \in DOMAIN base.rows /\ base.rows[x] = m /\ x <= Len(base.rows)
    BY <1>2
  <2>2. ASSUME NEW j \in Places(m) PROVE x <= j
    <3>1. x \in Nat /\ j \in Nat
      BY PlaceFacts
    <3>2. CASE j \in DOMAIN base.rows /\ base.rows[j] = m
      BY <1>1, <2>1, <3>1, <3>2 DEF Injective
    <3>3. CASE j > Len(base.rows)
      BY <1>1, <2>1, <3>1, <3>3
    <3> QED
      BY <3>2, <3>3, PlaceFacts
  <2> QED
    BY <2>2 DEF First
<1>3. CASE \A x \in Places(m) : x \in Behind
  <2>1. PICK x : x \in Places(m)
    OBVIOUS
  <2>2. \A j \in Places(m) : x <= j
    <3> SUFFICES ASSUME NEW j \in Places(m) PROVE x <= j
      OBVIOUS
    <3>1. x \in Behind /\ j \in Behind /\ pane[x] = pane[j] /\ x \in Nat
      BY <1>3, <2>1, PlaceFacts
    <3>2. x = j
      BY <3>1 DEF IInv, Pane
    <3> QED
      BY <3>1, <3>2
  <2> QED
    BY <2>1, <2>2 DEF First
<1> QED
  BY <1>2, <1>3, PlaceFacts

(* Two messages sent on one connection are stored, and first shown, in     *)
(* that order, unless a history without the earlier one was shown while    *)
(* its live copy was on its way.                                           *)
THEOREM SendersOrderIsKept == Spec => []SenderOrderKept
<1>1. IInv /\ OrderInv => SenderOrderKept
  <2> SUFFICES ASSUME IInv, OrderInv, NEW m \in Msgs, NEW k \in Msgs, Pair(m, k)
               PROVE  /\ \A i, j \in DOMAIN table : table[i] = m /\ table[j] = k => i < j
                      /\ Places(m) # {} /\ Places(k) # {} /\ First(k) < First(m)
                         => m \in late \ Elems(base.rows)
    BY DEF SenderOrderKept, Pair
  <2>1. \A i, j \in DOMAIN table : table[i] = m /\ table[j] = k => i < j
    BY DEF OrderInv, StoredInOrder, Before
  <2>2. ASSUME Places(m) # {}, Places(k) # {}, First(k) < First(m)
        PROVE  m \in late \ Elems(base.rows)
    <3>1. PICK x \in Places(m) : x = First(m) /\ \A j \in Places(m) : x <= j
      BY <2>2, FirstFacts
    <3>2. PICK y \in Places(k) : y = First(k)
      BY <2>2, FirstFacts
    <3>3. y < x /\ x \in Nat /\ y \in Nat /\ Len(base.rows) \in Nat
      BY <2>2, <3>1, <3>2, PlaceFacts, TypeFacts DEF IInv
    <3>4. CASE y \in Behind
      <4>1. x \in Behind
        BY <3>3, <3>4, PlaceFacts DEF Behind
      <4>2. pane[x] = m /\ pane[y] = k
        BY PlaceFacts
      <4>3. x < y
        BY <3>4, <4>1, <4>2 DEF OrderInv, PaneInOrder
      <4> QED
        BY <3>3, <4>3
    <3>5. CASE y \in DOMAIN base.rows /\ base.rows[y] = k
      <4>1. m \notin Elems(base.rows)
        <5> SUFFICES ASSUME NEW i \in DOMAIN base.rows, base.rows[i] = m PROVE FALSE
          BY DEF Elems
        <5>1. i < y
          BY <3>5, HistoryInOrder DEF OrderInv, Before
        <5>2. i \in Places(m)
          <6>1. pane[i] = base.rows[i]
            BY DEF IInv, Pane
          <6>2. i \in DOMAIN pane
            BY TypeFacts DEF IInv, Pane
          <6> QED
            BY <6>1, <6>2 DEF Places
        <5>3. x <= i /\ i \in Nat
          BY <3>1, <5>2, PlaceFacts
        <5> QED
          BY <3>3, <5>1, <5>3
      <4>2. x \in Behind /\ pane[x] = m
        <5>1. ~(x \in DOMAIN base.rows /\ base.rows[x] = m)
          BY <4>1 DEF Elems
        <5> QED
          BY <5>1, PlaceFacts
      <4>3. k \in Elems(base.rows)
        BY <3>5 DEF Elems
      <4> QED
        BY <4>1, <4>2, <4>3 DEF OrderInv, PaneInOrder
    <3> QED
      BY <3>4, <3>5, PlaceFacts
  <2> QED
    BY <2>1, <2>2
<1>2. Spec => []OrderInv
  BY Invariant, InitOrder, NextOrder, PTL DEF Spec
<1> QED
  BY <1>1, <1>2, Invariant, PTL
=============================================================================
