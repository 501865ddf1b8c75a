---------------------------- MODULE FriendsProofs ----------------------------
(***************************************************************************)
(* For any users, any friendships to begin with and any finite number of   *)
(* calls: a recipient hears of a request once, a friendship is never taken *)
(* back, and what the messages table holds is between friends.             *)
(***************************************************************************)
EXTENDS Friends, FiniteSetTheorems, TLAPS

(* The calls that inserted a request of p and have yet to notify. *)
Notifying(p) == {h \in Calls : pc[h] = "notify" /\ arg[h] = p}
HasRow(p) == IF row[p] = "none" THEN 0 ELSE 1

(* Each row was inserted by one call and is paid for by it or by a         *)
(* rejection; the notice comes after the insert.                           *)
NoticesPaid ==
    \A p \in Pairs :
       notices[p] + Cardinality(Notifying(p)) <= rejections[p] + HasRow(p)

IInv == TypeOK /\ NoticesPaid /\ StoredAmongFriends

(* The calls that notify are finitely many, so they can be counted. *)
LEMMA NotifyingFinite ==
    ASSUME NEW p
    PROVE  IsFiniteSet(Notifying(p)) /\ Cardinality(Notifying(p)) \in Nat
<1>1. Notifying(p) \subseteq Calls
  BY DEF Notifying
<1>2. IsFiniteSet(Notifying(p))
  BY <1>1, FriendsAssumption, FS_Subset
<1> QED BY <1>2, FS_CardinalityType

(* The types hold initially and after every step. *)
LEMMA TypeInit == Init => TypeOK
  BY FriendsAssumption DEF Init, TypeOK

LEMMA TypeStep == TypeOK /\ [Next]_vars => TypeOK'
<1> SUFFICES ASSUME TypeOK, [Next]_vars PROVE TypeOK'
  OBVIOUS
<1> USE DEF TypeOK
<1>1. ASSUME NEW h \in Calls, CheckRequest(h) PROVE TypeOK'
  BY <1>1 DEF CheckRequest, Goto
<1>2. ASSUME NEW h \in Calls, InsertRequest(h) PROVE TypeOK'
  BY <1>2 DEF InsertRequest, Goto
<1>3. ASSUME NEW h \in Calls, NotifyRequest(h) PROVE TypeOK'
  BY <1>3 DEF NotifyRequest, Goto
<1>4. ASSUME NEW h \in Calls, AbortRequest(h) PROVE TypeOK'
  BY <1>4 DEF AbortRequest, Goto
<1>5. ASSUME NEW p \in Pairs, AcceptFriendRequest(p) PROVE TypeOK'
  BY <1>5 DEF AcceptFriendRequest
<1>6. ASSUME NEW p \in Pairs, RejectFriendRequest(p) PROVE TypeOK'
  BY <1>6 DEF RejectFriendRequest
<1>7. ASSUME NEW u \in Users, NEW v \in Users, DirectMessage(u, v) PROVE TypeOK'
  BY <1>7 DEF DirectMessage, CanSendDirectMessage, Pairs
<1>8. CASE UNCHANGED vars
  BY <1>8 DEF vars
<1> QED BY <1>1, <1>2, <1>3, <1>4, <1>5, <1>6, <1>7, <1>8 DEF Next

(* An accepted row stays accepted. *)
LEMMA AcceptedStays ==
    ASSUME TypeOK, [Next]_vars, NEW p \in Pairs, row[p] = "accepted"
    PROVE  row'[p] = "accepted"
<1>1. CASE UNCHANGED row
  BY <1>1
<1>2. ASSUME NEW h \in Calls, InsertRequest(h) PROVE row'[p] = "accepted"
  BY <1>2 DEF InsertRequest, TypeOK
<1>3. ASSUME NEW q \in Pairs, AcceptFriendRequest(q) PROVE row'[p] = "accepted"
  BY <1>3 DEF AcceptFriendRequest, TypeOK
<1>4. ASSUME NEW q \in Pairs, RejectFriendRequest(q) PROVE row'[p] = "accepted"
  BY <1>4 DEF RejectFriendRequest, TypeOK
<1> QED BY <1>1, <1>2, <1>3, <1>4
        DEF Next, vars, CheckRequest, NotifyRequest, AbortRequest, DirectMessage

(* So friends stay friends: either row of the two carries the friendship. *)
LEMMA FriendsStay ==
    ASSUME TypeOK, [Next]_vars, NEW u, NEW v, AreFriends(u, v)
    PROVE  AreFriends(u, v)'
<1>1. PICK p \in Pairs : p \in {<<u, v>>, <<v, u>>} /\ row[p] = "accepted"
  BY DEF AreFriends
<1>2. row'[p] = "accepted"
  BY <1>1, AcceptedStays
<1> QED BY <1>1, <1>2 DEF AreFriends

(* The table of messages gains only what the trigger lets through. *)
LEMMA StoredStep ==
    ASSUME TypeOK, StoredAmongFriends, [Next]_vars
    PROVE  StoredAmongFriends'
<1> SUFFICES ASSUME NEW p \in stored' PROVE AreFriends(p[1], p[2])'
  BY DEF StoredAmongFriends
<1>1. CASE p \in stored
  <2>1. AreFriends(p[1], p[2])
    BY <1>1 DEF StoredAmongFriends
  <2> QED BY <2>1, FriendsStay
<1>2. CASE p \notin stored
  <2>1. PICK u \in Users, v \in Users :
           CanSendDirectMessage(u, v) /\ p = <<u, v>>
    BY <1>2 DEF Next, vars, DirectMessage, CheckRequest, InsertRequest, NotifyRequest,
                AbortRequest, AcceptFriendRequest, RejectFriendRequest
  <2>2. AreFriends(p[1], p[2])
    BY <2>1 DEF CanSendDirectMessage
  <2> QED BY <2>2, FriendsStay
<1> QED BY <1>1, <1>2

(* The account of the notices is kept by every step. *)
LEMMA PaidStep ==
    ASSUME TypeOK, NoticesPaid, [Next]_vars
    PROVE  NoticesPaid'
<1> SUFFICES ASSUME NEW p \in Pairs
             PROVE  (notices[p] + Cardinality(Notifying(p)) <= rejections[p] + HasRow(p))'
  BY DEF NoticesPaid
<1> DEFINE N == Notifying(p)
<1>0. /\ notices[p] + Cardinality(N) <= rejections[p] + HasRow(p)
      /\ notices[p] \in Nat /\ rejections[p] \in Nat
      /\ IsFiniteSet(N) /\ Cardinality(N) \in Nat
  BY NotifyingFinite DEF NoticesPaid, TypeOK
<1>1. ASSUME NEW h \in Calls, CheckRequest(h)
      PROVE  (notices[p] + Cardinality(Notifying(p)) <= rejections[p] + HasRow(p))'
  <2>1. N' = N
    BY <1>1 DEF CheckRequest, Goto, Notifying, TypeOK
  <2>2. UNCHANGED <<row, notices, rejections>>
    BY <1>1 DEF CheckRequest
  <2> QED BY <1>0, <2>1, <2>2 DEF HasRow
<1>2. ASSUME NEW h \in Calls, InsertRequest(h)
      PROVE  (notices[p] + Cardinality(Notifying(p)) <= rejections[p] + HasRow(p))'
  <2>1. UNCHANGED <<notices, rejections>>
    BY <1>2 DEF InsertRequest
  <2>2. CASE row[arg[h]] = "none" /\ arg[h] = p
    <3>1. N' = N \cup {h} /\ h \notin N
      BY <1>2, <2>2 DEF InsertRequest, Goto, Notifying, TypeOK
    <3>2. Cardinality(N') = Cardinality(N) + 1
      BY <1>0, <3>1, FS_AddElement
    <3>3. HasRow(p) = 0 /\ HasRow(p)' = 1
      BY <1>2, <2>2 DEF InsertRequest, HasRow, TypeOK
    <3> QED BY <1>0, <2>1, <3>2, <3>3
  <2>3. CASE ~(row[arg[h]] = "none" /\ arg[h] = p)
    <3>1. N' = N
      BY <1>2, <2>3 DEF InsertRequest, Goto, Notifying, TypeOK
    <3>2. row'[p] = row[p]
      BY <1>2, <2>3 DEF InsertRequest, TypeOK
    <3> QED BY <1>0, <2>1, <3>1, <3>2 DEF HasRow
  <2> QED BY <2>2, <2>3
<1>3. ASSUME NEW h \in Calls, NotifyRequest(h)
      PROVE  (notices[p] + Cardinality(Notifying(p)) <= rejections[p] + HasRow(p))'
  <2>1. UNCHANGED <<row, rejections>>
    BY <1>3 DEF NotifyRequest
  <2>2. CASE arg[h] = p
    <3>1. N' = N \ {h} /\ h \in N
      BY <1>3, <2>2 DEF NotifyRequest, Goto, Notifying, TypeOK
    <3>2. Cardinality(N') = Cardinality(N) - 1
      BY <1>0, <3>1, FS_RemoveElement
    <3>3. notices'[p] = notices[p] + 1
      BY <1>3, <2>2 DEF NotifyRequest, TypeOK
    <3> QED BY <1>0, <2>1, <3>2, <3>3 DEF HasRow
  <2>3. CASE arg[h] # p
    <3>1. N' = N /\ notices'[p] = notices[p]
      BY <1>3, <2>3 DEF NotifyRequest, Goto, Notifying, TypeOK
    <3> QED BY <1>0, <2>1, <3>1 DEF HasRow
  <2> QED BY <2>2, <2>3
<1>4. ASSUME NEW h \in Calls, AbortRequest(h)
      PROVE  (notices[p] + Cardinality(Notifying(p)) <= rejections[p] + HasRow(p))'
  <2>1. UNCHANGED <<row, notices, rejections>>
    BY <1>4 DEF AbortRequest
  <2>2. N' \subseteq N
    BY <1>4 DEF AbortRequest, Goto, Notifying, TypeOK
  <2>3. Cardinality(N') \in Nat /\ Cardinality(N') <= Cardinality(N)
    BY <1>0, <2>2, FS_Subset, FS_CardinalityType
  <2> QED BY <1>0, <2>1, <2>3 DEF HasRow
<1>5. ASSUME NEW q \in Pairs, AcceptFriendRequest(q)
      PROVE  (notices[p] + Cardinality(Notifying(p)) <= rejections[p] + HasRow(p))'
  <2>1. N' = N /\ UNCHANGED <<notices, rejections>>
    BY <1>5 DEF AcceptFriendRequest, Notifying
  <2>2. HasRow(p)' = HasRow(p)
    BY <1>5 DEF AcceptFriendRequest, HasRow, TypeOK
  <2> QED BY <1>0, <2>1, <2>2
<1>6. ASSUME NEW q \in Pairs, RejectFriendRequest(q)
      PROVE  (notices[p] + Cardinality(Notifying(p)) <= rejections[p] + HasRow(p))'
  <2>1. N' = N /\ UNCHANGED notices
    BY <1>6 DEF RejectFriendRequest, Notifying
  <2>2. (rejections[p] + HasRow(p))' = rejections[p] + HasRow(p)
    BY <1>6 DEF RejectFriendRequest, HasRow, TypeOK
  <2> QED BY <1>0, <2>1, <2>2
<1>7. ASSUME NEW u \in Users, NEW v \in Users, DirectMessage(u, v)
      PROVE  (notices[p] + Cardinality(Notifying(p)) <= rejections[p] + HasRow(p))'
  <2>1. N' = N /\ UNCHANGED <<row, notices, rejections>>
    BY <1>7 DEF DirectMessage, Notifying
  <2> QED BY <1>0, <2>1 DEF HasRow
<1>8. CASE UNCHANGED vars
  <2>1. N' = N /\ UNCHANGED <<row, notices, rejections>>
    BY <1>8 DEF vars, Notifying
  <2> QED BY <1>0, <2>1 DEF HasRow
<1> QED BY <1>1, <1>2, <1>3, <1>4, <1>5, <1>6, <1>7, <1>8 DEF Next

(* Nobody notifies, and nothing is stored, in the beginning. *)
LEMMA InitIInv == Init => IInv
<1> SUFFICES ASSUME Init PROVE NoticesPaid /\ StoredAmongFriends
  BY TypeInit DEF IInv
<1>1. ASSUME NEW p \in Pairs
      PROVE  notices[p] + Cardinality(Notifying(p)) <= rejections[p] + HasRow(p)
  <2>1. Notifying(p) = {}
    BY DEF Init, Notifying
  <2>2. Cardinality(Notifying(p)) = 0
    BY <2>1, FS_EmptySet
  <2> QED BY <1>1, <2>2 DEF Init, HasRow
<1> QED BY <1>1 DEF NoticesPaid, StoredAmongFriends, Init

(* The inductive invariant holds in every reachable state. *)
THEOREM Invariance == Spec => []IInv
<1>1. IInv /\ [Next]_vars => IInv'
  BY TypeStep, PaidStep, StoredStep DEF IInv
<1> QED BY InitIInv, <1>1, PTL DEF Spec

(* Every reachable state is well typed (table, handlers, histories). *)
THEOREM TypeCorrect == Spec => []TypeOK
<1>1. IInv => TypeOK
  BY DEF IInv
<1> QED BY Invariance, <1>1, PTL

(* However many calls repeat a friend request, its recipient is notified   *)
(* once, and once more after each rejection (SendFriendRequest).           *)
THEOREM RequestNotifiedOnce == Spec => []RepeatsNotifyOnce
<1>1. IInv => RepeatsNotifyOnce
  <2> SUFFICES ASSUME IInv, NEW p \in Pairs PROVE notices[p] <= 1 + rejections[p]
    BY DEF RepeatsNotifyOnce
  <2>1. notices[p] + Cardinality(Notifying(p)) <= rejections[p] + HasRow(p)
    BY DEF IInv, NoticesPaid
  <2>2. /\ notices[p] \in Nat /\ rejections[p] \in Nat
        /\ Cardinality(Notifying(p)) \in Nat
    BY NotifyingFinite DEF IInv, TypeOK
  <2> QED BY <2>1, <2>2 DEF HasRow
<1> QED BY Invariance, <1>1, PTL

(* Every stored direct message is between users who are friends now (the   *)
(* trigger of the messages table).                                         *)
THEOREM MessagesAmongFriends == Spec => []StoredAmongFriends
<1>1. IInv => StoredAmongFriends
  BY DEF IInv
<1> QED BY Invariance, <1>1, PTL

(* No step of any handler ends a friendship. *)
THEOREM FriendshipLasts == Spec => FriendsForLife
<1>1. IInv /\ [Next]_vars =>
        [\A p \in Pairs : AreFriends(p[1], p[2]) => AreFriends(p[1], p[2])']_vars
  BY FriendsStay DEF IInv
<1> QED BY Invariance, <1>1, PTL DEF Spec, FriendsForLife
=============================================================================
