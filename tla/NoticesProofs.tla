---------------------------- MODULE NoticesProofs ----------------------------
(***************************************************************************)
(* Proofs of the safety properties of Notices, for any numbers of calls    *)
(* and events and any limits.                                              *)
(***************************************************************************)
EXTENDS Notices, FiniteSetTheorems, WellFoundedInduction, TLAPS

USE DEF Notice, Goto, events, notices, notifier

\* What is read of the pending notices is a set of them.
LEMMA OldestSubset ==
  ASSUME NEW S
  PROVE  Oldest(S) \subseteq S
BY DEF Oldest

\* In the initial state nothing has been told.
LEMMA TypeInit == Init => TypeOK
BY DEF Init, TypeOK

\* Adding events and notices keeps the types.
LEMMA TypeTell ==
  ASSUME TypeOK, (\E e \in Event : Stamp(e) \/ Store(e)) \/ AddNotice
  PROVE  TypeOK'
<1> USE EventAssumption DEF TypeOK
<1>1. ASSUME NEW e \in Event, Stamp(e)
      PROVE  TypeOK'
  <2>1. clock' \in Nat /\ clock <= clock'
    BY <1>1 DEF Stamp
  <2>2. stamp' \in [Event -> 0..clock'] /\ since' \in 0..clock'
    BY <1>1, <2>1 DEF Stamp
  <2> QED BY <1>1, <2>1, <2>2 DEF Stamp
<1>2. ASSUME NEW e \in Event, Store(e)
      PROVE  TypeOK'
  BY <1>2 DEF Store
<1>3. CASE AddNotice
  <2>1. created' = created + 1 /\ Notice \subseteq 1..(created + 1)
    BY <1>3 DEF AddNotice
  <2>2. pending' \subseteq 1..(created + 1)
    BY <1>3, <2>1 DEF AddNotice
  <2>3. picked' \in [Call -> SUBSET (1..(created + 1))]
    BY <1>3, <2>1 DEF AddNotice
  <2> QED BY <1>3, <2>1, <2>2, <2>3 DEF AddNotice
<1> QED BY <1>1, <1>2, <1>3

\* Calls keep the types.
LEMMA TypeCall ==
  ASSUME TypeOK, NEW c \in Call, Begin(c) \/ CallStep(c)
  PROVE  TypeOK'
<1> USE DEF TypeOK
<1>1. CASE Begin(c) \/ Plain(c)
  BY <1>1 DEF Begin, Plain
<1>2. CASE Collect(c)
  <2>1. Oldest(pending) \subseteq Notice
    BY OldestSubset
  <2> QED BY <1>2, <2>1 DEF Collect
<1>3. CASE Mark(c)
  BY <1>3 DEF Mark
<1>4. CASE Reply(c)
  BY <1>4 DEF Reply
<1> QED BY <1>1, <1>2, <1>3, <1>4 DEF CallStep

\* Polls and restarts keep the types.
LEMMA TypeOther ==
  ASSUME TypeOK, Poll \/ NotifierRestart \/ Crash
  PROVE  TypeOK'
<1> USE EventAssumption DEF TypeOK
<1>1. CASE Poll
  <2>1. PICK answer \in SUBSET Newer :
          /\ shown' = [e \in Event |-> IF e \in answer \cap Announced THEN shown[e] + 1 ELSE shown[e]]
          /\ \E last \in answer : since' = stamp[last]
          /\ excused' = excused \cup (Newer \ answer)
          /\ UNCHANGED <<events, notices>>
    BY <1>1 DEF Poll
  <2>2. Newer \subseteq Event
    BY DEF Newer
  <2> QED BY <2>1, <2>2
<1>2. CASE NotifierRestart
  BY <1>2 DEF NotifierRestart, Newer
<1>3. CASE Crash
  BY <1>3 DEF Crash
<1> QED BY <1>1, <1>2, <1>3

\* The state keeps its type.
THEOREM TypeCorrect == Spec => []TypeOK
<1>1. TypeOK /\ [Next]_vars => TypeOK'
  <2>1. TypeOK /\ UNCHANGED vars => TypeOK'
    BY DEF TypeOK, vars
  <2> QED BY <2>1, TypeTell, TypeCall, TypeOther DEF Next
<1> QED BY TypeInit, <1>1, PTL DEF Spec

-----------------------------------------------------------------------------
(***************************************************************************)
(* Order: what a call has read is older than what it left, and stays so,   *)
(* because only newer notices are added.                                   *)
(***************************************************************************)
OldestFirst == \A n \in pending, m \in Notice \ pending : m < n

ReadOldest ==
  \A c \in Call : pc[c] = "mark" =>
    \A n \in picked[c], m \in pending \ picked[c] : n < m

OrderInv == OldestFirst /\ ReadOldest

\* What is read of a set of notices is older than the rest of it.
LEMMA OldestAreOlder ==
  ASSUME NEW k \in Nat, NEW S \in SUBSET (1..k), NEW n \in Oldest(S), NEW m \in S \ Oldest(S)
  PROVE  n < m
<1> DEFINE UpTo(i) == {j \in S : j <= i}
<1>1. n \in Nat /\ m \in Nat /\ n \in S
  BY DEF Oldest
<1>2. SUFFICES ASSUME m <= n
               PROVE  FALSE
  BY <1>1
<1>3. IsFiniteSet(S)
  <2>1. IsFiniteSet(1..k)
    BY FS_Interval
  <2> QED BY <2>1, FS_Subset
<1>4. UpTo(m) \subseteq UpTo(n)
  <2>1. \A j \in S : j \in Nat /\ (j <= m => j <= n)
    BY <1>1, <1>2
  <2> QED BY <2>1
<1>5. IsFiniteSet(UpTo(n)) /\ IsFiniteSet(UpTo(m))
  BY <1>3, FS_Subset
<1>6. Cardinality(UpTo(m)) <= Cardinality(UpTo(n))
  BY <1>4, <1>5, FS_Subset
<1>7. Cardinality(UpTo(n)) \in Nat /\ Cardinality(UpTo(m)) \in Nat
  BY <1>5, FS_CardinalityType
<1>8. Cardinality(UpTo(n)) <= NoticeLimit
  BY DEF Oldest
<1>9. Cardinality(UpTo(m)) <= NoticeLimit
  BY <1>6, <1>7, <1>8, LimitAssumption
<1> QED BY <1>9 DEF Oldest

\* Every step keeps the order.
LEMMA OrderStep == TypeOK /\ OrderInv /\ [Next]_vars => OrderInv'
<1> SUFFICES ASSUME TypeOK, OrderInv, [Next]_vars
             PROVE  OrderInv'
  OBVIOUS
<1> USE DEF TypeOK, OrderInv, OldestFirst, ReadOldest
<1>1. ASSUME UNCHANGED <<created, pending, pc, picked>>
      PROVE  OrderInv'
  BY <1>1
<1>2. CASE AddNotice
  <2>1. created' = created + 1 /\ pending' = pending \cup {created + 1} /\ UNCHANGED <<pc, picked>>
    BY <1>2 DEF AddNotice
  <2>2. \A n \in Notice : n < created + 1
    OBVIOUS
  <2>3. Notice' \ pending' = Notice \ pending
    BY <2>1
  <2>4. OldestFirst'
    BY <2>1, <2>2, <2>3
  <2>5. ReadOldest'
    BY <2>1, <2>2
  <2> QED BY <2>4, <2>5
<1>3. ASSUME NEW c \in Call, Begin(c) \/ Plain(c) \/ Reply(c)
      PROVE  OrderInv'
  BY <1>3 DEF Begin, Plain, Reply
<1>4. ASSUME NEW c \in Call, Collect(c)
      PROVE  OrderInv'
  <2>1. UNCHANGED <<created, pending>> /\ picked' = [picked EXCEPT ![c] = Oldest(pending)]
    BY <1>4 DEF Collect
  <2>2. \A n \in Oldest(pending), m \in pending \ Oldest(pending) : n < m
    BY OldestAreOlder
  <2>3. \A k \in Call \ {c} : pc'[k] = pc[k] /\ picked'[k] = picked[k]
    BY <1>4 DEF Collect
  <2>4. ReadOldest'
    BY <2>1, <2>2, <2>3
  <2> QED BY <2>1, <2>4
<1>5. ASSUME NEW c \in Call, Mark(c)
      PROVE  OrderInv'
  BY <1>5 DEF Mark
<1>6. CASE Crash
  BY <1>6 DEF Crash
<1>7. ASSUME NEW e \in Event, Stamp(e) \/ Store(e)
      PROVE  OrderInv'
  BY <1>1, <1>7 DEF Stamp, Store
<1>8. CASE Poll \/ NotifierRestart
  BY <1>1, <1>8 DEF Poll, NotifierRestart
<1>9. CASE UNCHANGED vars
  BY <1>1, <1>9 DEF vars
<1> QED BY <1>2, <1>3, <1>4, <1>5, <1>6, <1>7, <1>8, <1>9 DEF Next, CallStep

\* Notices are delivered in the order they were made.
THEOREM InOrder == Spec => []OldestFirst
<1>1. Init => OrderInv
  BY DEF Init, OrderInv, OldestFirst, ReadOldest
<1>2. OrderInv => OldestFirst
  BY DEF OrderInv
<1> QED BY <1>1, <1>2, OrderStep, TypeCorrect, PTL DEF Spec

-----------------------------------------------------------------------------
(***************************************************************************)
(* What was read twice: a notice on a reply, or received, is not pending,  *)
(* so that only calls that read it before can hold it too.                 *)
(***************************************************************************)
TwiceInv ==
  /\ received \cap pending = {}
  /\ \A c \in Call : pc[c] = "reply" => picked[c] \cap pending = {}
  /\ \A c \in Call : pc[c] \in {"idle", "handler"} => picked[c] = {}
  /\ \A c \in Call : picked[c] \cap received \subseteq overlap
  /\ \A c, k \in Call : c # k => picked[c] \cap picked[k] \subseteq overlap
  /\ TwiceOnlyOverlapping
  /\ NoticeAccounted

\* Every step keeps account of the notices.
LEMMA TwiceStep == TypeOK /\ TwiceInv /\ [Next]_vars => TwiceInv'
<1> SUFFICES ASSUME TypeOK, TwiceInv, [Next]_vars
             PROVE  TwiceInv'
  OBVIOUS
<1> USE DEF TypeOK, TwiceInv, TwiceOnlyOverlapping, NoticeAccounted
<1>1. ASSUME UNCHANGED notices
      PROVE  TwiceInv'
  BY <1>1
<1>2. CASE AddNotice
  <2>1. /\ created' = created + 1 /\ pending' = pending \cup {created + 1}
        /\ UNCHANGED <<pc, picked, received, again, lost, overlap>>
    BY <1>2 DEF AddNotice
  <2>2. created + 1 \notin Notice
    OBVIOUS
  <2>3. Notice' \ pending' = Notice \ pending
    BY <2>1
  <2> QED BY <2>1, <2>2, <2>3
<1>3. ASSUME NEW c \in Call, Begin(c) \/ Plain(c)
      PROVE  TwiceInv'
  <2>1. /\ pc[c] \in {"idle", "handler"} /\ pc'[c] \in {"idle", "handler"}
        /\ \A k \in Call \ {c} : pc'[k] = pc[k]
        /\ UNCHANGED <<created, pending, picked, received, again, lost, overlap>>
    BY <1>3 DEF Begin, Plain
  <2>2. {k \in Call : pc'[k] = "reply"} = {k \in Call : pc[k] = "reply"}
    BY <2>1
  <2> QED BY <2>1, <2>2
<1>4. ASSUME NEW c \in Call, Collect(c)
      PROVE  TwiceInv'
  <2> DEFINE read == Oldest(pending)
  <2>1. read \subseteq pending /\ picked[c] = {}
    BY <1>4, OldestSubset DEF Collect
  <2>2. /\ picked' = [picked EXCEPT ![c] = read] /\ pc' = [pc EXCEPT ![c] = pc'[c]]
        /\ pc[c] = "handler" /\ pc'[c] \in {"idle", "mark"}
        /\ pc'[c] = "idle" => pending = {}
        /\ UNCHANGED <<created, pending, received, again, lost>>
    BY <1>4 DEF Collect
  <2>3. overlap' = overlap \cup UNION {picked[k] \cap read : k \in Call}
    BY <1>4 DEF Collect
  <2> HIDE DEF read
  <2>4. \A k \in Call : picked[k] \cap read \subseteq overlap'
    BY <2>3
  <2>5. picked'[c] = read /\ \A k \in Call \ {c} : picked'[k] = picked[k] /\ pc'[k] = pc[k]
    BY <2>2
  <2>6. overlap \subseteq overlap'
    BY <2>3
  <2>7. \A k \in Call : picked'[k] \cap received' \subseteq overlap'
    BY <2>1, <2>2, <2>5, <2>6
  <2>8. \A j, k \in Call : j # k => picked'[j] \cap picked'[k] \subseteq overlap'
    BY <2>4, <2>5, <2>6
  <2>9. NoticeAccounted'
    BY <2>2, <2>5
  <2>10. /\ \A k \in Call : pc'[k] = "reply" => picked'[k] \cap pending' = {}
         /\ \A k \in Call : pc'[k] \in {"idle", "handler"} => picked'[k] = {}
    BY <2>1, <2>2, <2>5
  <2> QED BY <2>2, <2>6, <2>7, <2>8, <2>9, <2>10
<1>5. ASSUME NEW c \in Call, Mark(c)
      PROVE  TwiceInv'
  <2>1. /\ pc[c] = "mark" /\ pc'[c] = "reply" /\ \A k \in Call \ {c} : pc'[k] = pc[k]
        /\ pending' = pending \ picked[c]
        /\ UNCHANGED <<created, picked, received, again, lost, overlap>>
    BY <1>5 DEF Mark
  <2>2. \A k \in Call : pc'[k] = "reply" => picked[k] \cap pending' = {}
    BY <2>1
  <2>3. NoticeAccounted'
    BY <2>1
  <2> QED BY <2>1, <2>2, <2>3
<1>6. ASSUME NEW c \in Call, Reply(c)
      PROVE  TwiceInv'
  <2>1. /\ pc[c] = "reply" /\ pc' = [pc EXCEPT ![c] = "idle"]
        /\ picked' = [picked EXCEPT ![c] = {}]
        /\ UNCHANGED <<created, pending, overlap>>
    BY <1>6 DEF Reply
  <2>2. \/ /\ again' = again \cup (received \cap picked[c])
           /\ received' = received \cup picked[c] /\ lost' = lost
        \/ lost' = lost \cup picked[c] /\ UNCHANGED <<received, again>>
    BY <1>6 DEF Reply
  <2>3. picked'[c] = {} /\ \A k \in Call \ {c} : picked'[k] = picked[k] /\ pc'[k] = pc[k]
    BY <2>1
  <2>4. NoticeAccounted'
    BY <2>1, <2>2, <2>3
  <2>5. \A k \in Call : picked'[k] \cap received' \subseteq overlap'
    BY <2>1, <2>2, <2>3
  <2> QED BY <2>1, <2>2, <2>3, <2>4, <2>5
<1>7. CASE Crash
  BY <1>7 DEF Crash
<1>8. ASSUME NEW e \in Event, Stamp(e) \/ Store(e)
      PROVE  TwiceInv'
  BY <1>1, <1>8 DEF Stamp, Store
<1>9. CASE Poll \/ NotifierRestart
  BY <1>1, <1>9 DEF Poll, NotifierRestart
<1>10. CASE UNCHANGED vars
  BY <1>1, <1>10 DEF vars
<1> QED BY <1>2, <1>3, <1>4, <1>5, <1>6, <1>7, <1>8, <1>9, <1>10 DEF Next, CallStep

\* Initially there is no notice.
LEMMA TwiceInit == Init => TwiceInv
BY DEF Init, TwiceInv, TwiceOnlyOverlapping, NoticeAccounted

\* A delivered notice has arrived, is about to, or went down with its reply.
THEOREM NoNoticeForgotten == Spec => []NoticeAccounted
<1>1. TwiceInv => NoticeAccounted
  BY DEF TwiceInv
<1> QED BY <1>1, TwiceInit, TwiceStep, TypeCorrect, PTL DEF Spec

\* Only calls that overlap bring a notice twice.
THEOREM NoNeedlessRepeat == Spec => []TwiceOnlyOverlapping
<1>1. TwiceInv => TwiceOnlyOverlapping
  BY DEF TwiceInv
<1> QED BY <1>1, TwiceInit, TwiceStep, TypeCorrect, PTL DEF Spec

-----------------------------------------------------------------------------
(***************************************************************************)
(* The notices implement Mailbox: what a call marks is still the front of  *)
(* the queue, or was marked by another call that had read the same.        *)
(***************************************************************************)
\* A finite set of numbers that is not empty has a greatest one.
LEMMA Greatest ==
  ASSUME NEW k \in Nat, NEW T \in SUBSET (1..k), T # {}
  PROVE  \E n \in T : \A m \in T : m <= n
<1> DEFINE Below == {k - n : n \in T}
           R == {ss \in Nat \X Nat : ss[1] < ss[2]}
<1>1. Below \subseteq Nat /\ Below # {}
  <2>1. \A n \in T : k - n \in Nat
    OBVIOUS
  <2>2. PICK n \in T : TRUE
    OBVIOUS
  <2> QED BY <2>1, <2>2
<1>2. PICK x \in Below : \A y \in Below : <<y, x>> \notin R
  <2>1. IsWellFoundedOn(R, Nat)
    BY NatLessThanWellFounded DEF OpToRel
  <2> HIDE DEF Below, R
  <2> QED BY <1>1, <2>1, WFMin
<1>3. PICK n \in T : x = k - n
  BY <1>2
<1>4. ASSUME NEW m \in T
      PROVE  m <= n
  <2>1. m \in Nat /\ n \in Nat /\ k - m \in Below /\ k - n \in Below
    OBVIOUS
  <2> HIDE DEF Below
  <2>2. ~(k - m < k - n)
    BY <1>1, <1>2, <1>3, <2>1
  <2> HIDE DEF R
  <2> QED BY <2>1, <2>2
<1> QED BY <1>4

\* A call reads no more notices than the limit.
LEMMA OldestFew ==
  ASSUME NEW k \in Nat, NEW S \in SUBSET (1..k)
  PROVE  IsFiniteSet(Oldest(S)) /\ Cardinality(Oldest(S)) <= NoticeLimit
<1>1. IsFiniteSet(S) /\ Oldest(S) \subseteq S
  <2>1. IsFiniteSet(1..k)
    BY FS_Interval
  <2> QED BY <2>1, FS_Subset, OldestSubset
<1>2. IsFiniteSet(Oldest(S))
  BY <1>1, FS_Subset
<1>3. CASE Oldest(S) = {}
  BY <1>2, <1>3, FS_EmptySet, LimitAssumption
<1>4. CASE Oldest(S) # {}
  <2>1. PICK n \in Oldest(S) : \A m \in Oldest(S) : m <= n
    BY <1>1, <1>4, Greatest
  <2> DEFINE UpTo == {m \in S : m <= n}
  <2>2. IsFiniteSet(UpTo) /\ Oldest(S) \subseteq UpTo
    BY <1>1, <2>1, FS_Subset
  <2>3. Cardinality(UpTo) <= NoticeLimit
    BY <2>1 DEF Oldest
  <2>4. Cardinality(Oldest(S)) <= Cardinality(UpTo)
    BY <2>2, FS_Subset
  <2>5. Cardinality(Oldest(S)) \in Nat /\ Cardinality(UpTo) \in Nat
    BY <1>2, <2>2, FS_CardinalityType
  <2> HIDE DEF UpTo
  <2> QED BY <1>2, <2>3, <2>4, <2>5, LimitAssumption
<1> QED BY <1>3, <1>4

\* what a call holds, whatever it awaits, fits the limit
FewPicked ==
  \A c \in Call : IsFiniteSet(picked[c]) /\ Cardinality(picked[c]) <= NoticeLimit

LEMMA FewPickedStep == TypeOK /\ FewPicked /\ [Next]_vars => FewPicked'
<1> SUFFICES ASSUME TypeOK, FewPicked, [Next]_vars
             PROVE  FewPicked'
  OBVIOUS
<1>1. IsFiniteSet({}) /\ Cardinality({}) <= NoticeLimit
  BY FS_EmptySet, LimitAssumption
<1>2. IsFiniteSet(Oldest(pending)) /\ Cardinality(Oldest(pending)) <= NoticeLimit
  BY OldestFew DEF TypeOK
<1>3. ASSUME NEW c \in Call, Collect(c) \/ Reply(c)
      PROVE  FewPicked'
  <2>1. \A k \in Call : picked'[k] \in {picked[k], {}, Oldest(pending)}
    BY <1>3 DEF Collect, Reply, TypeOK
  <2> QED BY <1>1, <1>2, <2>1 DEF FewPicked
<1>4. CASE Crash
  BY <1>1, <1>4 DEF Crash, FewPicked
<1>5. CASE UNCHANGED picked
  BY <1>5 DEF FewPicked
<1>6. [Next]_vars => (\E c \in Call : Collect(c) \/ Reply(c)) \/ Crash \/ UNCHANGED picked
  BY DEF Next, CallStep, Stamp, Store, AddNotice, Begin, Plain, Mark, Poll, NotifierRestart, vars
<1> QED BY <1>3, <1>4, <1>5, <1>6

\* Marks take the front of the queue, replies tell what was taken.
LEMMA BoxStep ==
  TypeOK /\ ReadOldest /\ TwiceInv /\ FewPicked /\ [Next]_vars
    => [Box!Next]_<<created, pending, received>>
<1> SUFFICES ASSUME TypeOK, ReadOldest, TwiceInv, FewPicked, [Next]_vars
             PROVE  Box!Next \/ UNCHANGED <<created, pending, received>>
  OBVIOUS
<1> USE DEF TypeOK
<1>1. CASE AddNotice
  <2>1. Box!Post
    BY <1>1 DEF AddNotice, Box!Post
  <2> QED BY <2>1 DEF Box!Next
<1>2. ASSUME NEW c \in Call, Mark(c)
      PROVE  Box!Next
  <2> DEFINE S == picked[c] \cap pending
  <2>1. S \subseteq picked[c] /\ IsFiniteSet(picked[c]) /\ Cardinality(picked[c]) <= NoticeLimit
    BY DEF FewPicked
  <2>2. IsFiniteSet(S) /\ Cardinality(S) <= NoticeLimit
    <3>1. IsFiniteSet(S) /\ Cardinality(S) <= Cardinality(picked[c])
      BY <2>1, FS_Subset
    <3>2. Cardinality(S) \in Nat /\ Cardinality(picked[c]) \in Nat
      BY <2>1, <3>1, FS_CardinalityType
    <3> HIDE DEF S
    <3> QED BY <2>1, <3>1, <3>2, LimitAssumption
  <2>3. \A n \in S, m \in pending \ S : n < m
    BY <1>2 DEF ReadOldest, Mark
  <2>4. pending' = pending \ S /\ UNCHANGED <<created, received>>
    BY <1>2 DEF Mark
  <2>5. S \in SUBSET pending
    OBVIOUS
  <2> HIDE DEF S
  <2>6. Box!Take(S)
    <3>1. UNCHANGED <<created, received>> /\ S \subseteq pending
      BY <2>4, <2>5
    <3>2. Box!Cardinality(S) = Cardinality(S)
      BY DEF Box!Cardinality, Cardinality
    <3> QED BY <2>2, <2>3, <2>4, <3>1, <3>2 DEF Box!Take
  <2> QED BY <2>5, <2>6 DEF Box!Next
<1>3. ASSUME NEW c \in Call, Reply(c)
      PROVE  Box!Next
  <2>1. /\ pc[c] = "reply" /\ UNCHANGED <<created, pending>>
        /\ received' \in {received, received \cup picked[c]}
    BY <1>3 DEF Reply
  <2>2. picked[c] \subseteq (1..created) \ pending
    BY <2>1 DEF TwiceInv
  <2>3. PICK S \in SUBSET (1..created) : S \subseteq (1..created) \ pending /\ received' = received \cup S
    <3>1. CASE received' = received \cup {}
      BY <3>1
    <3>2. CASE received' = received \cup picked[c]
      BY <2>2, <3>2
    <3> QED BY <2>1, <3>1, <3>2
  <2>4. Box!Tell(S)
    BY <2>1, <2>3 DEF Box!Tell
  <2> QED BY <2>3, <2>4 DEF Box!Next
<1>4. CASE UNCHANGED <<created, pending, received>>
  BY <1>4
<1>5. \/ AddNotice \/ (\E c \in Call : Mark(c) \/ Reply(c))
      \/ UNCHANGED <<created, pending, received>>
  BY DEF Next, CallStep, Stamp, Store, Begin, Plain, Collect, Poll, NotifierRestart, Crash, vars
<1> QED BY <1>1, <1>2, <1>3, <1>4, <1>5

\* For any limit, any calls that overlap and any faults, the notices of a repository are a
\* mailbox: taken from the front, a limit of them at a time, and told only then.
THEOREM NoticesImplementMailbox == Spec => TakenInOrder
<1>1. Init => Box!Init /\ FewPicked
  BY FS_EmptySet, LimitAssumption DEF Init, Box!Init, FewPicked
<1>2. OrderInv => ReadOldest
  BY DEF OrderInv
<1>3. Init => OrderInv
  BY DEF Init, OrderInv, OldestFirst, ReadOldest
<1> QED BY <1>1, <1>2, <1>3, OrderStep, TwiceInit, TwiceStep, FewPickedStep, BoxStep,
           TypeCorrect, PTL DEF Spec, TakenInOrder, Box!Spec

-----------------------------------------------------------------------------
(***************************************************************************)
(* The notifier: what it has shown lies behind it, and so does, in the     *)
(* table, only what it has shown or is excused of.                         *)
(***************************************************************************)
ShownInv ==
  /\ \A e \in writing \cup stored : stamp[e] > 0
  /\ \A e \in Event : shown[e] > 0 => e \in stored /\ stamp[e] <= since
  /\ AllShown

\* Every step keeps account of the events.
LEMMA ShownStep == TypeOK /\ ShownInv /\ [Next]_vars => ShownInv'
<1> SUFFICES ASSUME TypeOK, ShownInv, [Next]_vars
             PROVE  ShownInv'
  OBVIOUS
<1> USE EventAssumption DEF TypeOK, ShownInv, AllShown
<1>1. ASSUME UNCHANGED <<stamp, stored, notifier>>, writing' \subseteq writing
      PROVE  ShownInv'
  BY <1>1
<1>2. ASSUME NEW e \in Event, Stamp(e)
      PROVE  ShownInv'
  <2>1. stamp' = [stamp EXCEPT ![e] = clock'] /\ clock' \in Nat /\ clock' > 0
    BY <1>2 DEF Stamp
  <2>2. e \notin stored /\ writing' = writing \cup {e} /\ UNCHANGED <<stored, notifier>>
    BY <1>2 DEF Stamp
  <2>3. \A f \in Event \ {e} : stamp'[f] = stamp[f]
    BY <2>1
  <2> QED BY <2>1, <2>2, <2>3
<1>3. ASSUME NEW e \in Event, Store(e)
      PROVE  ShownInv'
  BY <1>3 DEF Store
<1>4. CASE Poll
  <2>1. PICK answer \in SUBSET Newer :
          /\ shown' = [e \in Event |-> IF e \in answer \cap Announced THEN shown[e] + 1 ELSE shown[e]]
          /\ \E last \in answer : (\A e \in answer : stamp[e] <= stamp[last]) /\ since' = stamp[last]
          /\ excused' = excused \cup (Newer \ answer)
          /\ UNCHANGED <<events, notices>>
    BY <1>4 DEF Poll
  <2>2. answer \subseteq Newer /\ Newer = {e \in stored : stamp[e] > since}
    BY <2>1 DEF Newer
  <2>3. since < since' /\ \A e \in answer : stamp[e] <= since'
    BY <2>1, <2>2
  <2>4. \A e \in Event : shown'[e] > 0 => e \in stored /\ stamp[e] <= since'
    BY <2>1, <2>2, <2>3
  <2>5. \A e \in Event : e \in answer => shown[e] = 0
    BY <2>2
  <2>6. \A e \in Event : shown'[e] <= 1
    BY <2>1, <2>5
  <2>7. ASSUME NEW e \in (Warn \cup Error) \cap stored, stamp[e] <= since'
        PROVE  shown'[e] > 0 \/ e \in excused'
    <3>1. CASE e \in answer
      BY <2>1, <2>5, <3>1 DEF Announced
    <3>2. CASE e \in Newer \ answer
      BY <2>1, <3>2
    <3>3. CASE e \notin Newer
      <4>1. stamp[e] <= since
        BY <2>2, <3>3
      <4>2. shown'[e] = shown[e] /\ excused \subseteq excused'
        BY <2>1, <2>2, <3>3
      <4> QED BY <4>1, <4>2
    <3> QED BY <3>1, <3>2, <3>3
  <2> QED BY <2>1, <2>4, <2>6, <2>7
<1>5. CASE NotifierRestart
  BY <1>5 DEF NotifierRestart, Newer
<1>6. CASE AddNotice \/ Crash
  BY <1>1, <1>6 DEF AddNotice, Crash
<1>7. ASSUME NEW c \in Call, Begin(c) \/ CallStep(c)
      PROVE  ShownInv'
  BY <1>1, <1>7 DEF Begin, CallStep, Plain, Collect, Mark, Reply
<1>8. CASE UNCHANGED vars
  BY <1>1, <1>8 DEF vars
<1> QED BY <1>2, <1>3, <1>4, <1>5, <1>6, <1>7, <1>8 DEF Next

\* Initially there is no event.
LEMMA ShownInit == Init => ShownInv
BY DEF Init, ShownInv, AllShown

\* The notifier shows no event twice, and every warning and error it could see.
THEOREM NothingHidden == Spec => []AllShown
<1>1. ShownInv => AllShown
  BY DEF ShownInv
<1> QED BY <1>1, ShownInit, ShownStep, TypeCorrect, PTL DEF Spec

\* While boxerd stays up and the connections hold, a notice marked delivered has arrived or
\* is on a reply about to be written: no overlap of calls and no limit loses one.
THEOREM DeliveredArrives ==
  ASSUME Faults \cap {"crash", "connection"} = {}
  PROVE  Spec => [](Notice \ pending \subseteq
                      received \cup UNION {picked[c] : c \in {k \in Call : pc[k] = "reply"}})
<1>1. Init => lost = {}
  BY DEF Init
<1>2. lost = {} /\ [Next]_vars => (lost = {})'
  <2> SUFFICES ASSUME [Next]_vars
               PROVE  UNCHANGED lost
    OBVIOUS
  <2>1. ASSUME NEW c \in Call, CallStep(c) \/ Begin(c)
        PROVE  UNCHANGED lost
    BY <2>1 DEF CallStep, Begin, Plain, Collect, Mark, Reply
  <2>2. CASE AddNotice \/ Poll \/ NotifierRestart
    BY <2>2 DEF AddNotice, Poll, NotifierRestart, notices
  <2>3. ASSUME NEW e \in Event, Stamp(e) \/ Store(e)
        PROVE  UNCHANGED lost
    BY <2>3 DEF Stamp, Store, notices
  <2>4. ~Crash
    BY DEF Crash
  <2> QED BY <2>1, <2>2, <2>3, <2>4 DEF Next, vars, notices
<1>3. NoticeAccounted /\ lost = {} =>
        Notice \ pending \subseteq
          received \cup UNION {picked[c] : c \in {k \in Call : pc[k] = "reply"}}
  BY DEF NoticeAccounted
<1> QED BY NoNoticeForgotten, <1>1, <1>2, <1>3, PTL DEF Spec

\* A repository with one call at a time is told nothing twice, whatever crashes and whatever
\* replies are lost.
THEOREM OneCallHearsOnce ==
  ASSUME \A c, k \in Call : c = k
  PROVE  Spec => [](again = {})
<1>1. TypeOK /\ TwiceInv /\ overlap = {} /\ [Next]_vars => (overlap = {})'
  <2> SUFFICES ASSUME TypeOK, TwiceInv, overlap = {}, [Next]_vars
               PROVE  overlap' = {}
    OBVIOUS
  <2>1. ASSUME NEW c \in Call, Collect(c)
        PROVE  overlap' = {}
    <3>1. picked[c] = {} /\ \A k \in Call : k = c
      BY <2>1 DEF Collect, TwiceInv
    <3> QED BY <2>1, <3>1 DEF Collect
  <2>2. CASE UNCHANGED overlap
    BY <2>2
  <2>3. (\E c \in Call : Collect(c)) \/ UNCHANGED overlap
    BY DEF Next, CallStep, Begin, Plain, Mark, Reply, AddNotice, Poll, NotifierRestart, Stamp,
    Store, Crash, vars, notices
  <2> QED BY <2>1, <2>2, <2>3
<1>2. Init => overlap = {}
  BY DEF Init
<1>3. TwiceOnlyOverlapping /\ overlap = {} => again = {}
  BY DEF TwiceOnlyOverlapping
<1>4. TypeOK /\ TwiceInv /\ [Next]_vars => TwiceInv'
  BY TwiceStep
<1> QED BY <1>1, <1>2, <1>3, <1>4, TwiceInit, TypeCorrect, NoNeedlessRepeat, PTL DEF Spec

=============================================================================
