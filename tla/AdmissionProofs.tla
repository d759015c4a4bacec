--------------------------- MODULE AdmissionProofs ---------------------------
(***************************************************************************)
(* Proofs, for any numbers of connections, requests and projects and any   *)
(* caps, of the bounds that the runs of MCAdmission check.                 *)
(***************************************************************************)
EXTENDS Admission, FiniteSetTheorems, SequenceTheorems, TLAPS

USE DEF At, Goto, Rest, PreCheckPc, HandlerPc, ActorPc, past

\* Nothing has been asked in the initial state.
LEMMA TypeInit == Init => TypeOK
<1> SUFFICES ASSUME Init PROVE TypeOK
  OBVIOUS
<1>1. queue \in Seq(Request) /\ batch \in Seq(Request)
  BY EmptySeq DEF Init
<1>2. row \in [Request -> {"none", "running", "stopped"}] /\ created \in [Request -> Nat]
  BY DEF Init
<1>3. /\ pc \in [Actor -> ActorPc] /\ req \in [Actor -> Request \cup {NoRequest}]
      /\ \A a \in Actor : pc[a] = "idle"
  BY DEF Init
<1> QED BY <1>1, <1>2, <1>3 DEF Init, TypeOK, Actor

\* A handler that goes on, answers or raises leaves its actor in type.
LEMMA MoveTypes ==
  ASSUME TypeOK, NEW a \in Actor, pc[a] # "idle",
         Answered(a) \/ Raised(a) \/ (\E p \in HandlerPc : Goto(a, p))
  PROVE  /\ pc' \in [Actor -> ActorPc] /\ req' \in [Actor -> Request \cup {NoRequest}]
         /\ \A b \in Actor : pc'[b] # "idle" => req'[b] \in Request
         /\ \A c \in Client : pc'[c] \in {"idle"} \cup HandlerPc
<1> USE ActorAssumption DEF TypeOK, Actor
<1>1. CASE Rest(a)
  BY <1>1
<1>2. CASE a = Runner /\ (Goto(a, "done") \/ Goto(a, "expire"))
  BY <1>2
<1>3. ASSUME NEW p \in HandlerPc, Goto(a, p)
      PROVE  /\ pc' \in [Actor -> ActorPc] /\ req' \in [Actor -> Request \cup {NoRequest}]
             /\ \A b \in Actor : pc'[b] # "idle" => req'[b] \in Request
             /\ \A c \in Client : pc'[c] \in {"idle"} \cup HandlerPc
  BY <1>3
<1> QED BY <1>1, <1>2, <1>3 DEF Answered, Raised

\* A handler's steps keep the types, whoever runs it.
LEMMA TypeHandle ==
  ASSUME TypeOK, NEW a \in Actor, Handle(a)
  PROVE  TypeOK'
<1>1. /\ pc' \in [Actor -> ActorPc] /\ req' \in [Actor -> Request \cup {NoRequest}]
      /\ \A b \in Actor : pc'[b] # "idle" => req'[b] \in Request
      /\ \A c \in Client : pc'[c] \in {"idle"} \cup HandlerPc
  <2>1. pc[a] # "idle" /\ (Answered(a) \/ Raised(a) \/ (\E p \in HandlerPc : Goto(a, p)))
    BY DEF Handle, CheckInstalls, CheckHost, CheckProject, Boot, Insert, InsertRaises, Enqueue
  <2> QED BY <2>1, MoveTypes
<1>2. req[a] \in Request
  BY DEF TypeOK, Handle, CheckInstalls, CheckHost, CheckProject, Boot, Insert, InsertRaises,
         Enqueue
<1>3. CASE CheckInstalls(a) \/ CheckHost(a) \/ CheckProject(a) \/ InsertRaises(a)
  BY <1>1, <1>3 DEF TypeOK, CheckInstalls, CheckHost, CheckProject, InsertRaises
<1>4. CASE Boot(a)
  BY <1>1, <1>2, <1>4 DEF TypeOK, Boot
<1>5. CASE Insert(a)
  <2>1. row' \in [Request -> {"none", "running", "stopped"}] /\ created' \in [Request -> Nat]
    BY <1>2, <1>5 DEF Insert, TypeOK
  <2>2. installing' \subseteq Request
    BY <1>2, <1>5 DEF Insert, TypeOK
  <2> QED BY <1>1, <1>5, <2>1, <2>2 DEF Insert, TypeOK
<1>6. CASE Enqueue(a)
  <2>1. queue' \in Seq(Request)
    BY <1>2, <1>6, AppendProperties DEF Enqueue, TypeOK
  <2> QED BY <1>1, <1>6, <2>1 DEF Enqueue, TypeOK
<1> QED BY <1>3, <1>4, <1>5, <1>6 DEF Handle

\* A stretch of a sequence has its elements.
LEMMA StretchInSeq ==
  ASSUME NEW S, NEW s \in Seq(S), NEW m \in Nat \ {0}, NEW n \in Int, n <= Len(s)
  PROVE  SubSeq(s, m, n) \in Seq(S)
<1>1. \A i \in m..n : s[i] \in S
  BY LenProperties
<1> QED BY <1>1, SubSeqProperties

\* The runner's lists hold nothing but requests.
LEMMA TypeRunQueue ==
  ASSUME TypeOK, RunQueue
  PROVE  TypeOK'
<1> USE ActorAssumption, RequestAssumption DEF TypeOK, Actor
<1>1. CASE ListPending
  BY <1>1 DEF ListPending
<1>2. CASE PreCheckHost
  <2>1. Head(batch) \in Request /\ Tail(batch) \in Seq(Request)
    BY <1>2, HeadTailProperties DEF PreCheckHost
  <2>2. batch' \in Seq(Request)
    BY <1>2, <2>1 DEF PreCheckHost
  <2>3. /\ pc' \in [Actor -> ActorPc] /\ req' \in [Actor -> Request \cup {NoRequest}]
        /\ \A a \in Actor : pc'[a] # "idle" => req'[a] \in Request
        /\ \A c \in Client : pc'[c] \in {"idle"} \cup HandlerPc
    <3>1. CASE FitsHost(Guess[Head(batch)])
      <4>1. /\ pc' = [pc EXCEPT ![Runner] = "pre_rows"]
            /\ req' = [req EXCEPT ![Runner] = Head(batch)]
        BY <1>2, <3>1 DEF PreCheckHost
      <4> QED BY <2>1, <4>1
    <3>2. CASE ~FitsHost(Guess[Head(batch)])
      BY <1>2, <3>2 DEF PreCheckHost
    <3> QED BY <3>1, <3>2
  <2> QED BY <1>2, <2>2, <2>3 DEF PreCheckHost
<1>3. CASE PreCheckProject
  BY <1>3 DEF PreCheckProject
<1>4. CASE MarkProcessing
  <2>1. ASSUME NEW i \in DOMAIN queue
        PROVE  RemoveAt(queue, i) \in Seq(Request)
    <3>1. i \in 1..Len(queue) /\ Len(queue) \in Nat
      BY <2>1, LenProperties
    <3>2. SubSeq(queue, 1, i - 1) \in Seq(Request)
      BY <3>1, StretchInSeq
    <3>3. SubSeq(queue, i + 1, Len(queue)) \in Seq(Request)
      BY <3>1, StretchInSeq
    <3> QED BY <3>2, <3>3, ConcatProperties DEF RemoveAt
  <2>2. queue' \in Seq(Request)
    BY <1>4, <2>1 DEF MarkProcessing
  <2> QED BY <1>4, <2>2 DEF MarkProcessing, FirstCheck
<1>5. CASE MarkFinished
  BY <1>5 DEF MarkFinished
<1> QED BY <1>1, <1>2, <1>3, <1>4, <1>5 DEF RunQueue

\* What the other parts of the daemon do is in type.
LEMMA TypeOther ==
  ASSUME TypeOK, \/ \E c \in Client : Ask(c)
                 \/ ExpireOld
                 \/ \E r \in Request : Environment(r)
                 \/ Crash
  PROVE  TypeOK'
<1> USE ActorAssumption, RequestAssumption DEF TypeOK, Actor
<1>1. ASSUME NEW c \in Client, Ask(c)
      PROVE  TypeOK'
  BY <1>1 DEF Ask, FirstCheck
<1>2. CASE ExpireOld
  <2>1. PICK n \in 1..Len(queue) :
          /\ queue' = SubSeq(queue, n + 1, Len(queue))
          /\ ended' = ended \cup {queue[i] : i \in 1..n}
    BY <1>2 DEF ExpireOld
  <2>2. Len(queue) \in Nat /\ \A i \in 1..Len(queue) : queue[i] \in Request
    BY LenProperties
  <2>3. queue' \in Seq(Request)
    BY <2>1, <2>2, StretchInSeq
  <2>4. ended' \subseteq Request
    <3>1. {queue[i] : i \in 1..n} \subseteq Request
      BY <2>2
    <3> QED BY <2>1, <3>1
  <2> QED BY <1>2, <2>3, <2>4 DEF ExpireOld
<1>3. ASSUME NEW r \in Request, Environment(r)
      PROVE  TypeOK'
  <2>1. CASE Stop(r) \/ Start(r) \/ ScanSync(r)
    BY <2>1 DEF Stop, Start, ScanSync
  <2>2. CASE Adopt(r) \/ GuestPowerOff(r)
    <3>1. CASE Adopt(r)
      BY <3>1 DEF Adopt
    <3>2. CASE GuestPowerOff(r)
      BY <3>2 DEF GuestPowerOff
    <3> QED BY <2>2, <3>1, <3>2
  <2>3. CASE InstallEnd(r) \/ Delete(r)
    BY <2>3 DEF InstallEnd, Delete
  <2> QED BY <1>3, <2>1, <2>2, <2>3 DEF Environment
<1>4. CASE Crash
  BY <1>4, EmptySeq DEF Crash, Processing
<1> QED BY <1>1, <1>2, <1>3, <1>4

\* The variables keep their types; an actor at work is about a request.
THEOREM TypeCorrect == Spec => []TypeOK
<1>1. TypeOK /\ [Next]_vars => TypeOK'
  <2>1. TypeOK /\ Next => TypeOK'
    BY TypeHandle, TypeRunQueue, TypeOther DEF Next
  <2>2. TypeOK /\ UNCHANGED vars => TypeOK'
    BY DEF vars, TypeOK
  <2> QED BY <2>1, <2>2
<1> QED BY TypeInit, <1>1, PTL DEF Spec

-----------------------------------------------------------------------------

\* Two finite sets that only lose elements.
LEMMA BothShrink ==
  ASSUME NEW S, NEW T, NEW S1, NEW T1, IsFiniteSet(S), IsFiniteSet(T),
         S1 \subseteq S, T1 \subseteq T, NEW bound,
         Cardinality(S) + Cardinality(T) <= bound, bound \in Int
  PROVE  Cardinality(S1) + Cardinality(T1) <= bound
BY FS_Subset, FS_CardinalityType

\* One element comes to the first as another leaves the second.
LEMMA OneMoves ==
  ASSUME NEW S, NEW T, NEW S1, NEW T1, IsFiniteSet(S), IsFiniteSet(T), NEW x, NEW y \in T,
         S1 \subseteq S \cup {x}, T1 \subseteq T \ {y}, NEW bound,
         Cardinality(S) + Cardinality(T) <= bound, bound \in Int
  PROVE  Cardinality(S1) + Cardinality(T1) <= bound
<1>1. /\ IsFiniteSet(S \cup {x}) /\ Cardinality(S \cup {x}) <= Cardinality(S) + 1
      /\ IsFiniteSet(T \ {y}) /\ Cardinality(T \ {y}) = Cardinality(T) - 1
  BY FS_AddElement, FS_RemoveElement, FS_CardinalityType
<1>2. Cardinality(S1) <= Cardinality(S \cup {x}) /\ Cardinality(T1) <= Cardinality(T \ {y})
  BY <1>1, FS_Subset
<1>3. IsFiniteSet(S1) /\ IsFiniteSet(T1)
  BY <1>1, FS_Subset
<1> QED BY <1>1, <1>2, <1>3, FS_CardinalityType

\* The clients are finitely many, so are the actors.
LEMMA ActorsFinite == IsFiniteSet(Actor) /\ Cardinality(Actor) \in Nat
BY ActorAssumption, FS_AddElement, FS_CardinalityType DEF Actor

\* A task that reads a row count below the cap adds one to the admitted; all the
\* others may have done so before.
LEMMA OvershootStep ==
  ASSUME TypeOK, TypeOK', OvershootBounded, Next
  PROVE  OvershootBounded'
<1> USE DEF TypeOK
<1> SUFFICES ASSUME NEW p \in Project
             PROVE  Cardinality((Running(p) \ revived)') + Cardinality(Admitted(p)')
                      <= MaxRunning - 1 + Cardinality(Actor)
  BY DEF OvershootBounded
<1> DEFINE R == Running(p) \ revived
           A == Admitted(p)
           bound == MaxRunning - 1 + Cardinality(Actor)
<1>1. /\ IsFiniteSet(R) /\ IsFiniteSet(A) /\ IsFiniteSet(Running(p)) /\ bound \in Int
      /\ A \subseteq Actor /\ A' \subseteq Actor
      /\ Cardinality(R) + Cardinality(A) <= bound
  <2>1. R \subseteq Request /\ Running(p) \subseteq Request /\ A \subseteq Actor /\ A' \subseteq Actor
    BY DEF Running, Rows, Admitted
  <2>2. IsFiniteSet(R) /\ IsFiniteSet(A) /\ IsFiniteSet(Running(p))
    BY <2>1, RequestAssumption, ActorsFinite, FS_Subset
  <2>3. bound \in Int
    BY CapAssumption, ActorsFinite
  <2> QED BY <2>1, <2>2, <2>3 DEF OvershootBounded
<1>2. ASSUME R' \subseteq R, A' \subseteq A
      PROVE  Cardinality(R') + Cardinality(A') <= bound
  <2> HIDE DEF R, A, bound
  <2> QED BY <1>1, <1>2, BothShrink
<1>3. ASSUME NEW a \in Actor, CheckProject(a)
      PROVE  Cardinality(R') + Cardinality(A') <= bound
  <2>1. R' = R
    BY <1>3 DEF CheckProject, Running, Rows
  <2>2. CASE FitsProject(p, Size[req[a]])
    <3>1. Cardinality(Running(p)) < MaxRunning
      BY <2>2 DEF FitsProject
    <3>2. Cardinality(R) <= Cardinality(Running(p)) /\ Cardinality(Running(p)) \in Nat
      BY <1>1, FS_Subset, FS_CardinalityType
    <3>3. Cardinality(A') <= Cardinality(Actor)
      BY <1>1, ActorsFinite, FS_Subset
    <3>4. Cardinality(R) \in Nat /\ Cardinality(A') \in Nat
      BY <1>1, ActorsFinite, FS_Subset, FS_CardinalityType
    <3> HIDE DEF R, A
    <3> QED BY <2>1, <3>1, <3>2, <3>3, <3>4, ActorsFinite, CapAssumption
  <2>3. CASE ~FitsProject(p, Size[req[a]])
    <3>1. A' \subseteq A
      BY <1>3, <2>3 DEF CheckProject, Admitted
    <3> QED BY <1>2, <2>1, <3>1
  <2> QED BY <2>2, <2>3
<1>4. ASSUME NEW a \in Actor, Insert(a)
      PROVE  Cardinality(R') + Cardinality(A') <= bound
  <2>1. A' \subseteq A \ {a}
    BY <1>4 DEF Insert, Admitted, Answered
  <2>2. CASE ProjectOf[req[a]] = p
    <3>1. a \in A /\ R' \subseteq R \cup {req[a]}
      BY <1>4, <2>2 DEF Insert, Admitted, Running, Rows
    <3> HIDE DEF R, A, bound
    <3> QED BY <1>1, <2>1, <3>1, OneMoves
  <2>3. CASE ProjectOf[req[a]] # p
    <3>1. R' \subseteq R
      BY <1>4, <2>3 DEF Insert, Running, Rows
    <3> QED BY <1>2, <2>1, <3>1
  <2> QED BY <2>2, <2>3
<1>5. ASSUME NEW a \in Actor, CheckInstalls(a) \/ CheckHost(a) \/ Boot(a) \/ InsertRaises(a) \/ Enqueue(a)
      PROVE  Cardinality(R') + Cardinality(A') <= bound
  <2>1. R' \subseteq R
    BY <1>5 DEF CheckInstalls, CheckHost, Boot, InsertRaises, Enqueue, Running, Rows
  <2>2. A' \subseteq A
    BY <1>5 DEF CheckInstalls, CheckHost, Boot, InsertRaises, Enqueue, Admitted, Answered, Raised
  <2> QED BY <1>2, <2>1, <2>2
<1>6. ASSUME RunQueue \/ (\E c \in Client : Ask(c))
      PROVE  Cardinality(R') + Cardinality(A') <= bound
  <2>1. R' \subseteq R
    BY <1>6 DEF RunQueue, ListPending, PreCheckHost, PreCheckProject, MarkProcessing, MarkFinished,
                Ask, Running, Rows
  <2>2. A' \subseteq A
    BY <1>6, ActorAssumption
    DEF RunQueue, ListPending, PreCheckHost, PreCheckProject, MarkProcessing, MarkFinished,
        Ask, FirstCheck, Admitted, Actor
  <2> QED BY <1>2, <2>1, <2>2
<1>7. ASSUME ExpireOld \/ (\E r \in Request : Environment(r)) \/ Crash
      PROVE  Cardinality(R') + Cardinality(A') <= bound
  <2>1. R' \subseteq R
    BY <1>7 DEF ExpireOld, Environment, Stop, Start, ScanSync, Adopt, GuestPowerOff, InstallEnd, Delete,
                Crash, Running, Rows
  <2>2. A' \subseteq A
    BY <1>7 DEF ExpireOld, Environment, Stop, Start, ScanSync, Adopt, GuestPowerOff, InstallEnd, Delete,
                Crash, Admitted
  <2> QED BY <1>2, <2>1, <2>2
<1> QED BY <1>3, <1>4, <1>5, <1>6, <1>7 DEF Next, Handle

\* The same for the count of installs, which CheckInstalls reads and Insert adds to.
LEMMA InstallOvershootStep ==
  ASSUME TypeOK, TypeOK', InstallOvershootBounded, Next
  PROVE  InstallOvershootBounded'
<1> USE DEF TypeOK
<1> DEFINE A == InstallAdmitted
           bound == MaxInstalls - 1 + Cardinality(Actor)
<1> SUFFICES Cardinality(installing') + Cardinality(A') <= bound
  BY DEF InstallOvershootBounded
<1>1. /\ IsFiniteSet(installing) /\ IsFiniteSet(A) /\ bound \in Int
      /\ A \subseteq Actor /\ A' \subseteq Actor
      /\ Cardinality(installing) + Cardinality(A) <= bound
  <2>1. A \subseteq Actor /\ A' \subseteq Actor
    BY DEF InstallAdmitted
  <2>2. IsFiniteSet(installing) /\ IsFiniteSet(A)
    BY <2>1, RequestAssumption, ActorsFinite, FS_Subset
  <2>3. bound \in Int
    BY CapAssumption, ActorsFinite
  <2> QED BY <2>1, <2>2, <2>3 DEF InstallOvershootBounded
<1>2. ASSUME installing' \subseteq installing, A' \subseteq A
      PROVE  Cardinality(installing') + Cardinality(A') <= bound
  <2> HIDE DEF A, bound
  <2> QED BY <1>1, <1>2, BothShrink
<1>3. ASSUME NEW a \in Actor, CheckInstalls(a)
      PROVE  Cardinality(installing') + Cardinality(A') <= bound
  <2>1. installing' = installing
    BY <1>3 DEF CheckInstalls
  <2>2. CASE InstallSlot
    <3>1. Cardinality(installing) < MaxInstalls /\ Cardinality(installing) \in Nat
      BY <2>2, <1>1, FS_CardinalityType DEF InstallSlot
    <3>2. Cardinality(A') <= Cardinality(Actor) /\ Cardinality(A') \in Nat
      BY <1>1, ActorsFinite, FS_Subset, FS_CardinalityType
    <3> HIDE DEF A
    <3> QED BY <2>1, <3>1, <3>2, ActorsFinite, CapAssumption
  <2>3. CASE ~InstallSlot
    <3>1. A' \subseteq A
      BY <1>3, <2>3 DEF CheckInstalls, InstallAdmitted, Raised
    <3> QED BY <1>2, <2>1, <3>1
  <2> QED BY <2>2, <2>3
<1>4. ASSUME NEW a \in Actor, Insert(a)
      PROVE  Cardinality(installing') + Cardinality(A') <= bound
  <2>1. A' \subseteq A \ {a}
    BY <1>4 DEF Insert, InstallAdmitted, Answered
  <2>2. CASE installing' = installing
    BY <1>2, <2>1, <2>2
  <2>3. CASE req[a] \in Installer /\ installing' = installing \cup {req[a]}
    <3>1. a \in A
      BY <1>4, <2>3 DEF Insert, InstallAdmitted
    <3>2. IsFiniteSet(A) /\ IsFiniteSet(installing) /\ bound \in Int
      BY <1>1
    <3>3. installing' \subseteq installing \cup {req[a]}
      BY <2>3
    <3> HIDE DEF A, bound
    <3> QED BY <1>1, <2>1, <3>1, <3>2, <3>3, OneMoves
  <2> QED BY <1>4, <2>2, <2>3 DEF Insert
<1>5. ASSUME NEW a \in Actor, CheckHost(a) \/ CheckProject(a) \/ Boot(a) \/ InsertRaises(a) \/ Enqueue(a)
      PROVE  Cardinality(installing') + Cardinality(A') <= bound
  <2>1. installing' = installing
    BY <1>5 DEF CheckHost, CheckProject, Boot, InsertRaises, Enqueue
  <2>2. A' \subseteq A
    BY <1>5 DEF CheckHost, CheckProject, Boot, InsertRaises, Enqueue, InstallAdmitted, Answered, Raised
  <2> QED BY <1>2, <2>1, <2>2
<1>6. ASSUME RunQueue \/ (\E c \in Client : Ask(c))
      PROVE  Cardinality(installing') + Cardinality(A') <= bound
  <2>1. installing' = installing
    BY <1>6 DEF RunQueue, ListPending, PreCheckHost, PreCheckProject, MarkProcessing, MarkFinished, Ask
  <2>2. ASSUME RunQueue
        PROVE  A' \subseteq A
    <3>1. CASE ListPending \/ PreCheckHost \/ PreCheckProject
      BY <3>1 DEF ListPending, PreCheckHost, PreCheckProject, InstallAdmitted
    <3>2. CASE MarkProcessing \/ MarkFinished
      BY <3>2 DEF MarkProcessing, MarkFinished, FirstCheck, InstallAdmitted
    <3> QED BY <2>2, <3>1, <3>2 DEF RunQueue
  <2>3. ASSUME NEW c \in Client, Ask(c)
        PROVE  A' \subseteq A
    BY <2>3 DEF Ask, FirstCheck, InstallAdmitted, Actor
  <2> QED BY <1>2, <1>6, <2>1, <2>2, <2>3
<1>7. ASSUME ExpireOld \/ (\E r \in Request : Environment(r)) \/ Crash
      PROVE  Cardinality(installing') + Cardinality(A') <= bound
  <2>1. installing' \subseteq installing
    BY <1>7 DEF ExpireOld, Environment, Stop, Start, ScanSync, Adopt, GuestPowerOff, InstallEnd, Delete, Crash
  <2>2. A' \subseteq A
    BY <1>7 DEF ExpireOld, Environment, Stop, Start, ScanSync, Adopt, GuestPowerOff, InstallEnd, Delete,
                Crash, InstallAdmitted
  <2> QED BY <1>2, <2>1, <2>2
<1> QED BY <1>3, <1>4, <1>5, <1>6, <1>7 DEF Next, Handle

-----------------------------------------------------------------------------

\* Nobody runs anything yet: both counts are 0.
LEMMA BoundsInit == Init => OvershootBounded /\ InstallOvershootBounded
<1> SUFFICES ASSUME Init PROVE OvershootBounded /\ InstallOvershootBounded
  OBVIOUS
<1>1. /\ \A p \in Project : Running(p) \ revived = {} /\ Admitted(p) = {}
      /\ installing = {} /\ InstallAdmitted = {}
  BY DEF Init, Running, Rows, Admitted, InstallAdmitted
<1>2. Cardinality({}) = 0 /\ Cardinality(Actor) \in Nat
  BY FS_EmptySet, ActorsFinite
<1>3. 0 + 0 <= MaxRunning - 1 + Cardinality(Actor) /\ 0 + 0 <= MaxInstalls - 1 + Cardinality(Actor)
  BY <1>2, CapAssumption
<1>4. OvershootBounded
  <2> SUFFICES ASSUME NEW p \in Project
               PROVE  Cardinality(Running(p) \ revived) + Cardinality(Admitted(p))
                        <= MaxRunning - 1 + Cardinality(Actor)
    BY DEF OvershootBounded
  <2>1. Cardinality(Running(p) \ revived) = 0 /\ Cardinality(Admitted(p)) = 0
    BY <1>1, <1>2
  <2> QED BY <2>1, <1>3
<1>5. InstallOvershootBounded
  <2>1. Cardinality(installing) = 0 /\ Cardinality(InstallAdmitted) = 0
    BY <1>1, <1>2
  <2> QED BY <2>1, <1>3 DEF InstallOvershootBounded
<1> QED BY <1>4, <1>5

\* However the checks interleave, the cap on running VMs is overshot by no more
\* than one VM per connection, and so is the cap on installs.
THEOREM OvershootIsBounded == Spec => [](OvershootBounded /\ InstallOvershootBounded)
<1> DEFINE Both == OvershootBounded /\ InstallOvershootBounded
<1>1. TypeOK /\ TypeOK' /\ Both /\ [Next]_vars => Both'
  <2>1. TypeOK /\ TypeOK' /\ Both /\ Next => Both'
    BY OvershootStep, InstallOvershootStep
  <2>2. Both /\ UNCHANGED vars => Both'
    BY DEF vars, OvershootBounded, InstallOvershootBounded, Running, Rows, Admitted, InstallAdmitted
  <2> QED BY <2>1, <2>2
<1> QED BY BoundsInit, TypeCorrect, <1>1, PTL DEF Spec

\* count_installing_vms is read before the row is written, so more installs than
\* max_concurrent_installs may run, but at most one more per connection.
THEOREM InstallOvershootIsBounded == Spec => []InstallOvershootBounded
BY OvershootIsBounded, PTL

-----------------------------------------------------------------------------
(***************************************************************************)
(* Where a request is: with a handler or in a pending entry.  The lists of *)
(* the runner's passes need not be counted.                                *)
(***************************************************************************)
Handled(r) == \E a \in Actor : req[a] = r /\ pc[a] \in HandlerPc

Settled(r) == created[r] > 0 \/ Pending(r) \/ r \in ended \/ r \in stuck

KeptInv ==
  /\ \A r \in asked : Settled(r) \/ Handled(r)
  /\ pc[Runner] = "done" => Settled(req[Runner])
  /\ pc[Runner] = "expire" => req[Runner] \in ended

\* A new entry leaves the others pending.
LEMMA AppendPending ==
  ASSUME TypeOK, NEW x \in Request, queue' = Append(queue, x)
  PROVE  Pending(x)' /\ \A r \in Request : Pending(r) => Pending(r)'
<1>1. /\ Len(queue') = Len(queue) + 1 /\ Len(queue) \in Nat
      /\ \A i \in 1..Len(queue) : queue'[i] = queue[i]
      /\ queue'[Len(queue) + 1] = x
      /\ DOMAIN queue = 1..Len(queue) /\ DOMAIN queue' = 1..Len(queue')
  BY AppendProperties, LenProperties DEF TypeOK
<1> QED BY <1>1 DEF Pending

\* What MarkProcessing leaves is pending still.
LEMMA RemovePending ==
  ASSUME TypeOK, NEW j \in DOMAIN queue, queue' = RemoveAt(queue, j),
         NEW r \in Request, Pending(r), queue[j] # r
  PROVE  Pending(r)'
<1> DEFINE s == SubSeq(queue, 1, j - 1)
           t == SubSeq(queue, j + 1, Len(queue))
<1>1. j \in 1..Len(queue) /\ Len(queue) \in Nat /\ DOMAIN queue = 1..Len(queue)
  BY LenProperties DEF TypeOK
<1>2. s \in Seq(Request) /\ t \in Seq(Request) /\ queue \in Seq(Request)
  BY <1>1, StretchInSeq DEF TypeOK
<1>3. \A i \in 1..Len(queue) : queue[i] \in Request
  BY <1>2, LenProperties
<1>4. Len(s) = j - 1 /\ \A i \in 1..(j - 1) : s[i] = queue[i]
  BY <1>1, <1>3, SubSeqProperties
<1>5. Len(t) = Len(queue) - j /\ \A i \in 1..(Len(queue) - j) : t[i] = queue[i + j]
  BY <1>1, <1>3, SubSeqProperties
<1>6. /\ queue' = s \o t /\ Len(queue') = Len(s) + Len(t)
      /\ \A i \in 1..Len(s) : queue'[i] = s[i]
      /\ \A i \in 1..Len(t) : queue'[Len(s) + i] = t[i]
      /\ DOMAIN queue' = 1..Len(queue')
  <2>1. queue' = s \o t
    BY DEF RemoveAt
  <2> HIDE DEF s, t
  <2> QED BY <1>2, <2>1, ConcatProperties, LenProperties
<1>7. PICK i \in 1..Len(queue) : queue[i] = r /\ i # j
  BY <1>1 DEF Pending
<1> HIDE DEF s, t
<1>8. CASE i < j
  <2>1. i \in 1..Len(s) /\ i \in DOMAIN queue'
    BY <1>1, <1>4, <1>5, <1>6, <1>7, <1>8
  <2> QED BY <1>1, <1>4, <1>6, <1>7, <2>1 DEF Pending
<1>9. CASE i > j
  <2>1. i - j \in 1..(Len(queue) - j) /\ (i - j) + j = i
    BY <1>1, <1>7, <1>9
  <2>2. i - j \in 1..Len(t) /\ Len(s) = j - 1
    BY <1>4, <1>5, <2>1
  <2>3. queue'[Len(s) + (i - j)] = r
    BY <1>5, <1>6, <1>7, <2>1, <2>2
  <2>4. Len(t) \in Nat /\ Len(s) \in Nat
    BY <1>2, LenProperties
  <2>5. Len(s) + (i - j) \in 1..(Len(s) + Len(t))
    BY <2>2, <2>4
  <2> QED BY <1>6, <2>3, <2>5 DEF Pending
<1> QED BY <1>1, <1>7, <1>8, <1>9

\* The entries that expire are the ones that are pending no longer.
LEMMA ExpirePending ==
  ASSUME TypeOK, NEW n \in 1..Len(queue), queue' = SubSeq(queue, n + 1, Len(queue)),
         NEW r \in Request, Pending(r)
  PROVE  Pending(r)' \/ r \in {queue[i] : i \in 1..n}
<1> DEFINE t == SubSeq(queue, n + 1, Len(queue))
<1>1. n \in 1..Len(queue) /\ Len(queue) \in Nat /\ DOMAIN queue = 1..Len(queue)
  BY LenProperties DEF TypeOK
<1>2. t \in Seq(Request) /\ queue \in Seq(Request) /\ queue' = t
  BY <1>1, StretchInSeq DEF TypeOK
<1>3. \A i \in 1..Len(queue) : queue[i] \in Request
  BY <1>2, LenProperties
<1>4. Len(t) = Len(queue) - n /\ \A i \in 1..(Len(queue) - n) : t[i] = queue[i + n]
  BY <1>1, <1>3, SubSeqProperties
<1> HIDE DEF t
<1>5. DOMAIN t = 1..Len(t)
  BY <1>2, LenProperties
<1>6. PICK i \in 1..Len(queue) : queue[i] = r
  BY <1>1 DEF Pending
<1>7. CASE i > n
  <2>1. i - n \in 1..(Len(queue) - n) /\ (i - n) + n = i
    BY <1>1, <1>6, <1>7
  <2>2. t[i - n] = r /\ i - n \in DOMAIN t
    BY <1>4, <1>5, <1>6, <2>1
  <2> QED BY <1>2, <2>2 DEF Pending
<1>8. CASE i <= n
  BY <1>1, <1>6, <1>8
<1> QED BY <1>1, <1>6, <1>7, <1>8

\* What is settled stays so while the queue stands and the histories grow.
LEMMA SettledGrows ==
  ASSUME UNCHANGED queue, ended \subseteq ended', stuck \subseteq stuck',
         \A r \in Request : created[r] > 0 => created'[r] > 0
  PROVE  \A r \in Request : Settled(r) => Settled(r)'
BY DEF Settled, Pending

\* A handler keeps its request until it is created, queued or reported failed.
LEMMA KeptHandle ==
  ASSUME TypeOK, KeptInv, NEW a \in Actor, Handle(a)
  PROVE  KeptInv'
<1>1. /\ pc[a] \in HandlerPc /\ req[a] \in Request /\ asked' = asked /\ asked \subseteq Request
      /\ pc \in [Actor -> ActorPc] /\ req \in [Actor -> Request \cup {NoRequest}]
      /\ ended \subseteq ended' /\ stuck' = stuck
  BY DEF TypeOK, Handle, CheckInstalls, CheckHost, CheckProject, Boot, Insert, InsertRaises,
         Enqueue
<1>2. \A b \in Actor \ {a} : pc'[b] = pc[b] /\ req'[b] = req[b]
  BY <1>1 DEF Handle, CheckInstalls, CheckHost, CheckProject, Boot, Insert, InsertRaises,
              Enqueue, Answered, Raised
<1>3. \A r \in Request : Settled(r) => Settled(r)'
  <2>1. CASE Enqueue(a)
    <3>1. queue' = Append(queue, req[a]) /\ UNCHANGED <<created, ended, stuck>>
      BY <2>1 DEF Enqueue
    <3>2. \A r \in Request : Pending(r) => Pending(r)'
      BY <1>1, <3>1, AppendPending
    <3> QED BY <3>1, <3>2 DEF Settled
  <2>2. CASE Insert(a)
    <3>1. /\ UNCHANGED queue /\ created' = [created EXCEPT ![req[a]] = @ + 1]
          /\ created \in [Request -> Nat]
      BY <2>2 DEF Insert, TypeOK
    <3>2. \A r \in Request : created[r] > 0 => created'[r] > 0
      BY <1>1, <3>1
    <3> QED BY <1>1, <3>1, <3>2, SettledGrows
  <2>3. CASE CheckInstalls(a) \/ CheckHost(a) \/ CheckProject(a) \/ Boot(a) \/ InsertRaises(a)
    <3>1. UNCHANGED <<queue, created>>
      BY <2>3 DEF CheckInstalls, CheckHost, CheckProject, Boot, InsertRaises
    <3> QED BY <1>1, <3>1, SettledGrows
  <2> QED BY <2>1, <2>2, <2>3 DEF Handle
<1>4. PICK q \in Request : q = req[a]
  BY <1>1
<1>5. \/ pc'[a] \in HandlerPc /\ req'[a] = q
      \/ Answered(a) /\ Settled(q)'
      \/ Raised(a) /\ q \in ended'
  <2>1. CASE Enqueue(a)
    <3>1. queue' = Append(queue, q) /\ Answered(a)
      BY <1>4, <2>1 DEF Enqueue
    <3>2. Pending(q)'
      BY <3>1, AppendPending
    <3> QED BY <3>1, <3>2 DEF Settled
  <2>2. CASE Insert(a)
    <3>1. /\ Answered(a) /\ created' = [created EXCEPT ![q] = @ + 1]
          /\ created \in [Request -> Nat]
      BY <1>4, <2>2 DEF Insert, TypeOK
    <3>2. created'[q] > 0
      BY <3>1
    <3> QED BY <3>1, <3>2 DEF Settled
  <2>3. CASE CheckHost(a) \/ CheckProject(a)
    BY <1>1, <1>4, <2>3 DEF CheckHost, CheckProject
  <2>4. CASE CheckInstalls(a) \/ Boot(a) \/ InsertRaises(a)
    BY <1>1, <1>4, <2>4 DEF CheckInstalls, Boot, InsertRaises
  <2> QED BY <2>1, <2>2, <2>3, <2>4 DEF Handle
<1>6. \A r \in asked' : Settled(r)' \/ Handled(r)'
  <2> SUFFICES ASSUME NEW r \in asked, ~Settled(r)' PROVE Handled(r)'
    BY <1>1
  <2>1. PICK b \in Actor : req[b] = r /\ pc[b] \in HandlerPc
    BY <1>1, <1>3 DEF KeptInv, Handled
  <2>2. CASE b = a
    <3>1. r = q
      BY <1>4, <2>1, <2>2
    <3>2. q \notin ended' /\ ~Settled(q)'
      BY <3>1 DEF Settled
    <3> QED BY <1>5, <3>1, <3>2 DEF Handled
  <2>3. CASE b # a
    BY <1>2, <2>1, <2>3 DEF Handled
  <2> QED BY <2>2, <2>3
<1>7. CASE a # Runner
  <2>1. pc'[Runner] = pc[Runner] /\ req'[Runner] = req[Runner]
    BY <1>2, <1>7 DEF Actor
  <2>2. pc[Runner] # "idle" => req[Runner] \in Request
    BY DEF TypeOK, Actor
  <2>3. ASSUME pc'[Runner] = "done" PROVE \A r \in Request : r = req'[Runner] => Settled(r)'
    BY <1>3, <2>1, <2>2, <2>3 DEF KeptInv
  <2>4. pc'[Runner] = "done" => Settled(req[Runner])'
    BY <2>1, <2>2, <2>3 DEF Settled, Pending
  <2> QED BY <1>1, <1>6, <2>1, <2>4 DEF KeptInv
<1>8. CASE a = Runner
  <2>1. CASE pc'[a] \in HandlerPc
    BY <1>6, <1>8, <2>1 DEF KeptInv
  <2>2. CASE Answered(a) /\ Settled(q)'
    <3>1. req'[Runner] = q /\ pc'[Runner] = "done"
      BY <1>1, <1>4, <1>8, <2>2 DEF Answered
    <3>2. Settled(req[Runner])'
      BY <2>2, <3>1 DEF Settled, Pending
    <3> QED BY <1>6, <3>1, <3>2 DEF KeptInv
  <2>3. CASE Raised(a) /\ q \in ended'
    <3>1. req'[Runner] = q /\ pc'[Runner] = "expire"
      BY <1>1, <1>4, <1>8, <2>3 DEF Raised
    <3> QED BY <1>6, <2>3, <3>1 DEF KeptInv
  <2> QED BY <1>5, <2>1, <2>2, <2>3
<1> QED BY <1>7, <1>8

\* The runner takes up what is pending and drops its entry only at the end.
LEMMA KeptRunQueue ==
  ASSUME TypeOK, KeptInv, RunQueue
  PROVE  KeptInv'
<1>1. /\ asked' = asked /\ asked \subseteq Request /\ UNCHANGED <<created, ended, stuck>>
      /\ pc \in [Actor -> ActorPc] /\ req \in [Actor -> Request \cup {NoRequest}]
      /\ pc[Runner] \notin HandlerPc /\ Runner \in Actor
  BY DEF TypeOK, RunQueue, ListPending, PreCheckHost, PreCheckProject, MarkProcessing,
         MarkFinished, Actor
<1>2. \A b \in Actor \ {Runner} : pc'[b] = pc[b] /\ req'[b] = req[b]
  BY <1>1 DEF RunQueue, ListPending, PreCheckHost, PreCheckProject, MarkProcessing, MarkFinished
<1>3. \A r \in Request : Handled(r) => Handled(r)'
  BY <1>1, <1>2 DEF Handled
<1>4. CASE MarkProcessing
  <2>1. pc'[Runner] \in {"count", "host"} /\ req' = req /\ pc[Runner] = "mark"
    BY <1>1, <1>4 DEF MarkProcessing, FirstCheck
  <2>2. \A r \in Request : Settled(r) => Settled(r)' \/ Handled(r)'
    <3> SUFFICES ASSUME NEW r \in Request, Settled(r), r # req[Runner] PROVE Settled(r)'
      BY <1>1, <2>1 DEF Handled
    <3>1. Pending(r) => Pending(r)'
      <4>1. CASE UNCHANGED queue
        BY <4>1 DEF Pending
      <4>2. ASSUME NEW j \in DOMAIN queue, queue[j] = req[Runner], queue' = RemoveAt(queue, j)
            PROVE  Pending(r) => Pending(r)'
        BY <4>2, RemovePending
      <4> QED BY <1>4, <4>1, <4>2 DEF MarkProcessing
    <3> QED BY <1>1, <3>1 DEF Settled
  <2> QED BY <1>1, <1>3, <2>1, <2>2 DEF KeptInv
<1>5. CASE ListPending \/ PreCheckHost \/ PreCheckProject \/ MarkFinished
  <2>1. UNCHANGED queue
    BY <1>5 DEF ListPending, PreCheckHost, PreCheckProject, MarkFinished
  <2>2. \A r \in Request : Settled(r) => Settled(r)'
    BY <1>1, <2>1, SettledGrows
  <2>3. pc'[Runner] \notin {"done", "expire"}
    BY <1>1, <1>5 DEF ListPending, PreCheckHost, PreCheckProject, MarkFinished
  <2> QED BY <1>1, <1>3, <2>2, <2>3 DEF KeptInv
<1> QED BY <1>4, <1>5 DEF RunQueue

\* Old entries expire, and what was in hand when boxerd died has ended or is stuck.
LEMMA KeptOthers ==
  ASSUME TypeOK, KeptInv,
         (\E c \in Client : Ask(c)) \/ ExpireOld \/ (\E r \in Request : Environment(r)) \/ Crash
  PROVE  KeptInv'
<1> USE ActorAssumption DEF Actor
<1>1. /\ asked \subseteq Request /\ pc \in [Actor -> ActorPc]
      /\ req \in [Actor -> Request \cup {NoRequest}]
      /\ \A a \in Actor : pc[a] # "idle" => req[a] \in Request
  BY DEF TypeOK
<1>2. ASSUME NEW c \in Client, Ask(c) PROVE KeptInv'
  <2>1. PICK q \in Request \ asked :
          /\ asked' = asked \cup {q} /\ req' = [req EXCEPT ![c] = q]
          /\ pc' = [pc EXCEPT ![c] = FirstCheck(q)]
    BY <1>2 DEF Ask
  <2>2. /\ pc[c] = "idle" /\ UNCHANGED <<queue, created, ended, stuck>>
        /\ pc'[c] \in HandlerPc /\ req'[c] = q
    BY <1>1, <1>2, <2>1 DEF Ask, FirstCheck
  <2>3. \A b \in Actor \ {c} : pc'[b] = pc[b] /\ req'[b] = req[b]
    BY <1>1, <2>1
  <2>4. \A r \in Request : Settled(r) => Settled(r)'
    BY <2>2, SettledGrows
  <2>5. \A r \in Request : Handled(r) => Handled(r)'
    BY <2>2, <2>3 DEF Handled
  <2>6. Handled(q)'
    BY <2>2 DEF Handled
  <2>7. Runner # c
    OBVIOUS
  <2> QED BY <1>1, <2>1, <2>2, <2>3, <2>4, <2>5, <2>6, <2>7 DEF KeptInv
<1>3. ASSUME ExpireOld PROVE KeptInv'
  <2>1. PICK n \in 1..Len(queue) :
          /\ queue' = SubSeq(queue, n + 1, Len(queue))
          /\ ended' = ended \cup {queue[i] : i \in 1..n}
    BY <1>3 DEF ExpireOld
  <2>2. UNCHANGED <<asked, pc, req, created, stuck>>
    BY <1>3 DEF ExpireOld
  <2>3. \A r \in Request : Pending(r) => Pending(r)' \/ r \in ended'
    BY <2>1, ExpirePending
  <2>4. \A r \in Request : Settled(r) => Settled(r)'
    BY <2>1, <2>2, <2>3 DEF Settled
  <2>5. \A r \in Request : Handled(r) => Handled(r)'
    BY <2>2 DEF Handled
  <2> QED BY <1>1, <2>1, <2>2, <2>4, <2>5 DEF KeptInv
<1>4. ASSUME NEW r \in Request, Environment(r) PROVE KeptInv'
  <2>1. UNCHANGED <<asked, pc, req, queue, created, ended, stuck>>
    BY <1>4 DEF Environment, Stop, Start, ScanSync, Adopt, GuestPowerOff, InstallEnd, Delete
  <2> QED BY <2>1 DEF KeptInv, Settled, Pending, Handled
<1>5. ASSUME Crash PROVE KeptInv'
  <2>1. /\ UNCHANGED <<asked, queue, created>> /\ stuck' = stuck \cup Processing
        /\ ended' = ended \cup {req[c] : c \in {d \in Client : pc[d] # "idle"}}
        /\ pc' = [a \in Actor |-> "idle"]
    BY <1>5 DEF Crash
  <2>2. \A r \in Request : Settled(r) => Settled(r)'
    BY <2>1, SettledGrows
  <2>3. ASSUME NEW r \in Request, Handled(r) PROVE Settled(r)'
    <3>1. PICK a \in Actor : req[a] = r /\ pc[a] \in HandlerPc
      BY <2>3 DEF Handled
    <3>2. CASE a = Runner
      BY <2>1, <3>1, <3>2 DEF Processing, Settled
    <3>3. CASE a \in Client
      BY <2>1, <3>1, <3>3 DEF Settled
    <3> QED BY <3>2, <3>3
  <2>4. pc'[Runner] = "idle"
    BY <2>1
  <2> QED BY <1>1, <2>1, <2>2, <2>3, <2>4 DEF KeptInv
<1> QED BY <1>2, <1>3, <1>4, <1>5

\* A request is created, held, reported or, after a restart only, stuck in state
\* "processing": no step of the handlers, the runner or the expiry forgets it.
THEOREM NobodyIsForgotten == Spec => []NobodyForgotten
<1>1. Init => KeptInv
  BY ActorAssumption DEF Init, KeptInv, Actor
<1>2. TypeOK /\ KeptInv /\ [Next]_vars => KeptInv'
  <2>1. TypeOK /\ KeptInv /\ Next => KeptInv'
    BY KeptHandle, KeptRunQueue, KeptOthers DEF Next
  <2>2. KeptInv /\ UNCHANGED vars => KeptInv'
    BY DEF vars, KeptInv, Settled, Pending, Handled
  <2> QED BY <2>1, <2>2
<1>3. KeptInv => NobodyForgotten
  BY DEF KeptInv, NobodyForgotten, Settled, Handled, Held
<1> QED BY <1>1, <1>2, <1>3, TypeCorrect, PTL DEF Spec

-----------------------------------------------------------------------------
(***************************************************************************)
(* A request is in the hands of one actor at most, or listed once in the   *)
(* queue and once in the runner's batch: what ServedAtMostOnce rests on.   *)
(***************************************************************************)
Listed(s, r) == \E i \in DOMAIN s : s[i] = r

\* A new element at the end keeps a sequence without repetitions.
LEMMA AppendDistinct ==
  ASSUME NEW S, NEW s \in Seq(S), NEW x \in S, IsInjective(s), ~Listed(s, x)
  PROVE  /\ IsInjective(Append(s, x))
         /\ \A y : Listed(Append(s, x), y) <=> Listed(s, y) \/ y = x
<1> DEFINE t == Append(s, x)
<1>1. /\ t \in Seq(S) /\ Len(t) = Len(s) + 1 /\ t[Len(s) + 1] = x
      /\ \A i \in 1..Len(s) : t[i] = s[i]
  BY AppendProperties
<1>2. /\ Len(s) \in Nat /\ DOMAIN s = 1..Len(s)
  BY LenProperties
<1> HIDE DEF t
<1>3. DOMAIN t = 1..Len(t)
  BY <1>1, LenProperties
<1>4. \A i \in DOMAIN t : i \in DOMAIN s \/ i = Len(s) + 1
  BY <1>1, <1>2, <1>3
<1>5. \A i \in DOMAIN s : i \in DOMAIN t /\ t[i] = s[i] /\ s[i] # x
  BY <1>1, <1>2, <1>3 DEF Listed
<1>6. Len(s) + 1 \in DOMAIN t
  BY <1>1, <1>2, <1>3
<1>7. IsInjective(t)
  BY <1>1, <1>4, <1>5 DEF IsInjective
<1>8. \A y : Listed(t, y) <=> Listed(s, y) \/ y = x
  BY <1>1, <1>4, <1>5, <1>6 DEF Listed
<1> QED BY <1>7, <1>8 DEF t

\* A sequence drawn from another one, position by position, repeats nothing either.
LEMMA DrawnDistinct ==
  ASSUME NEW S, NEW s \in Seq(S), NEW t \in Seq(S), NEW from \in [1..Len(t) -> 1..Len(s)],
         \A i, k \in 1..Len(t) : from[i] = from[k] => i = k,
         \A i \in 1..Len(t) : t[i] = s[from[i]],
         IsInjective(s)
  PROVE  IsInjective(t) /\ \A y : Listed(t, y) => Listed(s, y)
<1>1. DOMAIN s = 1..Len(s) /\ DOMAIN t = 1..Len(t)
  BY LenProperties
<1> QED BY <1>1 DEF IsInjective, Listed

\* What ExpireOld leaves of the queue.
LEMMA SuffixDistinct ==
  ASSUME NEW S, NEW s \in Seq(S), NEW n \in 1..Len(s), IsInjective(s)
  PROVE  /\ IsInjective(SubSeq(s, n + 1, Len(s)))
         /\ \A y : Listed(SubSeq(s, n + 1, Len(s)), y) => Listed(s, y)
<1> DEFINE t == SubSeq(s, n + 1, Len(s))
<1>1. Len(s) \in Nat /\ \A i \in 1..Len(s) : s[i] \in S
  BY LenProperties
<1>2. /\ t \in Seq(S) /\ Len(t) = Len(s) - n
      /\ \A i \in 1..(Len(s) - n) : t[i] = s[i + n]
  BY <1>1, SubSeqProperties
<1> DEFINE from == [i \in 1..Len(t) |-> i + n]
<1> HIDE DEF t
<1>3. /\ from \in [1..Len(t) -> 1..Len(s)]
      /\ \A i, k \in 1..Len(t) : from[i] = from[k] => i = k
      /\ \A i \in 1..Len(t) : t[i] = s[from[i]]
  BY <1>1, <1>2
<1> HIDE DEF from
<1>4. IsInjective(t) /\ \A y : Listed(t, y) => Listed(s, y)
  BY <1>2, <1>3, DrawnDistinct
<1> QED BY <1>4 DEF t

\* What PreCheckHost leaves of the batch: no longer the entry that it took up.
LEMMA TailDistinct ==
  ASSUME NEW S, NEW s \in Seq(S), s # <<>>, IsInjective(s)
  PROVE  /\ IsInjective(Tail(s)) /\ Listed(s, Head(s))
         /\ \A y : Listed(Tail(s), y) => Listed(s, y) /\ y # Head(s)
<1> DEFINE t == Tail(s)
<1>1. /\ t \in Seq(S) /\ Len(t) = Len(s) - 1 /\ \A i \in 1..Len(t) : t[i] = s[i + 1]
  BY HeadTailProperties
<1>2. Len(s) \in Nat \ {0} /\ DOMAIN s = 1..Len(s) /\ Head(s) = s[1]
  BY EmptySeq, LenProperties
<1> DEFINE from == [i \in 1..Len(t) |-> i + 1]
<1> HIDE DEF t
<1>3. /\ from \in [1..Len(t) -> 1..Len(s)]
      /\ \A i, k \in 1..Len(t) : from[i] = from[k] => i = k
      /\ \A i \in 1..Len(t) : t[i] = s[from[i]]
      /\ \A i \in 1..Len(t) : from[i] # 1
  BY <1>1, <1>2
<1> HIDE DEF from
<1>4. IsInjective(t) /\ \A y : Listed(t, y) => Listed(s, y)
  BY <1>1, <1>3, DrawnDistinct
<1>5. ~Listed(t, Head(s))
  <2> SUFFICES ASSUME NEW i \in 1..Len(t), t[i] = s[1] PROVE FALSE
    BY <1>1, <1>2, LenProperties DEF Listed
  <2>1. from[i] = 1
    BY <1>2, <1>3 DEF IsInjective
  <2> QED BY <2>1, <1>3
<1>6. Listed(s, Head(s))
  BY <1>2 DEF Listed
<1> QED BY <1>4, <1>5, <1>6 DEF t

\* What MarkProcessing leaves of the queue: no longer the entry that it marked.
LEMMA RemoveDistinct ==
  ASSUME NEW S, NEW s \in Seq(S), NEW j \in DOMAIN s, IsInjective(s)
  PROVE  /\ IsInjective(RemoveAt(s, j))
         /\ \A y : Listed(RemoveAt(s, j), y) => Listed(s, y) /\ y # s[j]
<1> DEFINE u == SubSeq(s, 1, j - 1)
           v == SubSeq(s, j + 1, Len(s))
           t == RemoveAt(s, j)
<1>1. j \in 1..Len(s) /\ Len(s) \in Nat /\ DOMAIN s = 1..Len(s) /\ \A i \in 1..Len(s) : s[i] \in S
  BY LenProperties
<1>2. u \in Seq(S) /\ Len(u) = j - 1 /\ \A i \in 1..(j - 1) : u[i] = s[i]
  BY <1>1, SubSeqProperties
<1>3. v \in Seq(S) /\ Len(v) = Len(s) - j /\ \A i \in 1..(Len(s) - j) : v[i] = s[i + j]
  BY <1>1, SubSeqProperties
<1>4. t = u \o v
  BY DEF RemoveAt
<1> DEFINE from == [i \in 1..Len(t) |-> IF i < j THEN i ELSE i + 1]
<1> HIDE DEF u, v, t
<1>5. t \in Seq(S) /\ Len(t) = Len(u) + Len(v)
      /\ \A i \in 1..(Len(u) + Len(v)) : t[i] = IF i <= Len(u) THEN u[i] ELSE v[i - Len(u)]
  BY <1>2, <1>3, <1>4, ConcatProperties
<1>6. Len(t) = Len(s) - 1 /\ \A i \in 1..Len(t) : t[i] = IF i < j THEN s[i] ELSE s[i + 1]
  <2>1. Len(t) = Len(s) - 1
    BY <1>1, <1>2, <1>3, <1>5
  <2> SUFFICES ASSUME NEW i \in 1..Len(t) PROVE t[i] = IF i < j THEN s[i] ELSE s[i + 1]
    BY <2>1
  <2>2. CASE i < j
    <3>1. i \in 1..(j - 1) /\ i <= Len(u)
      BY <1>1, <1>2, <2>1, <2>2
    <3>2. t[i] = u[i]
      BY <1>5, <3>1
    <3> QED BY <1>2, <2>2, <3>1, <3>2
  <2>3. CASE ~(i < j)
    <3>1. i - Len(u) \in 1..(Len(s) - j) /\ i - Len(u) + j = i + 1 /\ ~(i <= Len(u))
      BY <1>1, <1>2, <2>1, <2>3
    <3>2. t[i] = v[i - Len(u)]
      BY <1>5, <3>1
    <3>3. v[i - Len(u)] = s[i - Len(u) + j]
      BY <1>3, <3>1
    <3> QED BY <2>3, <3>1, <3>2, <3>3
  <2> QED BY <2>2, <2>3
<1>7. from \in [1..Len(t) -> 1..Len(s)] /\ \A i \in 1..Len(t) : from[i] # j
  BY <1>1, <1>6
<1>8. \A i, k \in 1..Len(t) : from[i] = from[k] => i = k
  BY <1>1, <1>6
<1>9. \A i \in 1..Len(t) : t[i] = s[from[i]]
  BY <1>1, <1>6
<1> HIDE DEF from
<1>10. IsInjective(t) /\ \A y : Listed(t, y) => Listed(s, y)
  BY <1>5, <1>7, <1>8, <1>9, DrawnDistinct
<1>11. ~Listed(t, s[j])
  <2> SUFFICES ASSUME NEW i \in 1..Len(t), t[i] = s[j] PROVE FALSE
    BY <1>5, LenProperties DEF Listed
  <2>1. from[i] = j
    BY <1>1, <1>7, <1>9 DEF IsInjective
  <2> QED BY <2>1, <1>7
<1> QED BY <1>10, <1>11 DEF t

OnePlace ==
  /\ \A a, b \in Actor : req[a] = req[b] /\ req[a] # NoRequest => a = b
  /\ \A a \in Actor :
       /\ pc[a] = "idle" <=> req[a] = NoRequest
       /\ pc[a] \in HandlerPc => ~Listed(queue, req[a])
       /\ pc[a] # "idle" => req[a] \in asked /\ ~Listed(batch, req[a])
       /\ pc[a] \notin {"idle", "done"} => created[req[a]] = 0
  /\ IsInjective(queue) /\ IsInjective(batch)
  /\ \A r \in Request :
       /\ Listed(queue, r) \/ Listed(batch, r) => r \in asked /\ created[r] = 0
       /\ r \notin asked => created[r] = 0
       /\ created[r] <= 1

\* A handler that only goes on, answers or raises takes its request nowhere else.
LEMMA PlaceMove ==
  ASSUME TypeOK, OnePlace, NEW a \in Actor, pc[a] \in HandlerPc,
         UNCHANGED <<asked, queue, batch, created>>,
         Answered(a) \/ Raised(a) \/ (\E p \in HandlerPc : Goto(a, p))
  PROVE  OnePlace'
<1>1. /\ pc \in [Actor -> ActorPc] /\ req \in [Actor -> Request \cup {NoRequest}]
      /\ pc[a] \in HandlerPc /\ req[a] \in Request /\ req[a] # NoRequest
  BY RequestAssumption DEF TypeOK
<1>2. \A b \in Actor \ {a} : pc'[b] = pc[b] /\ req'[b] = req[b]
  BY <1>1 DEF Answered, Raised
<1>3. \/ pc'[a] = "idle" /\ req'[a] = NoRequest
      \/ pc'[a] \in HandlerPc \cup {"done", "expire"} /\ req'[a] = req[a]
  BY <1>1 DEF Answered, Raised
<1> QED BY <1>1, <1>2, <1>3 DEF OnePlace, Listed

\* The handlers insert and enqueue what is nowhere else.
LEMMA PlaceHandle ==
  ASSUME TypeOK, OnePlace, NEW a \in Actor, Handle(a)
  PROVE  OnePlace'
<1>1. /\ pc \in [Actor -> ActorPc] /\ req \in [Actor -> Request \cup {NoRequest}]
      /\ pc[a] \in HandlerPc /\ req[a] \in Request /\ req[a] # NoRequest
      /\ created \in [Request -> Nat] /\ queue \in Seq(Request)
      /\ UNCHANGED <<asked, batch>>
  BY RequestAssumption
  DEF TypeOK, Handle, CheckInstalls, CheckHost, CheckProject, Boot, Insert, InsertRaises, Enqueue
<1>2. CASE CheckInstalls(a) \/ CheckHost(a) \/ CheckProject(a) \/ Boot(a) \/ InsertRaises(a)
  <2>1. /\ UNCHANGED <<asked, queue, batch, created>>
        /\ Answered(a) \/ Raised(a) \/ (\E p \in HandlerPc : Goto(a, p))
    BY <1>2 DEF CheckInstalls, CheckHost, CheckProject, Boot, InsertRaises
  <2> QED BY <1>1, <2>1, PlaceMove
<1>3. /\ ~Listed(queue, req[a]) /\ ~Listed(batch, req[a]) /\ created[req[a]] = 0
      /\ req[a] \in asked
      /\ \A b \in Actor \ {a} : req[b] # req[a]
  BY <1>1 DEF OnePlace
<1>4. CASE Insert(a) \/ Enqueue(a)
  <2>1. Answered(a)
    BY <1>4 DEF Insert, Enqueue
  <2>2. \A b \in Actor \ {a} : pc'[b] = pc[b] /\ req'[b] = req[b]
    BY <1>1, <2>1 DEF Answered
  <2>3. \/ pc'[a] = "idle" /\ req'[a] = NoRequest
        \/ pc'[a] = "done" /\ req'[a] = req[a]
    BY <1>1, <2>1 DEF Answered
  <2>4. \A b \in Actor : pc[b] # "idle" => req[b] \in Request /\ req[b] # NoRequest
    BY RequestAssumption DEF TypeOK
  <2>5. CASE Insert(a)
    <3>1. UNCHANGED queue /\ created' = [created EXCEPT ![req[a]] = 1]
      BY <1>1, <1>3, <2>5 DEF Insert
    <3> QED BY <1>1, <1>3, <2>2, <2>3, <2>4, <3>1 DEF OnePlace, Listed
  <2>6. CASE Enqueue(a)
    <3>1. UNCHANGED created /\ queue' = Append(queue, req[a])
      BY <2>6 DEF Enqueue
    <3>2. /\ IsInjective(queue')
          /\ \A y : Listed(queue', y) <=> Listed(queue, y) \/ y = req[a]
      BY <1>1, <1>3, <3>1, AppendDistinct DEF OnePlace
    <3>3. batch' = batch /\ \A y : Listed(batch, y) <=> Listed(batch', y)
      BY <1>1
    <3> QED BY <1>1, <1>3, <2>2, <2>3, <2>4, <3>1, <3>2, <3>3 DEF OnePlace
  <2> QED BY <1>4, <2>5, <2>6
<1> QED BY <1>2, <1>4 DEF Handle

\* The runner takes an entry from its batch, then from the queue, and no other has it.
LEMMA PlaceRunQueue ==
  ASSUME TypeOK, OnePlace, RunQueue
  PROVE  OnePlace'
<1>1. /\ pc \in [Actor -> ActorPc] /\ req \in [Actor -> Request \cup {NoRequest}]
      /\ queue \in Seq(Request) /\ batch \in Seq(Request) /\ Runner \in Actor
      /\ UNCHANGED <<asked, created>>
      /\ \A b \in Actor : pc[b] # "idle" => req[b] \in Request /\ req[b] # NoRequest
  BY RequestAssumption
  DEF TypeOK, Actor, RunQueue, ListPending, PreCheckHost, PreCheckProject, MarkProcessing,
      MarkFinished
<1>2. CASE ListPending
  <2>1. UNCHANGED <<pc, req, queue>> /\ pc[Runner] = "idle" /\ batch' = queue
    BY <1>2 DEF ListPending
  <2>2. IsInjective(batch') /\ \A y : Listed(batch', y) <=> Listed(queue, y)
    BY <2>1 DEF OnePlace
  <2>3. \A y : Listed(queue', y) <=> Listed(queue, y)
    BY <2>1
  <2>4. \A a \in Actor : pc[a] # "idle" => pc[a] \in HandlerPc
    BY <2>1 DEF TypeOK, Actor
  <2> QED BY <1>1, <2>1, <2>2, <2>3, <2>4 DEF OnePlace
<1>3. CASE PreCheckHost
  <2>1. /\ Listed(batch, Head(batch)) /\ Head(batch) \in Request /\ batch' = Tail(batch)
        /\ IsInjective(batch') /\ UNCHANGED queue /\ pc[Runner] = "idle"
        /\ \A y : Listed(batch', y) => Listed(batch, y) /\ y # Head(batch)
    BY <1>1, <1>3, TailDistinct, HeadTailProperties DEF PreCheckHost, OnePlace
  <2>2. /\ Head(batch) \in asked /\ created[Head(batch)] = 0 /\ Head(batch) # NoRequest
        /\ \A b \in Actor : req[b] # Head(batch)
    BY <1>1, <2>1, RequestAssumption DEF OnePlace
  <2>3. CASE UNCHANGED <<pc, req>>
    BY <1>1, <2>1, <2>3 DEF OnePlace
  <2>4. CASE /\ pc' = [pc EXCEPT ![Runner] = "pre_rows"]
             /\ req' = [req EXCEPT ![Runner] = Head(batch)]
    <3>1. pc'[Runner] = "pre_rows" /\ req'[Runner] = Head(batch)
      BY <1>1, <2>4
    <3>2. \A b \in Actor \ {Runner} : pc'[b] = pc[b] /\ req'[b] = req[b]
      BY <1>1, <2>4
    <3> QED BY <1>1, <2>1, <2>2, <3>1, <3>2 DEF OnePlace
  <2> QED BY <1>3, <2>3, <2>4 DEF PreCheckHost
<1>4. CASE PreCheckProject \/ MarkFinished
  <2>1. UNCHANGED <<queue, batch>> /\ pc[Runner] # "idle" /\ (Rest(Runner) \/ Goto(Runner, "mark"))
    BY <1>4 DEF PreCheckProject, MarkFinished
  <2>2. \A b \in Actor \ {Runner} : pc'[b] = pc[b] /\ req'[b] = req[b]
    BY <1>1, <2>1
  <2>3. \/ pc'[Runner] = "idle" /\ req'[Runner] = NoRequest
        \/ pc[Runner] = "pre_rows" /\ pc'[Runner] = "mark" /\ req'[Runner] = req[Runner]
    BY <1>1, <1>4, <2>1 DEF PreCheckProject, MarkFinished
  <2> QED BY <1>1, <2>1, <2>2, <2>3 DEF OnePlace
<1>5. CASE MarkProcessing
  <2>1. /\ pc[Runner] = "mark" /\ req' = req /\ UNCHANGED batch
        /\ pc' = [pc EXCEPT ![Runner] = FirstCheck(req[Runner])]
        /\ FirstCheck(req[Runner]) \in HandlerPc
    BY <1>5 DEF MarkProcessing, FirstCheck
  <2>2. /\ IsInjective(queue') /\ ~Listed(queue', req[Runner])
        /\ \A y : Listed(queue', y) => Listed(queue, y)
    <3>1. CASE ~Pending(req[Runner]) /\ UNCHANGED queue
      BY <3>1 DEF OnePlace, Pending, Listed
    <3>2. ASSUME NEW i \in DOMAIN queue, queue[i] = req[Runner], queue' = RemoveAt(queue, i)
          PROVE  /\ IsInjective(queue') /\ ~Listed(queue', req[Runner])
                 /\ \A y : Listed(queue', y) => Listed(queue, y)
      BY <1>1, <3>2, RemoveDistinct DEF OnePlace
    <3> QED BY <1>5, <3>1, <3>2 DEF MarkProcessing
  <2>3. /\ pc'[Runner] \in HandlerPc
        /\ \A b \in Actor \ {Runner} : pc'[b] = pc[b]
    BY <1>1, <2>1
  <2> QED BY <1>1, <2>1, <2>2, <2>3 DEF OnePlace
<1> QED BY <1>2, <1>3, <1>4, <1>5 DEF RunQueue

\* New requests are new, and the steps of the others only take things away.
LEMMA PlaceOthers ==
  ASSUME TypeOK, OnePlace,
         (\E c \in Client : Ask(c)) \/ ExpireOld \/ (\E r \in Request : Environment(r)) \/ Crash
  PROVE  OnePlace'
<1>1. /\ pc \in [Actor -> ActorPc] /\ req \in [Actor -> Request \cup {NoRequest}]
      /\ queue \in Seq(Request) /\ UNCHANGED created /\ NoRequest \notin Request
      /\ \A b \in Actor : pc[b] # "idle" => req[b] \in Request
  BY RequestAssumption
  DEF TypeOK, Ask, ExpireOld, Environment, Stop, Start, ScanSync, Adopt, GuestPowerOff,
      InstallEnd, Delete, Crash
<1>2. ASSUME NEW c \in Client, Ask(c) PROVE OnePlace'
  <2>1. PICK q \in Request \ asked :
          /\ asked' = asked \cup {q} /\ req' = [req EXCEPT ![c] = q]
          /\ pc' = [pc EXCEPT ![c] = FirstCheck(q)]
    BY <1>2 DEF Ask
  <2>2. UNCHANGED <<queue, batch>> /\ pc[c] = "idle" /\ FirstCheck(q) \in HandlerPc /\ c \in Actor
    BY <1>2 DEF Ask, FirstCheck, Actor
  <2>3. /\ \A b \in Actor : req[b] # q
        /\ ~Listed(queue, q) /\ ~Listed(batch, q) /\ created[q] = 0 /\ q # NoRequest
    BY <1>1, <2>1 DEF OnePlace
  <2>4. /\ pc'[c] \in HandlerPc /\ req'[c] = q
        /\ \A b \in Actor \ {c} : pc'[b] = pc[b] /\ req'[b] = req[b]
    BY <1>1, <2>1, <2>2
  <2> QED BY <1>1, <2>1, <2>2, <2>3, <2>4 DEF OnePlace
<1>3. CASE ExpireOld
  <2>1. UNCHANGED <<asked, pc, req, batch>>
    BY <1>3 DEF ExpireOld
  <2>2. IsInjective(queue') /\ \A y : Listed(queue', y) => Listed(queue, y)
    BY <1>1, <1>3, SuffixDistinct DEF ExpireOld, OnePlace
  <2> QED BY <1>1, <2>1, <2>2 DEF OnePlace
<1>4. ASSUME NEW r \in Request, Environment(r) PROVE OnePlace'
  <2>1. UNCHANGED <<asked, pc, req, queue, batch, created>>
    BY <1>4 DEF Environment, Stop, Start, ScanSync, Adopt, GuestPowerOff, InstallEnd, Delete
  <2> QED BY <2>1 DEF OnePlace, Listed
<1>5. CASE Crash
  <2>1. /\ UNCHANGED <<asked, queue>> /\ batch' = <<>>
        /\ \A a \in Actor : pc'[a] = "idle" /\ req'[a] = NoRequest
    BY <1>5 DEF Crash
  <2>2. IsInjective(batch') /\ \A y : ~Listed(batch', y)
    BY <2>1 DEF IsInjective, Listed
  <2> QED BY <1>1, <2>1, <2>2 DEF OnePlace
<1> QED BY <1>2, <1>3, <1>4, <1>5

\* No request is in two hands or twice on a list, and none is made a VM for twice.
THEOREM OnePlaceOnly == Spec => []OnePlace
<1>1. Init => OnePlace
  BY RequestAssumption DEF Init, OnePlace, Listed, IsInjective
<1>2. TypeOK /\ OnePlace /\ [Next]_vars => OnePlace'
  <2>1. TypeOK /\ OnePlace /\ Next => OnePlace'
    BY PlaceHandle, PlaceRunQueue, PlaceOthers DEF Next
  <2>2. OnePlace /\ UNCHANGED vars => OnePlace'
    BY DEF vars, OnePlace, Listed
  <2> QED BY <2>1, <2>2
<1> QED BY <1>1, <1>2, TypeCorrect, PTL DEF Spec

\* A request whose fate changes alone.
LEMMA FateFunction ==
  ASSUME NEW q \in Request, NEW f, Fate'[q] = f, \A r \in Request \ {q} : Fate'[r] = Fate[r]
  PROVE  Fate' = [Fate EXCEPT ![q] = f]
BY DEF Fate

\* Where nothing is asked or made, the requests that are given up are dropped.
LEMMA LetsGo ==
  ASSUME UNCHANGED <<asked, created>>, created \in [Request -> Nat],
         \A r \in Request : Held(r)' => Held(r)
  PROVE  Life!Next
<1> DEFINE R == {r \in Request : Fate[r] = "held" /\ Fate'[r] = "dropped"}
<1>1. /\ Fate' = [r \in Request |-> IF r \in R THEN "dropped" ELSE Fate[r]]
      /\ \A r \in R : Fate[r] = "held"
  BY DEF Fate
<1>2. Life!Drop(R)
  BY <1>1 DEF Life!Drop
<1>3. R \in SUBSET Request
  OBVIOUS
<1> HIDE DEF R
<1> QED BY <1>2, <1>3 DEF Life!Next

\* What a handler awaits is held until it raises, is inserted or queued.
LEMMA LifeHandle ==
  ASSUME TypeOK, OnePlace, NEW a \in Actor, Handle(a)
  PROVE  Life!Next
<1>1. /\ pc \in [Actor -> ActorPc] /\ req \in [Actor -> Request \cup {NoRequest}]
      /\ pc[a] \in HandlerPc /\ req[a] \in Request
      /\ created \in [Request -> Nat] /\ queue \in Seq(Request)
      /\ UNCHANGED <<asked, batch>>
  BY RequestAssumption
  DEF OnePlace, TypeOK, Handle, CheckInstalls, CheckHost, CheckProject, Boot, Insert,
      InsertRaises, Enqueue
<1>2. /\ \A b \in Actor \ {a} : pc'[b] = pc[b] /\ req'[b] = req[b]
      /\ req'[a] \in {req[a], NoRequest}
  BY <1>1 DEF Handle, CheckInstalls, CheckHost, CheckProject, Boot, Insert, InsertRaises,
              Enqueue, Answered, Raised
<1>3. req[a] \in asked /\ created[req[a]] = 0 /\ Held(req[a]) /\ ~Listed(queue, req[a])
  BY <1>1 DEF OnePlace, Held
<1>4. CASE Insert(a)
  <2>1. UNCHANGED queue /\ created' = [created EXCEPT ![req[a]] = 1]
    BY <1>1, <1>3, <1>4 DEF Insert
  <2>2. pc'[a] # "expire"
    BY <1>1, <1>4 DEF Insert, Answered
  <2>3. \A r \in Request \ {req[a]} : Held(r)' <=> Held(r)
    BY <1>1, <1>2, <2>1, RequestAssumption DEF Held, Pending
  <2>4. Fate[req[a]] = "held" /\ Fate' = [Fate EXCEPT ![req[a]] = "served"]
    <3>1. Fate[req[a]] = "held"
      BY <1>1, <1>3 DEF Fate
    <3>2. created'[req[a]] = 1 /\ \A r \in Request \ {req[a]} : created'[r] = created[r]
      BY <1>1, <2>1
    <3>3. Fate'[req[a]] = "served"
      BY <1>1, <1>3, <3>2 DEF Fate
    <3>4. \A r \in Request \ {req[a]} : Fate'[r] = Fate[r]
      BY <1>1, <2>3, <3>2 DEF Fate
    <3> QED BY <1>1, <3>1, <3>3, <3>4, FateFunction
  <2>5. created' = [created EXCEPT ![req[a]] = @ + 1]
    BY <1>4 DEF Insert
  <2>6. Life!Serve(req[a])
    BY <2>4, <2>5 DEF Life!Serve, Life!Become
  <2> QED BY <1>1, <2>6 DEF Life!Next
<1>5. CASE Enqueue(a)
  <2>1. UNCHANGED created /\ queue' = Append(queue, req[a]) /\ IsInjective(queue)
    BY <1>5 DEF Enqueue, OnePlace
  <2>2. \A y : Listed(queue', y) <=> Listed(queue, y) \/ y = req[a]
    BY <1>1, <1>3, <2>1, AppendDistinct
  <2>3. pc'[a] # "expire"
    BY <1>1, <1>5 DEF Enqueue, Answered
  <2>4. ASSUME NEW r \in Request, r # req[a], Held(r)' PROVE Held(r)
    <3>1. (\E b \in Actor : req'[b] = r /\ pc'[b] # "expire") \/ Listed(queue', r) \/ Listed(batch', r)
      BY <2>4 DEF Held, Pending, Listed
    <3>2. CASE Listed(queue', r) \/ Listed(batch', r)
      BY <1>1, <2>2, <2>4, <3>2 DEF Held, Pending, Listed
    <3>3. ASSUME NEW b \in Actor, req'[b] = r, pc'[b] # "expire" PROVE Held(r)
      BY <1>1, <1>2, <2>4, <3>3, RequestAssumption DEF Held
    <3> QED BY <3>1, <3>2, <3>3
  <2> QED BY <1>1, <1>3, <2>1, <2>4, LetsGo
<1>6. CASE CheckInstalls(a) \/ CheckHost(a) \/ CheckProject(a) \/ Boot(a) \/ InsertRaises(a)
  <2>1. UNCHANGED <<queue, created>>
    BY <1>6 DEF CheckInstalls, CheckHost, CheckProject, Boot, InsertRaises
  <2>2. \A r \in Request : Held(r)' => Held(r)
    BY <1>1, <1>2, <1>3, <2>1, RequestAssumption DEF Held, Pending
  <2> QED BY <1>1, <2>1, <2>2, LetsGo
<1> QED BY <1>4, <1>5, <1>6 DEF Handle

\* The runner works on what is held, and lets go of an entry when it has ended.
LEMMA LifeRunQueue ==
  ASSUME TypeOK, OnePlace, RunQueue
  PROVE  Life!Next
<1>1. /\ pc \in [Actor -> ActorPc] /\ req \in [Actor -> Request \cup {NoRequest}]
      /\ queue \in Seq(Request) /\ batch \in Seq(Request) /\ Runner \in Actor
      /\ UNCHANGED <<asked, created>> /\ created \in [Request -> Nat]
      /\ NoRequest \notin Request
  BY RequestAssumption
  DEF TypeOK, Actor, RunQueue, ListPending, PreCheckHost, PreCheckProject, MarkProcessing,
      MarkFinished
<1>2. ASSUME NEW r \in Request, Held(r)' PROVE Held(r)
  <2>1. CASE ListPending
    BY <1>2, <2>1 DEF ListPending, Held, Pending
  <2>2. CASE PreCheckHost
    <3>1. /\ UNCHANGED queue /\ batch' = Tail(batch) /\ Listed(batch, Head(batch))
          /\ \A y : Listed(batch', y) => Listed(batch, y)
      BY <1>1, <2>2, TailDistinct DEF PreCheckHost, OnePlace
    <3>2. \A b \in Actor : \/ pc'[b] = pc[b] /\ req'[b] = req[b]
                           \/ req'[b] = Head(batch)
      BY <1>1, <2>2 DEF PreCheckHost
    <3> QED BY <1>2, <3>1, <3>2 DEF Held, Pending, Listed
  <2>3. CASE PreCheckProject \/ MarkFinished
    <3>1. UNCHANGED <<queue, batch>>
      BY <2>3 DEF PreCheckProject, MarkFinished
    <3>2. \A b \in Actor : \/ pc'[b] = pc[b] /\ req'[b] = req[b]
                           \/ req'[b] = NoRequest
                           \/ pc[b] = "pre_rows" /\ req'[b] = req[b]
      BY <1>1, <2>3 DEF PreCheckProject, MarkFinished
    <3> QED BY <1>1, <1>2, <3>1, <3>2 DEF Held, Pending
  <2>4. CASE MarkProcessing
    <3>1. /\ UNCHANGED <<req, batch>> /\ pc[Runner] = "mark"
          /\ \A b \in Actor \ {Runner} : pc'[b] = pc[b]
      BY <1>1, <2>4 DEF MarkProcessing
    <3>2. \A y : Listed(queue', y) => Listed(queue, y)
      BY <1>1, <2>4, RemoveDistinct DEF MarkProcessing, OnePlace
    <3> QED BY <1>2, <3>1, <3>2 DEF Held, Pending, Listed
  <2> QED BY <2>1, <2>2, <2>3, <2>4 DEF RunQueue
<1> QED BY <1>1, <1>2, LetsGo

\* New requests are taken; expiry and restarts only drop.
LEMMA LifeOthers ==
  ASSUME TypeOK, OnePlace,
         (\E c \in Client : Ask(c)) \/ ExpireOld \/ (\E r \in Request : Environment(r)) \/ Crash
  PROVE  Life!Next
<1>1. /\ pc \in [Actor -> ActorPc] /\ req \in [Actor -> Request \cup {NoRequest}]
      /\ queue \in Seq(Request) /\ UNCHANGED created /\ NoRequest \notin Request
      /\ created \in [Request -> Nat]
  BY RequestAssumption
  DEF TypeOK, Ask, ExpireOld, Environment, Stop, Start, ScanSync, Adopt, GuestPowerOff,
      InstallEnd, Delete, Crash
<1>2. ASSUME NEW c \in Client, Ask(c) PROVE Life!Next
  <2>1. PICK q \in Request \ asked :
          /\ asked' = asked \cup {q} /\ req' = [req EXCEPT ![c] = q]
          /\ pc' = [pc EXCEPT ![c] = FirstCheck(q)]
    BY <1>2 DEF Ask
  <2>2. UNCHANGED <<queue, batch>> /\ FirstCheck(q) \in HandlerPc /\ c \in Actor
    BY <1>2 DEF Ask, FirstCheck, Actor
  <2>3. req[c] = NoRequest /\ created[q] = 0
    BY <1>2, <2>2, <2>1 DEF Ask, OnePlace
  <2>4. /\ pc'[c] # "expire" /\ req'[c] = q
        /\ \A b \in Actor \ {c} : pc'[b] = pc[b] /\ req'[b] = req[b]
    BY <1>1, <2>1, <2>2
  <2>5. Held(q)'
    BY <2>2, <2>4 DEF Held
  <2>6. ASSUME NEW r \in Request \ {q} PROVE Held(r)' <=> Held(r)
    <3>1. (\E b \in Actor : req'[b] = r /\ pc'[b] # "expire")
            <=> (\E b \in Actor : req[b] = r /\ pc[b] # "expire")
      BY <1>1, <2>3, <2>4
    <3> QED BY <2>2, <3>1 DEF Held, Pending
  <2>7. Fate[q] = "new" /\ Fate' = [Fate EXCEPT ![q] = "held"]
    <3>1. Fate[q] = "new"
      BY DEF Fate
    <3>2. Fate'[q] = "held"
      BY <1>1, <2>1, <2>3, <2>5 DEF Fate
    <3>3. \A r \in Request \ {q} : Fate'[r] = Fate[r]
      BY <1>1, <2>1, <2>6 DEF Fate
    <3> QED BY <3>1, <3>2, <3>3, FateFunction
  <2>8. Life!Take(q)
    BY <1>1, <2>7 DEF Life!Take, Life!Become
  <2> QED BY <2>8 DEF Life!Next
<1>3. CASE ExpireOld
  <2>1. UNCHANGED <<asked, pc, req, batch>>
    BY <1>3 DEF ExpireOld
  <2>2. \A y : Listed(queue', y) => Listed(queue, y)
    BY <1>1, <1>3, SuffixDistinct DEF ExpireOld, OnePlace
  <2>3. \A r \in Request : Held(r)' => Held(r)
    BY <2>1, <2>2 DEF Held, Pending, Listed
  <2> QED BY <1>1, <2>1, <2>3, LetsGo
<1>4. ASSUME NEW r \in Request, Environment(r) PROVE Life!Next
  <2>1. UNCHANGED <<asked, pc, req, queue, batch, created>>
    BY <1>4 DEF Environment, Stop, Start, ScanSync, Adopt, GuestPowerOff, InstallEnd, Delete
  <2>2. \A q \in Request : Held(q)' => Held(q)
    BY <2>1 DEF Held, Pending
  <2> QED BY <1>1, <2>1, <2>2, LetsGo
<1>5. CASE Crash
  <2>1. /\ UNCHANGED <<asked, queue>> /\ batch' = <<>>
        /\ \A a \in Actor : req'[a] = NoRequest
    BY <1>5 DEF Crash
  <2>2. \A r \in Request : Held(r)' => Held(r)
    BY <1>1, <2>1 DEF Held, Pending
  <2> QED BY <1>1, <2>1, <2>2, LetsGo
<1> QED BY <1>2, <1>3, <1>4, <1>5

\* The handlers, the queue and its runner implement the life of a request: however
\* they, the expiry and the restarts interleave, at most one VM is made for it, and
\* nothing takes it up again once it is served or dropped.
THEOREM AdmissionImplementsRequestLife == Spec => ServedAtMostOnce
<1>1. Init => Life!Init
  <2> SUFFICES ASSUME Init PROVE Life!Init
    OBVIOUS
  <2>1. Fate = [r \in Request |-> "new"]
    BY DEF Init, Fate
  <2> QED BY <2>1 DEF Init, Life!Init
<1>2. TypeOK /\ OnePlace /\ [Next]_vars => [Life!Next]_<<Fate, created>>
  <2>1. TypeOK /\ OnePlace /\ Next => Life!Next
    BY LifeHandle, LifeRunQueue, LifeOthers DEF Next
  <2>2. UNCHANGED vars => UNCHANGED <<Fate, created>>
    BY DEF vars, Fate, Held, Pending
  <2> QED BY <2>1, <2>2
<1> QED BY <1>1, <1>2, TypeCorrect, OnePlaceOnly, PTL DEF Spec, ServedAtMostOnce, Life!Spec

\* While boxerd stays up no request is stuck: it is served, with a handler, in the queue or
\* in the runner's list, or its caller has been told that it failed or expired.
THEOREM NobodyIsStuck ==
  ASSUME "crash" \notin Faults
  PROVE  Spec => [](\A r \in asked : created[r] > 0 \/ Held(r) \/ r \in ended)
<1>1. Init => stuck = {}
  BY DEF Init
<1>2. stuck = {} /\ [Next]_vars => (stuck = {})'
  <2> SUFFICES ASSUME [Next]_vars
               PROVE  UNCHANGED stuck
    OBVIOUS
  <2>1. ASSUME NEW c \in Client, Ask(c)
        PROVE  UNCHANGED stuck
    BY <2>1 DEF Ask
  <2>2. ASSUME NEW a \in Actor, Handle(a)
        PROVE  UNCHANGED stuck
    BY <2>2 DEF Handle, CheckInstalls, CheckHost, CheckProject, Boot, Insert, InsertRaises,
    Enqueue
  <2>3. CASE RunQueue
    BY <2>3 DEF RunQueue, ListPending, PreCheckHost, PreCheckProject, MarkProcessing, MarkFinished
  <2>4. CASE ExpireOld
    BY <2>4 DEF ExpireOld
  <2>5. ASSUME NEW r \in Request, Environment(r)
        PROVE  UNCHANGED stuck
    BY <2>5 DEF Environment, Stop, Start, ScanSync, Adopt, GuestPowerOff, InstallEnd, Delete
  <2>6. ~Crash
    BY DEF Crash
  <2> QED BY <2>1, <2>2, <2>3, <2>4, <2>5, <2>6 DEF Next, vars
<1>3. NobodyForgotten /\ stuck = {} =>
        \A r \in asked : created[r] > 0 \/ Held(r) \/ r \in ended
  BY DEF NobodyForgotten
<1> QED BY NobodyIsForgotten, <1>1, <1>2, <1>3, PTL DEF Spec

=============================================================================
