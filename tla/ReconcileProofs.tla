--------------------------- MODULE ReconcileProofs ---------------------------
(***************************************************************************)
(* Proofs of the safety properties of Reconcile, for any numbers of        *)
(* domains, devices and calls.                                             *)
(***************************************************************************)
EXTENDS Reconcile, TLAPS

USE DEF data, report, At, Goto, Call, SetRow, FixPc, Pc

\* In the initial state there is nothing.
LEMMA TypeInit == Init => TypeOK
BY DEF Init, TypeOK, Own

\* The ids of rows are ids.
LEMMA IdType ==
  ASSUME TypeOK, NEW n \in Name
  PROVE  /\ row[n] # "none" => Id(n) \in ImportId \cup {"own"}
         /\ row[n] = "none" => Id(n) = "none"
BY IdAssumption DEF TypeOK, Id, Own

\* The calls that make and unmake VMs keep the types.
LEMMA TypeVM ==
  ASSUME TypeOK, NEW c \in Client,
         \/ \E n \in Name : Define(c, n) \/ Delete(c, n)
         \/ Insert(c) \/ Undefine(c) \/ DropRow(c)
  PROVE  TypeOK'
<1> USE DEF TypeOK, Own, Touch
<1>1. ASSUME NEW n \in Name, Define(c, n)
      PROVE  TypeOK'
  BY <1>1 DEF Define
<1>2. ASSUME NEW n \in Name, Delete(c, n)
      PROVE  TypeOK'
  BY <1>2, IdType DEF Delete
<1>3. CASE Insert(c)
  BY <1>3 DEF Insert, Return
<1>4. CASE Undefine(c)
  BY <1>4 DEF Undefine
<1>5. CASE DropRow(c)
  BY <1>5 DEF DropRow, Return
<1> QED BY <1>1, <1>2, <1>3, <1>4, <1>5

\* vm.import keeps the types.
LEMMA TypeImport ==
  ASSUME TypeOK, NEW c \in Client,
         (\E n \in Name : Import(c, n)) \/ ImportRow(c) \/ ImportInsert(c)
  PROVE  TypeOK'
<1> USE DEF TypeOK, Touch
<1>1. ASSUME NEW n \in Name, Import(c, n)
      PROVE  TypeOK'
  BY <1>1 DEF Import
<1>2. CASE ImportRow(c)
  BY <1>2 DEF ImportRow, Return
<1>3. CASE ImportInsert(c)
  <2>1. PICK i \in ImportId \ used :
          /\ used' = used \cup {i}
          /\ IF row[obj[c]] = "none" THEN SetRow(obj[c], i) ELSE UNCHANGED row
    BY <1>3 DEF ImportInsert
  <2>2. used' \subseteq ImportId /\ row' \in [Name -> Own \cup {"none"} \cup ImportId]
    BY <2>1
  <2> QED BY <1>3, <2>2 DEF ImportInsert, Return
<1> QED BY <1>1, <1>2, <1>3

\* A scan's report, or one by hand, has names that parse and the ids of rows.
LEMMA TypeReport ==
  ASSUME TypeOK, NEW c \in Client,
         ListDomains(c) \/ ListRows(c) \/ FixDone(c) \/ Leave(c) \/ (\E n \in Name : ByHand(c, n))
  PROVE  TypeOK'
<1> USE DEF TypeOK
<1>1. CASE ListDomains(c)
  <2>1. PICK S \in SUBSET Domain :
          /\ seen' = [seen EXCEPT ![c] = S] /\ doubt' = [doubt EXCEPT ![c] = Domain \ S]
    BY <1>1 DEF ListDomains
  <2>2. Domain \subseteq Name
    BY DEF Domain
  <2>3. seen' \in [Client -> SUBSET Name] /\ doubt' \in [Client -> SUBSET Name]
    BY <2>1, <2>2
  <2> QED BY <1>1, <2>3 DEF ListDomains
<1>2. CASE ListRows(c)
  <2>1. OrphansIn(seen[c]) \subseteq Vm \ Dashed
    BY DEF OrphansIn, Parses
  <2>2. GhostsIn(seen[c]) \subseteq Name \X (ImportId \cup {"own"})
    BY IdType DEF GhostsIn
  <2> QED BY <1>2, <2>1, <2>2 DEF ListRows
<1>3. CASE FixDone(c)
  BY <1>3 DEF FixDone
<1>4. CASE Leave(c)
  BY <1>4 DEF Leave, Return
<1>5. ASSUME NEW n \in Name, ByHand(c, n)
      PROVE  TypeOK'
  <2>1. orphans' \in [Client -> SUBSET (Vm \ Dashed)]
    BY <1>5 DEF ByHand, Parses
  <2>2. ghosts' \in [Client -> SUBSET (Name \X (ImportId \cup {"own"}))]
    BY <1>5, IdType DEF ByHand
  <2> QED BY <1>5, <2>1, <2>2 DEF ByHand
<1> QED BY <1>1, <1>2, <1>3, <1>4, <1>5

\* Working through the report keeps the types.
LEMMA TypeWork ==
  ASSUME TypeOK, NEW c \in Client,
         \/ \E n \in Name : Adopt(c, n)
         \/ AdoptRow(c) \/ AdoptInsert(c)
         \/ \E g \in ghosts[c] : Purge(c, g[1], g[2])
         \/ PurgeLook(c) \/ PurgeRow(c)
  PROVE  TypeOK'
<1> USE DEF TypeOK, Touch, NoAnswer
<1>1. ASSUME NEW n \in Name, Adopt(c, n)
      PROVE  TypeOK'
  <2>1. orphans' \in [Client -> SUBSET (Vm \ Dashed)]
    BY <1>1 DEF Adopt
  <2>2. CASE n \in there /\ Call(c, "adopt_row", n, "own") /\ Touch(c, n)
    BY <1>1, <2>1, <2>2 DEF Adopt
  <2>3. CASE UNCHANGED <<pc, obj, id>> /\ (NoAnswer(c, n) \/ UNCHANGED doubt)
    BY <1>1, <2>1, <2>3 DEF Adopt
  <2> QED BY <1>1, <2>2, <2>3 DEF Adopt
<1>2. CASE AdoptRow(c)
  BY <1>2 DEF AdoptRow, Return
<1>3. CASE AdoptInsert(c)
  BY <1>3 DEF AdoptInsert, Return, Own
<1>4. ASSUME NEW g \in ghosts[c], Purge(c, g[1], g[2])
      PROVE  TypeOK'
  <2>1. g[1] \in Name /\ g[2] \in ImportId \cup {"own"}
    OBVIOUS
  <2>2. ghosts' \in [Client -> SUBSET (Name \X (ImportId \cup {"own"}))]
    BY <1>4 DEF Purge
  <2>3. CASE Call(c, "purge_look", g[1], g[2]) /\ Touch(c, g[1])
    BY <1>4, <2>1, <2>2, <2>3 DEF Purge
  <2>4. CASE UNCHANGED <<pc, obj, id, doubt>>
    BY <1>4, <2>2, <2>4 DEF Purge
  <2> QED BY <1>4, <2>3, <2>4 DEF Purge
<1>5. CASE PurgeLook(c)
  BY <1>5 DEF PurgeLook, Return
<1>6. CASE PurgeRow(c)
  BY <1>6 DEF PurgeRow, Return
<1> QED BY <1>1, <1>2, <1>3, <1>4, <1>5, <1>6

\* What happens outside the calls keeps the types.
LEMMA TypeOutside ==
  ASSUME TypeOK, (\E n \in Name : Vanish(n) \/ Appear(n)) \/ Crash
  PROVE  TypeOK'
<1> USE DEF TypeOK, Doubtful
<1>1. ASSUME NEW n \in Name, Vanish(n)
      PROVE  TypeOK'
  BY <1>1 DEF Vanish
<1>2. ASSUME NEW n \in Name, Appear(n)
      PROVE  TypeOK'
  BY <1>2 DEF Appear
<1>3. CASE Crash
  <2>1. doubt' \in [Client -> SUBSET Name]
    BY <1>3 DEF Crash
  <2> QED BY <1>3, <2>1 DEF Crash
<1> QED BY <1>1, <1>2, <1>3

\* The state keeps its type: whatever the report, only names that parse are adopted.
THEOREM TypeCorrect == Spec => []TypeOK
<1>1. TypeOK /\ [Next]_vars => TypeOK'
  <2>1. ASSUME TypeOK, NEW c \in Client, Others(c) \/ Fix(c)
        PROVE  TypeOK'
    BY <2>1, TypeVM, TypeImport, TypeReport, TypeWork DEF Others, Fix
  <2>2. TypeOK /\ UNCHANGED vars => TypeOK'
    BY DEF TypeOK, vars
  <2> QED BY <2>1, <2>2, TypeOutside DEF Next
<1> QED BY TypeInit, <1>1, PTL DEF Spec

-----------------------------------------------------------------------------
(***************************************************************************)
(* No name is defined twice, so a VM that is gone stays gone.              *)
(***************************************************************************)
BornInv ==
  /\ there \cap Vm \subseteq born
  /\ \A n \in Vm : row[n] # "none" => n \in born
  /\ \A c \in Client : obj[c] \in Vm => obj[c] \in born
  /\ \A c \in Client : At(c, "purge_row") => obj[c] \notin Vm \cap there

\* A call that returns or changes no name, and takes no domain away from the others,
\* keeps the names born.
LEMMA BornQuiet ==
  ASSUME TypeOK, BornInv, NEW c \in Client,
         there' \subseteq there, born' = born,
         \A n \in Name : row'[n] # "none" => row[n] # "none" \/ n = obj[c],
         Return(c) \/ (\E p \in Pc \ {"purge_row"} : Goto(c, p)) \/ UNCHANGED <<pc, obj, id>>
  PROVE  BornInv'
<1> USE NameAssumption DEF TypeOK, BornInv, Name
<1>1. there' \cap Vm \subseteq born'
  OBVIOUS
<1>2. \A n \in Vm : row'[n] # "none" => n \in born'
  OBVIOUS
<1>3. CASE Return(c)
  BY <1>1, <1>2, <1>3 DEF Return
<1>4. ASSUME NEW p \in Pc \ {"purge_row"}, Goto(c, p)
      PROVE  BornInv'
  BY <1>1, <1>2, <1>4
<1>5. CASE UNCHANGED <<pc, obj, id>>
  BY <1>1, <1>2, <1>5
<1> QED BY <1>3, <1>4, <1>5

\* A call that turns to a name that was born, and changes nothing else, as well.
LEMMA BornCall ==
  ASSUME TypeOK, BornInv, NEW c \in Client, NEW n \in Name, n \in Vm => n \in born,
         NEW p \in Pc \ {"purge_row"}, NEW i, Call(c, p, n, i), UNCHANGED data
  PROVE  BornInv'
BY DEF TypeOK, BornInv

\* Calls keep the names born.
LEMMA BornStep ==
  ASSUME TypeOK, BornInv, NEW c \in Client, Others(c) \/ Fix(c)
  PROVE  BornInv'
<1>1. ASSUME NEW n \in Name, Define(c, n)
      PROVE  BornInv'
  BY <1>1 DEF TypeOK, BornInv, Define
<1>2. ASSUME NEW n \in Name, Delete(c, n) \/ Import(c, n)
      PROVE  BornInv'
  <2>1. n \in Vm => n \in born
    BY <1>2 DEF BornInv, Delete, Import, Domain
  <2>2. UNCHANGED data /\ (Call(c, "undefine", n, Id(n)) \/ Call(c, "import_row", n, "none"))
    BY <1>2 DEF Delete, Import
  <2> HIDE DEF Call, data
  <2> QED BY <2>1, <2>2, BornCall
<1>3. CASE Insert(c) \/ AdoptInsert(c) \/ DropRow(c) \/ PurgeRow(c)
  BY <1>3, BornQuiet DEF TypeOK, Insert, AdoptInsert, DropRow, PurgeRow
<1>4. CASE Undefine(c)
  BY <1>4, BornQuiet DEF Undefine
<1>5. CASE ImportRow(c) \/ AdoptRow(c)
  BY <1>5, BornQuiet DEF ImportRow, AdoptRow
<1>6. CASE ImportInsert(c)
  <2>1. PICK i : IF row[obj[c]] = "none" THEN SetRow(obj[c], i) ELSE UNCHANGED row
    BY <1>6 DEF ImportInsert
  <2>2. \A n \in Name : row'[n] # "none" => row[n] # "none" \/ n = obj[c]
    BY <2>1 DEF TypeOK
  <2> QED BY <1>6, <2>2, BornQuiet DEF ImportInsert
<1>7. CASE ListDomains(c) \/ ListRows(c) \/ FixDone(c) \/ Leave(c) \/ (\E n \in Name : ByHand(c, n))
  BY <1>7, BornQuiet DEF ListDomains, ListRows, FixDone, Leave, ByHand
<1>8. ASSUME NEW n \in Name, Adopt(c, n)
      PROVE  BornInv'
  <2>1. CASE n \in there /\ Call(c, "adopt_row", n, "own")
    BY <1>8, <2>1, BornCall DEF Adopt, BornInv
  <2>2. CASE UNCHANGED <<pc, obj, id>>
    BY <1>8, <2>2, BornQuiet DEF Adopt
  <2> QED BY <1>8, <2>1, <2>2 DEF Adopt
<1>9. ASSUME NEW g \in ghosts[c], Purge(c, g[1], g[2])
      PROVE  BornInv'
  <2>1. g[1] \in Name /\ g[2] \in ImportId \cup {"own"}
    BY DEF TypeOK
  <2>2. CASE Id(g[1]) = g[2] /\ Call(c, "purge_look", g[1], g[2])
    <3>1. row[g[1]] # "none"
      BY <2>1, <2>2, IdType, IdAssumption
    <3> QED BY <1>9, <2>1, <2>2, <3>1, BornCall DEF Purge, BornInv
  <2>3. CASE UNCHANGED <<pc, obj, id>>
    BY <1>9, <2>3, BornQuiet DEF Purge
  <2> QED BY <1>9, <2>2, <2>3 DEF Purge
<1>10. CASE PurgeLook(c)
  <2>1. CASE Return(c) \/ Goto(c, "purge_blind")
    BY <1>10, <2>1, BornQuiet DEF PurgeLook
  <2>2. CASE obj[c] \notin Domain /\ Goto(c, "purge_row")
    <3>1. obj[c] \notin Vm \cap there
      BY <2>2, NameAssumption DEF Domain
    <3> QED BY <1>10, <2>2, <3>1 DEF PurgeLook, BornInv, TypeOK
  <2> QED BY <1>10, <2>1, <2>2 DEF PurgeLook
<1> QED BY <1>1, <1>2, <1>3, <1>4, <1>5, <1>6, <1>7, <1>8, <1>9, <1>10 DEF Others, Fix

\* So does the outside world, which defines no VM.
LEMMA BornOutside ==
  ASSUME TypeOK, BornInv, (\E n \in Name : Vanish(n) \/ Appear(n)) \/ Crash
  PROVE  BornInv'
<1> USE NameAssumption DEF TypeOK, BornInv, Name
<1>1. ASSUME NEW n \in Name, Vanish(n) \/ Appear(n)
      PROVE  BornInv'
  BY <1>1 DEF Vanish, Appear
<1>2. CASE Crash
  BY <1>2 DEF Crash
<1> QED BY <1>1, <1>2

\* Names are born once.
LEMMA BornCorrect == Spec => []BornInv
<1>1. Init => BornInv
  BY NameAssumption DEF Init, BornInv, Name
<1>2. TypeOK /\ BornInv /\ [Next]_vars => BornInv'
  <2>1. BornInv /\ UNCHANGED vars => BornInv'
    BY DEF BornInv, vars
  <2> QED BY <2>1, BornStep, BornOutside DEF Next
<1> QED BY <1>1, <1>2, TypeCorrect, PTL DEF Spec

\* Whatever is created, deleted and adopted while vm.purge_ghost looks, the row it
\* then deletes is not that of a VM that is there, unless libvirt did not answer.
THEOREM PurgesOnlyGhosts == Spec => []OnlyGhostsPurged
<1>1. BornInv => OnlyGhostsPurged
  BY DEF BornInv, OnlyGhostsPurged
<1> QED BY <1>1, BornCorrect, PTL

-----------------------------------------------------------------------------
(***************************************************************************)
(* What reconcile --fix has left to do is in its report or in hand.        *)
(***************************************************************************)
Adopting(c, n) == pc[c] \in {"adopt_row", "adopt_insert"} /\ obj[c] = n

Purging(c, n) == pc[c] \in {"purge_look", "purge_row"} /\ obj[c] = n /\ id[c] = Id(n)

\* of a name that nobody else touched
Settling(c, n) ==
  /\ At(c, "scan_rows") => (n \in seen[c] <=> n \in there)
  /\ Adopting(c, n) => n \in there
  /\ At(c, "purge_row") /\ obj[c] = n => n \notin there
  /\ ~(At(c, "purge_blind") /\ obj[c] = n)
  /\ ~At(c, "scan_rows") =>
       /\ Parses(n) /\ n \in there /\ row[n] = "none" => n \in orphans[c] \/ Adopting(c, n)
       /\ n \in Mine /\ row[n] # "none" /\ n \notin there =>
            <<n, Id(n)>> \in ghosts[c] \/ Purging(c, n)

FixInv(c) ==
  /\ At(c, "fixed") => orphans[c] = {} /\ ghosts[c] = {}
  /\ pc[c] \in FixPc => \A n \in (Vm \cup Foreign) \ doubt[c] : Settling(c, n)

\* what the steps of others leave to c
Kept(c) ==
  /\ pc'[c] = pc[c] /\ obj'[c] = obj[c] /\ id'[c] = id[c]
  /\ seen'[c] = seen[c] /\ orphans'[c] = orphans[c] /\ ghosts'[c] = ghosts[c]
  /\ pc[c] \in FixPc =>
       /\ doubt[c] \subseteq doubt'[c]
       /\ \A n \in Name \ doubt'[c] : (n \in there' <=> n \in there) /\ row'[n] = row[n]

\* What is kept keeps the invariant.
LEMMA KeptFix ==
  ASSUME NEW c \in Client, FixInv(c), Kept(c)
  PROVE  FixInv(c)'
<1>1. ASSUME pc[c] \in FixPc, NEW n \in (Vm \cup Foreign) \ doubt'[c]
      PROVE  Settling(c, n)'
  <2>1. Settling(c, n) /\ (n \in there' <=> n \in there) /\ row'[n] = row[n]
    BY <1>1 DEF FixInv, Kept, Name
  <2>2. Id(n)' = Id(n)
    BY <2>1 DEF Id
  <2>3. (Adopting(c, n)' <=> Adopting(c, n)) /\ (Purging(c, n)' <=> Purging(c, n))
    BY <2>2 DEF Adopting, Purging, Kept
  <2> QED BY <2>1, <2>2, <2>3 DEF Settling, Kept, Parses
<1> QED BY <1>1 DEF FixInv, Kept

\* The calls of another that make, unmake or import a VM leave c what it has,
\* or put the name in doubt.
LEMMA OthersKeep ==
  ASSUME TypeOK, NEW b \in Client, NEW c \in Client, b # c, Others(b)
  PROVE  Kept(c)
<1> USE DEF TypeOK, Kept, Touch, Return
<1>1. ASSUME NEW n \in Name, Define(b, n) \/ Delete(b, n) \/ Import(b, n)
      PROVE  Kept(c)
  BY <1>1 DEF Define, Delete, Import
<1>2. CASE Insert(b) \/ DropRow(b)
  BY <1>2 DEF Insert, DropRow
<1>3. CASE Undefine(b)
  BY <1>3 DEF Undefine
<1>4. CASE ImportRow(b)
  BY <1>4 DEF ImportRow
<1>5. CASE ImportInsert(b)
  <2>1. PICK i : IF row[obj[b]] = "none" THEN SetRow(obj[b], i) ELSE UNCHANGED row
    BY <1>5 DEF ImportInsert
  <2>2. \A n \in Name \ {obj[b]} : row'[n] = row[n]
    BY <2>1
  <2> QED BY <1>5, <2>2 DEF ImportInsert
<1> QED BY <1>1, <1>2, <1>3, <1>4, <1>5 DEF Others

\* So do the calls of another that scans or works through a report.
LEMMA FixesKeep ==
  ASSUME TypeOK, NEW b \in Client, NEW c \in Client, b # c, Fix(b)
  PROVE  Kept(c)
<1> USE DEF TypeOK, Kept, Touch, Return, NoAnswer
<1>1. CASE ListDomains(b)
  <2>1. doubt'[c] = doubt[c] /\ seen'[c] = seen[c]
    BY <1>1 DEF ListDomains
  <2> QED BY <1>1, <2>1 DEF ListDomains
<1>2. CASE ListRows(b) \/ FixDone(b) \/ Leave(b)
  BY <1>2 DEF ListRows, FixDone, Leave
<1>3. ASSUME NEW n \in Name, ByHand(b, n)
      PROVE  Kept(c)
  BY <1>3 DEF ByHand
<1>4. ASSUME NEW n \in Name, Adopt(b, n)
      PROVE  Kept(c)
  BY <1>4 DEF Adopt
<1>5. CASE AdoptRow(b) \/ PurgeLook(b)
  BY <1>5 DEF AdoptRow, PurgeLook
<1>6. CASE AdoptInsert(b) \/ PurgeRow(b)
  BY <1>6 DEF AdoptInsert, PurgeRow
<1>7. ASSUME NEW g \in ghosts[b], Purge(b, g[1], g[2])
      PROVE  Kept(c)
  BY <1>7 DEF Purge
<1> QED BY <1>1, <1>2, <1>3, <1>4, <1>5, <1>6, <1>7 DEF Fix

\* What happens outside touches one name, which is then in doubt.
LEMMA OutsideKeeps ==
  ASSUME TypeOK, NEW c \in Client, \E n \in Name : Vanish(n) \/ Appear(n)
  PROVE  Kept(c)
BY DEF TypeOK, Kept, Doubtful, Vanish, Appear

\* A call that makes, unmakes or imports a VM has no report.
LEMMA OthersFix ==
  ASSUME TypeOK, NEW c \in Client, Others(c)
  PROVE  FixInv(c)'
<1>1. pc'[c] \notin FixPc
  BY DEF TypeOK, Others, Define, Insert, Delete, Undefine, DropRow, Import, ImportRow, ImportInsert,
         Return
<1> QED BY <1>1 DEF FixInv

\* Making up a report leaves no name out.
LEMMA ReportFix ==
  ASSUME TypeOK, NEW c \in Client, FixInv(c),
         ListDomains(c) \/ ListRows(c) \/ FixDone(c) \/ Leave(c) \/ (\E n \in Name : ByHand(c, n))
  PROVE  FixInv(c)'
<1> USE NameAssumption DEF TypeOK
<1>1. CASE ListDomains(c)
  <2>1. PICK S \in SUBSET Domain :
          /\ seen' = [seen EXCEPT ![c] = S] /\ doubt' = [doubt EXCEPT ![c] = Domain \ S]
    BY <1>1 DEF ListDomains
  <2>2. \A n \in (Vm \cup Foreign) \ doubt'[c] : n \in seen'[c] <=> n \in there'
    BY <1>1, <2>1 DEF ListDomains, Domain
  <2> QED BY <1>1, <2>2 DEF ListDomains, FixInv, Settling, Adopting, Purging
<1>2. CASE ListRows(c)
  <2> SUFFICES ASSUME NEW n \in (Vm \cup Foreign) \ doubt'[c]
               PROVE  Settling(c, n)'
    BY <1>2 DEF ListRows, FixInv
  <2>1. n \in Name /\ (n \in seen[c] <=> n \in there) /\ pc'[c] = "fix" /\ Id(n)' = Id(n)
    BY <1>2 DEF ListRows, FixInv, Settling, Name, Id
  <2>2. Parses(n) /\ n \in there /\ row[n] = "none" => n \in orphans'[c]
    BY <1>2, <2>1 DEF ListRows, OrphansIn
  <2>3. row[n] # "none" /\ n \notin there => <<n, Id(n)>> \in ghosts'[c]
    BY <1>2, <2>1 DEF ListRows, GhostsIn
  <2> QED BY <1>2, <2>1, <2>2, <2>3 DEF ListRows, Settling, Adopting, Purging, Parses
<1>3. CASE FixDone(c)
  BY <1>3 DEF FixDone, FixInv, Settling, Adopting, Purging, Parses, Id
<1>4. CASE Leave(c)
  BY <1>4 DEF Leave, Return, FixInv
<1>5. ASSUME NEW n \in Name, ByHand(c, n)
      PROVE  FixInv(c)'
  BY <1>5 DEF ByHand, FixInv, Name
<1> QED BY <1>1, <1>2, <1>3, <1>4, <1>5

\* An orphan leaves the report when it is taken up, and is in hand until it has a row.
LEMMA AdoptFix ==
  ASSUME TypeOK, NEW c \in Client, FixInv(c),
         (\E n \in Name : Adopt(c, n)) \/ AdoptRow(c) \/ AdoptInsert(c)
  PROVE  FixInv(c)'
<1> USE DEF TypeOK, Touch
<1>1. pc[c] \in FixPc /\ pc'[c] \in FixPc \ {"fixed", "scan_rows"} /\ doubt'[c] \in SUBSET Name
      /\ doubt[c] \subseteq doubt'[c]
  BY DEF Adopt, AdoptRow, AdoptInsert, Return, NoAnswer
<1> SUFFICES ASSUME NEW n \in (Vm \cup Foreign) \ doubt'[c]
             PROVE  Settling(c, n)'
  BY <1>1 DEF FixInv
<1>2. n \in Name /\ Settling(c, n)
  BY <1>1 DEF FixInv, Name
<1>3. ASSUME NEW m \in Name, Adopt(c, m)
      PROVE  Settling(c, n)'
  <2>1. Id(n)' = Id(n)
    BY <1>3 DEF Adopt, Id
  <2>2. CASE m \in there /\ Call(c, "adopt_row", m, "own")
    BY <1>2, <1>3, <2>1, <2>2 DEF Adopt, Settling, Adopting, Purging, Parses
  <2>3. CASE m \notin there /\ UNCHANGED <<pc, obj, id>>
    BY <1>2, <1>3, <2>1, <2>3 DEF Adopt, Settling, Adopting, Purging, Parses
  <2>4. CASE NoAnswer(c, m) /\ UNCHANGED <<pc, obj, id>>
    <3>1. n # m
      BY <2>4 DEF NoAnswer
    <3> QED BY <1>2, <1>3, <2>1, <2>4, <3>1 DEF Adopt, Settling, Adopting, Purging, Parses
  <2> QED BY <1>3, <2>2, <2>3, <2>4 DEF Adopt
<1>4. CASE AdoptRow(c)
  <2>1. Id(n)' = Id(n) /\ UNCHANGED <<there, row, orphans, ghosts>>
    BY <1>4 DEF AdoptRow, Id
  <2>2. CASE row[obj[c]] \in Own /\ Return(c)
    BY <1>2, <1>4, <2>1, <2>2 DEF AdoptRow, Return, Settling, Adopting, Purging, Parses, Own
  <2>3. CASE Goto(c, "adopt_insert")
    BY <1>2, <1>4, <2>1, <2>3 DEF AdoptRow, Settling, Adopting, Purging, Parses
  <2> QED BY <1>4, <2>2, <2>3 DEF AdoptRow
<1>5. CASE AdoptInsert(c)
  <2>1. pc'[c] = "fix" /\ UNCHANGED <<there, orphans, ghosts>>
    BY <1>5 DEF AdoptInsert, Return
  <2>2. CASE n = obj[c]
    <3>1. n \in there /\ row'[n] # "none"
      BY <1>2, <1>5, <2>2 DEF AdoptInsert, Settling, Adopting
    <3> QED BY <2>1, <3>1 DEF Settling, Adopting, Purging
  <2>3. CASE n # obj[c]
    <3>1. row'[n] = row[n] /\ Id(n)' = Id(n)
      BY <1>2, <1>5, <2>3 DEF AdoptInsert, Id
    <3> QED BY <1>2, <1>5, <2>1, <2>3, <3>1 DEF AdoptInsert, Settling, Adopting, Purging, Parses
  <2> QED BY <2>2, <2>3
<1> QED BY <1>3, <1>4, <1>5

\* A ghost leaves the report when it is taken up, and is in hand until its row is gone.
LEMMA PurgeFix ==
  ASSUME TypeOK, NEW c \in Client, FixInv(c),
         (\E g \in ghosts[c] : Purge(c, g[1], g[2])) \/ PurgeLook(c) \/ PurgeRow(c)
  PROVE  FixInv(c)'
<1> USE DEF TypeOK, Touch
<1>1. pc[c] \in FixPc /\ pc'[c] \in FixPc \ {"fixed", "scan_rows"} /\ doubt[c] \subseteq doubt'[c]
  <2>1. ASSUME NEW g \in ghosts[c], Purge(c, g[1], g[2])
        PROVE  pc[c] \in FixPc /\ pc'[c] \in FixPc \ {"fixed", "scan_rows"} /\ doubt[c] \subseteq doubt'[c]
    BY <2>1 DEF Purge
  <2>2. CASE PurgeLook(c)
    BY <2>2 DEF PurgeLook, Return, NoAnswer
  <2>3. CASE PurgeRow(c)
    BY <2>3 DEF PurgeRow, Return
  <2> QED BY <2>1, <2>2, <2>3
<1> SUFFICES ASSUME NEW n \in (Vm \cup Foreign) \ doubt'[c]
             PROVE  Settling(c, n)'
  BY <1>1 DEF FixInv
<1>2. n \in Name /\ Settling(c, n)
  BY <1>1 DEF FixInv, Name
<1>3. ASSUME NEW g \in ghosts[c], Purge(c, g[1], g[2])
      PROVE  Settling(c, n)'
  <2>1. Id(n)' = Id(n) /\ UNCHANGED <<there, row, orphans>> /\ At(c, "fix")
    BY <1>3 DEF Purge, Id
  <2>2. \A x \in ghosts[c] : x # g => x \in ghosts'[c]
    BY <1>3 DEF Purge
  <2>3. g = <<g[1], g[2]>>
    OBVIOUS
  <2>4. CASE Id(g[1]) = g[2] /\ Call(c, "purge_look", g[1], g[2])
    BY <1>2, <2>1, <2>2, <2>3, <2>4 DEF Settling, Adopting, Purging, Parses
  <2>5. CASE ~(Id(g[1]) = g[2] /\ g[1] \in Mine) /\ UNCHANGED <<pc, obj, id>>
    BY <1>2, <2>1, <2>2, <2>3, <2>5 DEF Settling, Adopting, Purging, Parses
  <2> QED BY <1>3, <2>4, <2>5 DEF Purge
<1>4. CASE PurgeLook(c)
  <2>1. Id(n)' = Id(n) /\ UNCHANGED <<there, row, orphans, ghosts>> /\ At(c, "purge_look")
    BY <1>4 DEF PurgeLook, Id
  <2>2. CASE obj[c] \in Domain /\ Return(c)
    <3>1. obj[c] \in there /\ pc'[c] = "fix"
      BY <2>1, <2>2 DEF Domain, Return
    <3> QED BY <1>2, <2>1, <3>1 DEF Settling, Adopting, Purging, Parses
  <2>3. CASE obj[c] \notin Domain /\ Goto(c, "purge_row")
    <3>1. obj[c] = n => n \notin there
      BY <2>3, NameAssumption DEF Domain
    <3> QED BY <1>2, <2>1, <2>3, <3>1 DEF Settling, Adopting, Purging, Parses
  <2>4. CASE NoAnswer(c, obj[c]) /\ Goto(c, "purge_blind")
    <3>1. n # obj[c]
      BY <2>4, <2>1 DEF NoAnswer
    <3> QED BY <1>2, <2>1, <2>4, <3>1 DEF Settling, Adopting, Purging, Parses
  <2> QED BY <1>4, <2>2, <2>3, <2>4 DEF PurgeLook
<1>5. CASE PurgeRow(c)
  <2>1. pc'[c] = "fix" /\ UNCHANGED <<there, orphans, ghosts>> /\ pc[c] \in {"purge_row", "purge_blind"}
    BY <1>5 DEF PurgeRow, Return
  <2>2. CASE n = obj[c]
    <3>1. n \notin there
      BY <1>2, <2>1, <2>2 DEF Settling
    <3>2. CASE Id(n) = id[c]
      BY <1>2, <1>5, <2>1, <2>2, <3>1, <3>2 DEF PurgeRow, Settling, Adopting, Purging
    <3>3. CASE Id(n) # id[c]
      <4>1. row' = row /\ Id(n)' = Id(n)
        BY <1>5, <2>2, <3>3 DEF PurgeRow, Id
      <4> QED BY <1>2, <2>1, <3>1, <3>3, <4>1 DEF Settling, Adopting, Purging
    <3> QED BY <3>2, <3>3
  <2>3. CASE n # obj[c]
    <3>1. row'[n] = row[n] /\ Id(n)' = Id(n)
      BY <1>2, <1>5, <2>3 DEF PurgeRow, Id
    <3> QED BY <1>2, <2>1, <2>3, <3>1 DEF Settling, Adopting, Purging, Parses
  <2> QED BY <2>2, <2>3
<1> QED BY <1>3, <1>4, <1>5

\* A restart leaves the report, and puts the name in hand in doubt.
LEMMA CrashFix ==
  ASSUME TypeOK, NEW c \in Client, FixInv(c), Crash
  PROVE  FixInv(c)'
<1>1. CASE pc[c] \notin FixPc \ {"scan_rows", "fixed"}
  BY <1>1 DEF Crash, FixInv, TypeOK
<1>2. CASE pc[c] \in FixPc \ {"scan_rows", "fixed"}
  <2> SUFFICES ASSUME NEW n \in (Vm \cup Foreign) \ doubt'[c]
               PROVE  Settling(c, n)'
    BY <1>2 DEF Crash, FixInv, TypeOK
  <2>1. Settling(c, n) /\ n # obj[c]
    BY <1>2, NameAssumption DEF Crash, FixInv, Name
  <2>2. Id(n)' = Id(n) /\ UNCHANGED <<there, row, orphans, ghosts>> /\ pc'[c] = "fix"
    BY <1>2 DEF Crash, Id
  <2> QED BY <1>2, <2>1, <2>2 DEF Settling, Adopting, Purging, Parses
<1> QED BY <1>1, <1>2

\* Every report accounts for every name that is not in doubt.
LEMMA FixCorrect == Spec => [](\A c \in Client : FixInv(c))
<1> DEFINE All == \A c \in Client : FixInv(c)
<1>1. Init => All
  BY DEF Init, FixInv
<1>2. TypeOK /\ All /\ [Next]_vars => All'
  <2> SUFFICES ASSUME TypeOK, All, [Next]_vars, NEW c \in Client
               PROVE  FixInv(c)'
    OBVIOUS
  <2>1. CASE Others(c) \/ Fix(c)
    BY <2>1, OthersFix, ReportFix, AdoptFix, PurgeFix DEF Fix
  <2>2. ASSUME NEW b \in Client, b # c, Others(b) \/ Fix(b)
        PROVE  FixInv(c)'
    BY <2>2, OthersKeep, FixesKeep, KeptFix
  <2>3. CASE \E n \in Name : Vanish(n) \/ Appear(n)
    BY <2>3, OutsideKeeps, KeptFix
  <2>4. CASE Crash
    BY <2>4, CrashFix
  <2>5. CASE UNCHANGED vars
    BY <2>5, KeptFix DEF vars, Kept
  <2> QED BY <2>1, <2>2, <2>3, <2>4, <2>5 DEF Next
<1> QED BY <1>1, <1>2, TypeCorrect, PTL DEF Spec

\* When reconcile --fix is through, no orphan and no ghost of the caller's is left
\* but those that others touched meanwhile or libvirt did not answer for.
THEOREM FixReconciles == Spec => []Reconciled
<1>1. (\A c \in Client : FixInv(c)) => Reconciled
  BY DEF FixInv, Settling, Adopting, Purging, Reconciled
<1> QED BY <1>1, FixCorrect, PTL

=============================================================================
