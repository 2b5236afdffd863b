-------------------------- MODULE SyncProjectProofs --------------------------
(***************************************************************************)
(* The safety properties of SyncProject hold for every set of types, files *)
(* and scan orders and every bound.  The inductive invariant is SyncInv:   *)
(* what a run has in hand at each point of sync.                           *)
(***************************************************************************)
EXTENDS SyncProject, WellFoundedInduction, TLAPS

-----------------------------------------------------------------------------
(* Scanning *)

LEMMA FirstIsLeast ==
    ASSUME NEW S \in SUBSET Nat, NEW k \in S
    PROVE  First(S) \in S /\ First(S) <= k
  <1>1. \E i \in S : \A j \in S : i <= j
    <2> DEFINE R == {ss \in Nat \X Nat : ss[1] < ss[2]}
    <2>1. IsWellFoundedOn(R, Nat)
      BY NatLessThanWellFounded, Zenon DEF OpToRel
    <2> HIDE DEF R
    <2>2. PICK i \in S : \A j \in S : <<j, i>> \notin R
      BY <2>1, WFMin
    <2>3. ASSUME NEW j \in S PROVE i <= j
      <3>1. i \in Nat /\ j \in Nat /\ <<j, i>> \in Nat \X Nat
        OBVIOUS
      <3>2. ~ (<<j, i>>[1] < <<j, i>>[2])
        BY <2>2, <3>1, Zenon DEF R
      <3> QED
        BY <3>1, <3>2
    <2> QED
      BY <2>3
  <1> QED
    BY <1>1 DEF First

LEMMA FirstIsMember ==
    ASSUME NEW S \in SUBSET Nat, S # {}
    PROVE  First(S) \in S
  BY FirstIsLeast

\* What a scan returns is a description of an API.
LEMMA ScanIsDoc ==
    ASSUME disk \in [Files -> File], NEW o \in ScanOrders
    PROVE  ScanOf(o) \in Doc
  <1>1. o \in Seq(Files) /\ DOMAIN o \subseteq Nat /\ \A i \in DOMAIN o : o[i] \in Files
    BY ScanOrdersAssumption
  <1>2. ASSUME NEW n \in TypeNames
        PROVE  ScannedType(o, n) \in Content \union {Absent}
    <2>1. CASE Declaring(o, n) = {}
      BY <2>1 DEF ScannedType
    <2>2. CASE Declaring(o, n) # {}
      <3>1. First(Declaring(o, n)) \in DOMAIN o
        BY <1>1, <2>2, FirstIsMember DEF Declaring
      <3> QED
        BY <1>1, <2>2, <3>1 DEF ScannedType, File, Types
    <2> QED
      BY <2>1, <2>2
  <1>3. UNION {disk[f].ops : f \in Files} \in SUBSET Ops
    BY DEF File
  <1> QED
    BY <1>2, <1>3, ConstantsAssumption DEF ScanOf, Doc, Types

\* A scan finds every type that a file of the directory declares.
LEMMA ScanFindsCode ==
    ASSUME disk \in [Files -> File], NEW o \in ScanOrders
    PROVE  CodeTypes \subseteq Declared(ScanOf(o).types)
  <1> SUFFICES ASSUME NEW n \in TypeNames, NEW f \in CodeFiles, disk[f].types[n] # Absent
               PROVE  ScannedType(o, n) # Absent
    BY DEF CodeTypes, Declared, ScanOf
  <1>1. PICK i \in DOMAIN o : o[i] = f
    BY ScanOrdersAssumption DEF Files
  <1>2. i \in Declaring(o, n)
    BY <1>1 DEF Declaring
  <1>3. Declaring(o, n) \in SUBSET Nat
    <2>1. o \in Seq(Files)
      BY ScanOrdersAssumption
    <2>2. DOMAIN o \in SUBSET Nat
      BY <2>1
    <2> QED
      BY <2>2 DEF Declaring
  <1>4. First(Declaring(o, n)) \in Declaring(o, n)
    BY <1>2, <1>3, FirstIsMember
  <1> QED
    BY <1>2, <1>4 DEF ScannedType, Declaring

-----------------------------------------------------------------------------
(* Generating *)

LEMMA EmptyFileIsFile == EmptyFile \in File
  BY DEF EmptyFile, NoTypes, File, Types

LEMMA EmptyDocIsDoc == EmptyDoc \in Doc
  BY ConstantsAssumption DEF EmptyDoc, NoTypes, Doc, Types

LEMMA RereadIsContent ==
    ASSUME NEW n, NEW c \in Content
    PROVE  Reread(n, c) \in Content
  <1> DEFINE w == IF (n \in BackRefs \/ c.wraps > 0) /\ c.wraps < MaxWraps
                  THEN c.wraps + 1 ELSE c.wraps
  <1>1. c.wraps \in 0..MaxWraps /\ w \in 0..MaxWraps
    BY ConstantsAssumption DEF Content
  <1>2. Reread(n, c) = [c EXCEPT !.rich = FALSE, !.wraps = w]
    BY DEF Reread
  <1> QED
    BY <1>1, <1>2 DEF Content

\* What is generated from a document is a C++ file.
LEMMA TextIsFile ==
    ASSUME NEW f \in Generated, NEW d \in Doc
    PROVE  GeneratedText(f, d) \in File
  <1>1. TextTypes(f, d) \in Types
    <2>1. HelperContent \in Content
      BY ConstantsAssumption DEF HelperContent, Content
    <2>2. \A n \in TypeNames : d.types[n] # Absent => Reread(n, d.types[n]) \in Content
      BY RereadIsContent DEF Doc, Types
    <2> QED
      BY <2>1, <2>2 DEF TextTypes, Types
  <1>2. TextOps(f, d) \in SUBSET Ops
    BY ConstantsAssumption DEF TextOps, Doc
  <1> QED
    BY <1>1, <1>2 DEF GeneratedText, File

\* So is what is left of a text that was cut off.
LEMMA PartIsFile ==
    ASSUME NEW text \in File, NEW part \in PartsOf(text)
    PROVE  part \in File
  <1>1. PICK T \in SUBSET TypeNames, O \in SUBSET text.ops :
           part = [types |-> [n \in TypeNames |-> IF n \in T THEN text.types[n] ELSE Absent],
                   ops   |-> O,
                   hand  |-> FALSE]
    BY DEF PartsOf
  <1>2. [n \in TypeNames |-> IF n \in T THEN text.types[n] ELSE Absent] \in Types
    BY DEF File, Types
  <1>3. O \in SUBSET Ops
    BY DEF File
  <1> QED
    BY <1>1, <1>2, <1>3 DEF File

-----------------------------------------------------------------------------
(* Merging *)

LEMMA MergeIsDoc ==
    ASSUME NEW t, NEW s \in Doc, NEW r \in Stored
    PROVE  Merge(t, s, r) \in Doc
  BY DEF Merge, WithMissing, Doc, Stored, Types

\* Under every truth, the types of the code end up in the merged document.
LEMMA MergeKeepsCode ==
    ASSUME NEW t, NEW s \in Doc, NEW r \in Stored
    PROVE  Declared(s.types) \subseteq Declared(Merge(t, s, r).types)
  BY DEF Merge, WithMissing, Doc, Stored, Types, Declared

\* A document that was read keeps its info; under --truth spec it keeps all.
LEMMA MergeKeepsDocument ==
    ASSUME NEW t, NEW s \in Doc, NEW r \in Doc
    PROVE  /\ Merge(t, s, r).info = r.info
           /\ t = "spec" =>
                /\ Merge(t, s, r).ops = r.ops
                /\ \A n \in Declared(r.types) : Merge(t, s, r).types[n] = r.types[n]
  <1>1. r \notin {Absent, Garbage}
    BY ConstantsAssumption
  <1> QED
    BY <1>1 DEF Merge, WithMissing, Doc, Types, Declared

-----------------------------------------------------------------------------
(* The invariant *)

LEMMA SyncInvInit == Init => SyncInv
  <1> SUFFICES ASSUME Init PROVE SyncInv
    OBVIOUS
  <1>1. EmptyDoc \in Doc /\ EmptyFile \in File
    BY EmptyDocIsDoc, EmptyFileIsFile
  <1>2. /\ spec \in Stored /\ before \in Stored /\ read \in Stored
        /\ scanned \in Doc /\ merged \in Doc
    BY <1>1 DEF Init, Stored
  <1>3. disk \in [Files -> File]
    BY <1>1 DEF Init
  <1>4. next \in 0..Len(WriteOrder)
    BY DEF Init, WriteOrder
  <1>5. calm \in 0..syncs /\ syncs \in 0..MaxSyncs /\ edits \in 0..MaxEdits
        /\ faults \in 0..MaxFaults
    BY ConstantsAssumption DEF Init
  <1>6. TypeOK
    BY <1>2, <1>3, <1>4, <1>5 DEF Init, TypeOK, Truths
  <1> QED
    BY <1>6 DEF Init, SyncInv, Decided, Running

LEMMA WrittenIsContent ==
    ASSUME NEW b \in BOOLEAN
    PROVE  [shape : Shapes, rich : {b}, wraps : {0}] \subseteq Content
  <1>1. 0 \in 0..MaxWraps
    BY ConstantsAssumption
  <1> QED
    BY <1>1, Zenon DEF Content

LEMMA SyncInvStep == SyncInv /\ [Next]_vars => SyncInv'
  <1> SUFFICES ASSUME SyncInv, [Next]_vars
               PROVE  SyncInv'
    OBVIOUS
  <1> USE ConstantsAssumption
  <1>0. TypeOK
    BY DEF SyncInv
  <1>1. ASSUME NEW t \in Truths, Start(t)
        PROVE  SyncInv'
    <2>1. next' \in 0..Len(WriteOrder)
      BY <1>1 DEF Start, WriteOrder
    <2>2. calm' \in 0..syncs' /\ syncs' \in 0..MaxSyncs
      BY <1>0, <1>1 DEF Start, TypeOK
    <2>3. TypeOK'
      BY <1>0, <1>1, <2>1, <2>2 DEF Start, TypeOK, Truths
    <2> QED
      BY <1>0, <1>1, <2>3 DEF Start, SyncInv, Decided, Running, TypeOK
  <1>2. ASSUME NEW o \in ScanOrders, Scan(o)
        PROVE  SyncInv'
    <2>1. ScanOf(o) \in Doc /\ CodeTypes \subseteq Declared(ScanOf(o).types)
      BY <1>0, ScanIsDoc, ScanFindsCode DEF TypeOK
    <2>2. CodeTypes \subseteq TypeNames
      BY DEF CodeTypes
    <2>3. TypeOK'
      BY <1>0, <1>2, <2>1, <2>2 DEF Scan, TypeOK, counters
    <2>4. code' \subseteq Declared(scanned.types)'
      BY <1>2, <2>1 DEF Scan, Declared
    <2> QED
      BY <1>2, <2>3, <2>4 DEF Scan, SyncInv, Decided, Running, counters
  <1>3. ASSUME ScanFails
        PROVE  SyncInv'
    <2>1. TypeOK'
      BY <1>0, <1>3, EmptyDocIsDoc DEF ScanFails, Fails, TypeOK
    <2> QED
      BY <1>3, <2>1 DEF ScanFails, Fails, SyncInv, Decided, Running
  <1>4. ASSUME ReadSpec
        PROVE  SyncInv'
    <2>1. Merge(truth, scanned, spec) \in Doc
      BY <1>0, MergeIsDoc DEF TypeOK
    <2>2. TypeOK'
      BY <1>0, <1>4, <2>1 DEF ReadSpec, TypeOK, history, counters
    <2> QED
      BY <1>4, <2>2 DEF ReadSpec, SyncInv, Decided, Running, history, counters, Declared
  <1>5. ASSUME OpenSpec
        PROVE  SyncInv'
    <2>1. TypeOK'
      BY <1>0, <1>5 DEF OpenSpec, TypeOK, Stored, history, counters
    <2> QED
      BY <1>5, <2>1 DEF OpenSpec, SyncInv, Decided, Running, history, counters, Declared
  <1>6. ASSUME OpenSpecFails
        PROVE  SyncInv'
    <2>1. TypeOK'
      BY <1>0, <1>6 DEF OpenSpecFails, Fails, TypeOK
    <2> QED
      BY <1>6, <2>1 DEF OpenSpecFails, Fails, SyncInv, Decided, Running, Declared
  <1>7. ASSUME WriteSpec
        PROVE  SyncInv'
    <2>1. TypeOK'
      BY <1>0, <1>7 DEF WriteSpec, TypeOK, Stored, history, counters
    <2> QED
      BY <1>7, <2>1 DEF WriteSpec, SyncInv, Decided, Running, history, counters, Declared
  <1>8. ASSUME WriteMocks
        PROVE  SyncInv'
    <2>1. Mocks \in Generated /\ Mocks \in Files
      BY DEF Generated, Files
    <2>2. GeneratedText(Mocks, merged) \in File /\ EmptyFile \in File
      BY <1>0, <2>1, TextIsFile, EmptyFileIsFile DEF TypeOK
    <2>3. disk' \in [Files -> File] /\ unflushed' \subseteq {"spec", Mocks}
      BY <1>0, <1>8, <2>2 DEF WriteMocks, TypeOK
    <2>4. TypeOK'
      BY <1>0, <1>8, <2>3 DEF WriteMocks, TypeOK, history, counters, WriteOrder
    <2>5. "spec" \in unflushed => "spec" \in unflushed'
      BY <1>8 DEF WriteMocks
    <2> QED
      BY <1>8, <2>4, <2>5 DEF WriteMocks, SyncInv, Decided, Running, history, counters, Declared
  <1>9. ASSUME WriteMocksFails
        PROVE  SyncInv'
    <2>1. Mocks \in Generated /\ Mocks \in Files
      BY DEF Generated, Files
    <2>2. PartsOf(GeneratedText(Mocks, merged)) \subseteq File
      BY <1>0, <2>1, TextIsFile, PartIsFile DEF TypeOK
    <2>3. disk' \in [Files -> File] /\ cut' \subseteq Generated \union {"spec"}
      BY <1>0, <1>9, <2>1, <2>2 DEF WriteMocksFails, TypeOK
    <2>4. TypeOK'
      BY <1>0, <1>9, <2>3 DEF WriteMocksFails, Fails, TypeOK, WriteOrder
    <2>5. "spec" \in unflushed \union cut => "spec" \in unflushed' \union cut'
      BY <1>9 DEF WriteMocksFails
    <2> QED
      BY <1>9, <2>4, <2>5 DEF WriteMocksFails, Fails, SyncInv, Decided, Running, Declared
  <1>10. ASSUME OpenFile
         PROVE  SyncInv'
    <2>1. disk' \in [Files -> File]
      BY <1>0, <1>10, EmptyFileIsFile DEF OpenFile, TypeOK
    <2>2. TypeOK'
      BY <1>0, <1>10, <2>1 DEF OpenFile, TypeOK, history, counters
    <2> QED
      BY <1>10, <2>2 DEF OpenFile, SyncInv, Decided, Running, history, counters, Declared
  <1>11. ASSUME OpenFileFails
         PROVE  SyncInv'
    <2>1. TypeOK'
      BY <1>0, <1>11 DEF OpenFileFails, Fails, TypeOK
    <2> QED
      BY <1>11, <2>1 DEF OpenFileFails, Fails, SyncInv, Decided, Running, Declared
  <1>12. ASSUME FillFile
         PROVE  SyncInv'
    <2>1. next \in DOMAIN WriteOrder /\ WriteOrder[next] \in Generated
      BY <1>0, <1>12 DEF FillFile, TypeOK, WriteOrder, Generated, SdkFiles
    <2>2. GeneratedText(WriteOrder[next], merged) \in File
      BY <1>0, <2>1, TextIsFile DEF TypeOK
    <2>3. disk' \in [Files -> File]
      BY <1>0, <1>12, <2>2 DEF FillFile, TypeOK
    <2>4. next' \in 0..Len(WriteOrder) /\ (pc' = "open_file" => next' > 0)
      BY <1>0, <1>12, <2>1 DEF FillFile, NextFile, TypeOK, WriteOrder
    <2>5. TypeOK'
      BY <1>0, <1>12, <2>3, <2>4 DEF FillFile, NextFile, TypeOK, history, counters
    <2> QED
      BY <1>12, <2>5 DEF FillFile, NextFile, SyncInv, Decided, Running, history, counters, Declared
  <1>13. ASSUME Return
         PROVE  SyncInv'
    <2>1. GeneratedText(Mocks, merged) \in File
      BY <1>0, TextIsFile DEF TypeOK, Generated
    <2>2. disk' \in [Files -> File]
      BY <1>0, <1>13, <2>1 DEF Return, TypeOK
    <2>3. spec' \in Stored
      BY <1>0, <1>13 DEF Return, TypeOK, Stored
    <2>4. TypeOK'
      BY <1>0, <1>13, <2>2, <2>3 DEF Return, TypeOK, history, counters
    <2>5. "spec" \in cut' \/ spec' = merged' \/ (rc' = 1 /\ (raced' \/ spec' = before'))
      BY <1>13 DEF Return, SyncInv, history
    <2> QED
      BY <1>13, <2>4, <2>5 DEF Return, SyncInv, Decided, Running, history, counters, Declared
  <1>14. ASSUME Killed
         PROVE  SyncInv'
    <2>1. TypeOK'
      BY <1>0, <1>14 DEF Killed, Fails, TypeOK
    <2> QED
      BY <1>14, <2>1 DEF Killed, Fails, SyncInv, Decided, Running
  <1>15. ASSUME Edit, spec' \in Stored, disk' \in [Files -> File],
                spec' = spec \/ pc \in {"idle", "done", "scan", "read", "open_spec"}
         PROVE  SyncInv'
    <2>1. TypeOK'
      BY <1>0, <1>15 DEF Edit, TypeOK
    <2> QED
      BY <1>15, <2>1 DEF Edit, SyncInv, Decided, Running, Declared
  <1>16. ASSUME Developer
         PROVE  SyncInv'
    <2>1. ASSUME NEW f \in CodeFiles, NEW n \in TypeNames,
                 NEW c \in Written \union {Absent}, EditCode(f, n, c)
          PROVE  SyncInv'
      <3>1. c \in Content \union {Absent}
        BY WrittenIsContent DEF Written
      <3>0. disk[f] \in File
        BY <1>0 DEF TypeOK, Files
      <3>2. [disk[f].types EXCEPT ![n] = c] \in Types
        BY <3>0, <3>1 DEF File, Types
      <3>3. [disk[f] EXCEPT !.types = [disk[f].types EXCEPT ![n] = c]] \in File
        BY <3>0, <3>2 DEF File
      <3>4. disk' \in [Files -> File]
        BY <1>0, <2>1, <3>3 DEF EditCode, TypeOK
      <3> QED
        BY <1>0, <1>15, <2>1, <3>4 DEF EditCode, TypeOK
    <2>2. ASSUME NEW f \in CodeFiles, NEW o \in Ops, EditRoute(f, o)
          PROVE  SyncInv'
      <3>0. f \in Files /\ disk[f] \in File
        BY <1>0 DEF TypeOK, Files
      <3>2. [disk[f] EXCEPT !.ops = @ \union {o}] \in File
        BY <3>0 DEF File
      <3>1. disk' \in [Files -> File]
        BY <1>0, <2>2, <3>0, <3>2 DEF EditRoute, TypeOK
      <3> QED
        BY <1>0, <1>15, <2>2, <3>1 DEF EditRoute, TypeOK
    <2>3. ASSUME NEW f \in HandFiles, EditGenerated(f)
          PROVE  SyncInv'
      <3>0. f \in Files /\ disk[f] \in File
        BY <1>0 DEF TypeOK, Files
      <3>2. [disk[f] EXCEPT !.hand = TRUE] \in File
        BY <3>0 DEF File
      <3>1. disk' \in [Files -> File]
        BY <1>0, <2>3, <3>0, <3>2 DEF EditGenerated, TypeOK
      <3> QED
        BY <1>0, <1>15, <2>3, <3>1 DEF EditGenerated, TypeOK
    <2>4. ASSUME NEW d \in Stored, SaveSpec(d)
          PROVE  SyncInv'
      BY <1>0, <1>15, <2>4 DEF SaveSpec, TypeOK
    <2>5. ASSUME EditSpec
          PROVE  SyncInv'
      <3>1. Garbage \in Stored
        BY DEF Stored
      <3>2. \A i \in Infos : [spec EXCEPT !.info = i] \in Stored
        BY <2>5 DEF EditSpec, Doc, Stored
      <3>3. ASSUME NEW n \in TypeNames, NEW c \in DocumentContent \union {Absent}
            PROVE  [spec EXCEPT !.types[n] = c] \in Stored
        <4>1. c \in Content \union {Absent}
          BY WrittenIsContent DEF DocumentContent
        <4> QED
          BY <2>5, <4>1 DEF EditSpec, Doc, Types, Stored
      <3>4. \A o \in Ops : [spec EXCEPT !.ops = @ \union {o}] \in Stored
        BY <2>5 DEF EditSpec, Doc, Stored
      <3> QED
        BY <2>4, <2>5, <3>1, <3>2, <3>3, <3>4 DEF EditSpec
    <2> QED
      BY <1>16, <2>1, <2>2, <2>3, <2>5 DEF Developer
  <1>18. ASSUME SpecCutOff
         PROVE  SyncInv'
    <2>1. TypeOK'
      BY <1>0, <1>18 DEF SpecCutOff, Fails, TypeOK
    <2>2. "spec" \in cut'
      BY <1>18 DEF SpecCutOff
    <2> QED
      BY <1>18, <2>1, <2>2 DEF SpecCutOff, Fails, SyncInv, Decided, Running, Declared
  <1>19. ASSUME FileCutOff
         PROVE  SyncInv'
    <2>1. next \in DOMAIN WriteOrder /\ WriteOrder[next] \in Generated
      BY <1>0, <1>19 DEF FileCutOff, TypeOK, WriteOrder, Generated, SdkFiles
    <2>2. PartsOf(GeneratedText(WriteOrder[next], merged)) \subseteq File
      BY <1>0, <2>1, TextIsFile, PartIsFile DEF TypeOK
    <2>3. disk' \in [Files -> File] /\ cut' \subseteq Generated \union {"spec"}
      BY <1>0, <1>19, <2>1, <2>2 DEF FileCutOff, TypeOK
    <2>4. next' \in 0..Len(WriteOrder) /\ (pc' = "open_file" => next' > 0)
      BY <1>0, <1>19, <2>1 DEF FileCutOff, NextFile, TypeOK, WriteOrder
    <2>5. TypeOK'
      BY <1>0, <1>19, <2>3, <2>4 DEF FileCutOff, NextFile, Fails, TypeOK
    <2>6. cut \subseteq cut'
      BY <1>19 DEF FileCutOff
    <2> QED
      BY <1>19, <2>5, <2>6 DEF FileCutOff, NextFile, Fails, SyncInv, Decided, Running, Declared
  <1>20. ASSUME FlushFails
         PROVE  SyncInv'
    <2>1. Mocks \in Generated /\ Mocks \in Files
      BY DEF Generated, Files
    <2>2. PICK lost \in SUBSET unflushed \ {{}}, part \in PartsOf(GeneratedText(Mocks, merged)) :
            /\ spec' = IF "spec" \in unflushed \ lost THEN merged ELSE spec
            /\ disk' = CASE Mocks \in lost -> [disk EXCEPT ![Mocks] = part]
                         [] Mocks \in unflushed \ lost ->
                               [disk EXCEPT ![Mocks] = GeneratedText(Mocks, merged)]
                         [] OTHER -> disk
            /\ cut' = cut \union lost
      BY <1>20 DEF FlushFails
    <2>3. GeneratedText(Mocks, merged) \in File /\ part \in File
      BY <1>0, <2>1, TextIsFile, PartIsFile DEF TypeOK
    <2>4. /\ disk' \in [Files -> File] /\ spec' \in Stored
          /\ cut' \subseteq Generated \union {"spec"}
      BY <1>0, <2>1, <2>2, <2>3 DEF TypeOK, Stored
    <2>5. TypeOK'
      BY <1>0, <1>20, <2>4 DEF FlushFails, Fails, TypeOK
    <2>6. "spec" \in cut' \/ spec' = merged' \/ (rc' = 1 /\ (raced' \/ spec' = before'))
      BY <1>20, <2>2 DEF FlushFails, Fails, SyncInv
    <2> QED
      BY <1>20, <2>5, <2>6 DEF FlushFails, Fails, SyncInv, Decided, Running, Declared
  <1>17. CASE UNCHANGED vars
    <2>1. TypeOK'
      BY <1>0, <1>17 DEF TypeOK, vars, process, history, counters
    <2> QED
      BY <1>17, <2>1 DEF SyncInv, Decided, Running, Declared, vars, process, history, counters
  <1> QED
    BY <1>1, <1>2, <1>3, <1>4, <1>5, <1>6, <1>7, <1>8, <1>9, <1>10, <1>11, <1>12,
       <1>13, <1>14, <1>16, <1>17, <1>18, <1>19, <1>20
       DEF Next, Step, Fault

-----------------------------------------------------------------------------
(* The theorems *)

\* At each point of sync the run has in hand what SyncInv says, whatever is saved,
\* fails, is killed or is cut off meanwhile: once it has written the document, that
\* is what it decided on, or the text is still in the stream's buffer, or the disk
\* did not take it.
THEOREM SyncInvariant == Spec => []SyncInv
  BY SyncInvInit, SyncInvStep, PTL DEF Spec

\* Every variable keeps its type in every run of sync, edit and failure.
THEOREM TypeCorrect == Spec => []TypeOK
  <1>1. SyncInv => TypeOK
    BY DEF SyncInv
  <1> QED
    BY <1>1, SyncInvariant, PTL

\* A run that returns keeps the document's info, and under --truth spec all of
\* it (the merge and the writes of sync), unless it was saved meanwhile or the
\* disk did not take the document's text, which sync does not test.
THEOREM DocumentIsKept == Spec => []DocumentKept
  <1>1. ASSUME SyncInv PROVE DocumentKept
    <2> SUFFICES ASSUME pc = "done", before \in Doc, ~raced, "spec" \notin cut
                 PROVE  /\ spec \in Doc
                        /\ spec.info = before.info
                        /\ truth = "spec" =>
                             /\ spec.ops = before.ops
                             /\ \A n \in Declared(before.types) :
                                    spec.types[n] = before.types[n]
      BY DEF DocumentKept
    <2>1. CASE spec = before
      BY <2>1
    <2>2. CASE spec = merged
      <3>1. read \in Doc /\ spec = Merge(truth, scanned, read)
        BY <1>1, <2>2 DEF SyncInv, Decided
      <3>2. scanned \in Doc /\ merged \in Doc
        BY <1>1 DEF SyncInv, TypeOK
      <3>3. read = before
        BY <1>1 DEF SyncInv, Decided
      <3>4. /\ Merge(truth, scanned, read).info = read.info
            /\ truth = "spec" =>
                 /\ Merge(truth, scanned, read).ops = read.ops
                 /\ \A n \in Declared(read.types) :
                        Merge(truth, scanned, read).types[n] = read.types[n]
        <4>1. read \in Doc
          BY <3>1
        <4>2. scanned \in Doc
          BY <3>2
        <4> QED
          BY ONLY <4>1, <4>2, MergeKeepsDocument, ZenonT(30)
      <3> QED
        BY <2>2, <3>1, <3>2, <3>3, <3>4
    <2> QED
      BY <1>1, <2>1, <2>2 DEF SyncInv
  <1> QED
    BY <1>1, SyncInvariant, PTL

\* After a run that returned 0 every type the run scanned in the developer's files
\* has a schema in the document, in spite of earlier crashes and failures and of
\* files of C++ cut off by this run or by others; the document's own text must be
\* all on the disk, for sync returns 0 when it is not.
THEOREM CodeIsPublished == Spec => []CodeTypesPublished
  <1>1. ASSUME SyncInv PROVE CodeTypesPublished
    <2> SUFFICES ASSUME pc = "done", rc = 0, "spec" \notin cut
                 PROVE  spec \in Doc /\ code \subseteq Declared(spec.types)
      BY DEF CodeTypesPublished
    <2>1. spec = merged /\ merged \in Doc /\ scanned \in Doc /\ read \in Stored
      BY <1>1 DEF SyncInv, TypeOK
    <2>2. code \subseteq Declared(scanned.types) /\ merged = Merge(truth, scanned, read)
      BY <1>1 DEF SyncInv, Decided
    <2>3. Declared(scanned.types) \subseteq Declared(merged.types)
      BY <2>1, <2>2, MergeKeepsCode
    <2> QED
      BY <2>1, <2>2, <2>3
  <1> QED
    BY <1>1, SyncInvariant, PTL

\* No run that returns leaves the document truncated, unless the disk did not take
\* its text: the streams are flushed on every return of sync.
THEOREM DocumentIsReadable == Spec => []NeverLeavesBroken
  <1>1. ASSUME SyncInv PROVE NeverLeavesBroken
    BY <1>1, ConstantsAssumption DEF SyncInv, TypeOK, NeverLeavesBroken
  <1> QED
    BY <1>1, SyncInvariant, PTL
-----------------------------------------------------------------------------
(* The files of the SDK *)

\* write_generated_files has filled so many files with the text of document d, but
\* for those that were cut off.
FilledIn(files, off, d, k) ==
    \A i \in 1..k : WriteOrder[i] \in off \/ files[WriteOrder[i]] = GeneratedText(WriteOrder[i], d)
SdkInv ==
    ~ raced =>
        /\ pc \in {"open_file", "fill_file"} => FilledIn(disk, cut, merged, next - 1)
        /\ pc \in {"return", "done"} /\ rc = 0 => FilledIn(disk, cut, merged, Len(WriteOrder))

\* The files have different names.
LEMMA WriteOrderFacts ==
    /\ Len(WriteOrder) = 7 /\ DOMAIN WriteOrder = 1..7
    /\ \A i, j \in 1..7 : WriteOrder[i] = WriteOrder[j] => i = j
    /\ \A i \in 1..7 : WriteOrder[i] # Mocks /\ WriteOrder[i] \in Generated /\ WriteOrder[i] \notin CodeFiles
    /\ Mocks \in Generated /\ Mocks \notin CodeFiles
  <1>1. Len(WriteOrder) = 7 /\ DOMAIN WriteOrder = 1..7
    BY DEF WriteOrder
  <1>2. \A i, j \in 1..7 : WriteOrder[i] = WriteOrder[j] => i = j
    BY DEF WriteOrder
  <1>3. \A i \in 1..7 : WriteOrder[i] # Mocks
    BY DEF WriteOrder, Mocks
  <1>4. Mocks \in Generated /\ \A i \in 1..7 : WriteOrder[i] \in Generated
    BY <1>1 DEF Generated, SdkFiles
  <1> QED
    BY <1>1, <1>2, <1>3, <1>4, ConstantsAssumption

\* Another file is opened or filled, or one is cut off.
LEMMA FilledStays ==
    ASSUME NEW files \in [Files -> File], NEW off, NEW d, NEW k \in 0..7,
           FilledIn(files, off, d, k),
           NEW g, \A i \in 1..k : WriteOrder[i] # g,
           NEW x, NEW now, now = [files EXCEPT ![g] = x],
           NEW more, off \subseteq more
    PROVE  FilledIn(now, more, d, k)
  <1>1. \A i \in 1..k : i \in 1..7 /\ WriteOrder[i] \in Files
    BY WriteOrderFacts DEF Files
  <1> QED
    BY <1>1 DEF FilledIn

LEMMA SdkInvStep == SyncInv /\ SdkInv /\ [Next]_vars => SdkInv'
  <1> SUFFICES ASSUME SyncInv, SdkInv, [Next]_vars PROVE SdkInv'
    OBVIOUS
  <1>0. TypeOK
    BY DEF SyncInv
  <1>1. ASSUME pc' \notin {"open_file", "fill_file", "return", "done"} PROVE SdkInv'
    BY <1>1 DEF SdkInv
  <1>2. ASSUME NEW t \in Truths, Start(t) PROVE SdkInv'
    BY <1>1, <1>2 DEF Start
  <1>3. ASSUME \/ \E o \in ScanOrders : Scan(o)
               \/ ScanFails \/ ReadSpec \/ OpenSpec \/ WriteSpec \/ SpecCutOff \/ Killed
        PROVE SdkInv'
    BY <1>1, <1>3 DEF Scan, ScanFails, ReadSpec, OpenSpec, WriteSpec, SpecCutOff, Killed
  <1>4. ASSUME OpenSpecFails \/ OpenFileFails PROVE SdkInv'
    BY <1>4 DEF OpenSpecFails, OpenFileFails, SdkInv
  <1>5. ASSUME WriteMocks \/ WriteMocksFails PROVE SdkInv'
    <2>1. pc' = "open_file" /\ next' = 1
      BY <1>5 DEF WriteMocks, WriteMocksFails
    <2>2. FilledIn(disk', cut', merged', next' - 1)
      BY <2>1 DEF FilledIn
    <2> QED
      BY <2>1, <2>2 DEF SdkInv
  <1>6. ASSUME OpenFile PROVE SdkInv'
    <2>1. /\ pc = "open_file" /\ pc' = "fill_file" /\ next' = next
          /\ raced' = raced /\ merged' = merged /\ cut' = cut
          /\ disk' = [disk EXCEPT ![WriteOrder[next]] = EmptyFile]
      BY <1>6 DEF OpenFile, history
    <2>2. next \in 1..7 /\ next - 1 \in 0..7
      BY <1>0, <2>1, WriteOrderFacts DEF TypeOK
    <2>3. \A i \in 1..(next - 1) : WriteOrder[i] # WriteOrder[next]
      BY <2>2, WriteOrderFacts
    <2>4. ~ raced => FilledIn(disk', cut, merged, next - 1)
      BY <1>0, <2>1, <2>2, <2>3, FilledStays DEF SdkInv, TypeOK
    <2> QED
      BY <2>1, <2>4 DEF SdkInv
  <1>7. ASSUME FillFile \/ FileCutOff PROVE SdkInv'
    <2>1. /\ pc = "fill_file" /\ raced' = raced /\ merged' = merged /\ cut \subseteq cut'
          /\ IF next < Len(WriteOrder)
             THEN pc' = "open_file" /\ next' = next + 1
             ELSE pc' = "return" /\ next' = next
      BY <1>7 DEF FillFile, FileCutOff, NextFile, Fails, history
    <2>2. next \in 1..7 /\ next - 1 \in 0..7
      BY <1>0, <2>1, WriteOrderFacts DEF TypeOK
    <2>3. \A i \in 1..(next - 1) : WriteOrder[i] # WriteOrder[next]
      BY <2>2, WriteOrderFacts
    <2>4. PICK x : /\ disk' = [disk EXCEPT ![WriteOrder[next]] = x]
                   /\ \/ x = GeneratedText(WriteOrder[next], merged)
                      \/ WriteOrder[next] \in cut'
      BY <1>7 DEF FillFile, FileCutOff
    <2>5. ~ raced => FilledIn(disk', cut', merged, next - 1)
      <3>1. ~ raced => FilledIn(disk, cut, merged, next - 1)
        BY <2>1 DEF SdkInv
      <3> QED
        BY <1>0, <2>1, <2>2, <2>3, <2>4, <3>1, FilledStays DEF TypeOK
    <2>6. WriteOrder[next] \in cut' \/ disk'[WriteOrder[next]] = GeneratedText(WriteOrder[next], merged)
      BY <1>0, <2>2, <2>4, WriteOrderFacts DEF TypeOK, Files
    <2>7. ~ raced => FilledIn(disk', cut', merged, next)
      BY <2>2, <2>5, <2>6 DEF FilledIn
    <2>8. CASE next < 7
      <3>1. pc' = "open_file" /\ next' - 1 = next
        BY <2>1, <2>2, <2>8, WriteOrderFacts
      <3> QED
        BY <2>1, <2>7, <3>1 DEF SdkInv
    <2>9. CASE next = 7
      <3>1. pc' = "return" /\ Len(WriteOrder) = next
        BY <2>1, <2>9, WriteOrderFacts
      <3> QED
        BY <2>1, <2>7, <3>1 DEF SdkInv
    <2> QED
      BY <2>2, <2>8, <2>9
  <1>8. ASSUME Return \/ FlushFails PROVE SdkInv'
    <2>1. /\ pc = "return" /\ pc' = "done" /\ rc' = rc /\ raced' = raced /\ merged' = merged
          /\ cut \subseteq cut'
          /\ disk' = disk \/ \E x : disk' = [disk EXCEPT ![Mocks] = x]
      <3>1. CASE Return
        BY <3>1 DEF Return, history
      <3>2. CASE FlushFails
        <4>1. /\ pc = "return" /\ pc' = "done" /\ rc' = rc /\ raced' = raced /\ merged' = merged
          BY <3>2 DEF FlushFails, Fails
        <4>2. cut \subseteq cut'
          BY <3>2 DEF FlushFails
        <4>3. disk' = disk \/ \E x : disk' = [disk EXCEPT ![Mocks] = x]
          BY <3>2 DEF FlushFails
        <4> QED
          BY <4>1, <4>2, <4>3
      <3> QED
        BY <1>8, <3>1, <3>2
    <2>2. ASSUME rc = 0, ~ raced PROVE FilledIn(disk', cut', merged, 7)
      <3>1. FilledIn(disk, cut, merged, 7)
        BY <2>1, <2>2, WriteOrderFacts DEF SdkInv
      <3>2. CASE disk' = disk
        <4>1. \A i \in 1..7 : WriteOrder[i] \in cut => WriteOrder[i] \in cut'
          BY <2>1
        <4> QED
          BY <3>1, <3>2, <4>1, Zenon DEF FilledIn
      <3>3. CASE \E x : disk' = [disk EXCEPT ![Mocks] = x]
        <4>1. 7 \in 0..7 /\ disk \in [Files -> File] /\ \A i \in 1..7 : WriteOrder[i] # Mocks
          BY <1>0, WriteOrderFacts DEF TypeOK
        <4>2. PICK x : disk' = [disk EXCEPT ![Mocks] = x]
          BY <3>3
        <4> QED
          BY <2>1, <3>1, <4>1, <4>2, FilledStays, Zenon
      <3> QED
        BY <2>1, <3>2, <3>3
    <2> QED
      BY <2>1, <2>2, WriteOrderFacts DEF SdkInv
  <1>9. ASSUME Developer PROVE SdkInv'
    <2>1. Edit
      BY <1>9 DEF Developer, EditCode, EditRoute, EditGenerated, EditSpec, SaveSpec
    <2> QED
      BY <1>1, <2>1 DEF Edit, SdkInv, Running
  <1>10. CASE UNCHANGED vars
    BY <1>10 DEF SdkInv, vars, process, history
  <1> QED
    BY <1>2, <1>3, <1>4, <1>5, <1>6, <1>7, <1>8, <1>9, <1>10 DEF Next, Step, Fault

\* SdkIsInStep: a run that returned 0, whose document, models.hpp and client.cpp
\* are all on the disk and during which nobody saved a file, leaves models that are
\* the document's schemas and a client that has its standard operations, for every
\* set of types and operations, after any history of failures, and whatever else
\* of its files was cut off.
THEOREM SdkIsInStep == Spec => []SdkMatchesDocument
  <1>1. Init => SdkInv
    BY DEF Init, SdkInv
  <1>2. ASSUME SyncInv, SdkInv PROVE SdkMatchesDocument
    <2> SUFFICES ASSUME pc = "done", rc = 0, ~ raced,
                        cut \intersect {"spec", "src/models.hpp", "src/client.cpp"} = {}
                 PROVE  /\ Declared(disk["src/models.hpp"].types) = Declared(spec.types)
                        /\ spec.ops \intersect StandardOps \subseteq disk["src/client.cpp"].ops
      BY DEF SdkMatchesDocument
    <2>1. spec = merged /\ merged \in Doc
      BY <1>2 DEF SyncInv, TypeOK
    <2>2. FilledIn(disk, cut, merged, 7)
      BY <1>2, WriteOrderFacts DEF SdkInv
    <2>3. WriteOrder[7] = "src/models.hpp" /\ WriteOrder[4] = "src/client.cpp"
      BY DEF WriteOrder
    <2>4. /\ disk["src/models.hpp"] = GeneratedText("src/models.hpp", merged)
          /\ disk["src/client.cpp"] = GeneratedText("src/client.cpp", merged)
      BY <2>2, <2>3 DEF FilledIn
    <2>5. ASSUME NEW n \in TypeNames, merged.types[n] # Absent
          PROVE  Reread(n, merged.types[n]) # Absent
      <3>1. merged.types[n] \in Content
        BY <2>1, <2>5 DEF Doc, Types
      <3> QED
        BY <3>1, RereadIsContent, ConstantsAssumption
    <2>6. Declared(disk["src/models.hpp"].types) = Declared(spec.types)
      <3>1. disk["src/models.hpp"].types = TextTypes("src/models.hpp", merged)
        BY <2>4 DEF GeneratedText
      <3>2. TextTypes("src/models.hpp", merged) =
               [n \in TypeNames |-> IF merged.types[n] = Absent THEN Absent ELSE Reread(n, merged.types[n])]
        BY DEF TextTypes
      <3>3. \A n \in TypeNames : disk["src/models.hpp"].types[n] =
               IF merged.types[n] = Absent THEN Absent ELSE Reread(n, merged.types[n])
        BY <3>1, <3>2
      <3> QED
        BY <2>1, <2>5, <3>3 DEF Declared
    <2>7. spec.ops \intersect StandardOps \subseteq disk["src/client.cpp"].ops
      BY <2>1, <2>4 DEF GeneratedText, TextOps
    <2> QED
      BY <2>6, <2>7
  <1> QED
    BY <1>1, <1>2, SdkInvStep, SyncInvariant, PTL DEF Spec

-----------------------------------------------------------------------------
(* Repeated runs *)

\* The types of the developer's files carry no detail that C++ cannot express.
Plain(files) == \A f \in CodeFiles : \A n \in Declared(files[f].types) : ~ files[f].types[n].rich

\* What a scan finds in a directory where the files that are not the developer's
\* were generated from d.
FileIn(files, f, d) == IF f \in CodeFiles THEN files[f] ELSE GeneratedText(f, d)
DeclaringIn(files, o, d, n) == {i \in DOMAIN o : FileIn(files, o[i], d).types[n] # Absent}
TypeIn(files, o, d, n) ==
    IF DeclaringIn(files, o, d, n) = {} THEN Absent
    ELSE FileIn(files, o[First(DeclaringIn(files, o, d, n))], d).types[n]
ScanIn(files, o, d) ==
    [info  |-> DefaultInfo,
     types |-> [n \in TypeNames |-> TypeIn(files, o, d, n)],
     ops   |-> UNION {FileIn(files, f, d).ops : f \in Files}]

GeneratedIn(files, d) == \A f \in Generated : files[f] = GeneratedText(f, d)
\* What a run makes of d and of the files that were generated from it.
After(files, t, o, d) == Merge(t, ScanIn(files, o, d), d)
\* Such a run keeps what Settles says, in the order o; and in any other order.
StaysIn(files, t, o, other, d) ==
    SameNames(t, d, After(files, t, o, d)) /\ (~ other => OnlyWrapped(d, After(files, t, o, d)))
SettledIn(files, t, o, d) == \A p \in ScanOrders : StaysIn(files, t, p, p # o, d)

\* Of a run that nothing came in the way of: the files it leaves behind are those of
\* its document, a second one like it begins and works with those, and what a third
\* one begins with stays.
Undisturbed == calm >= 1 => pc # "idle" /\ rc = 0 /\ ~ raced /\ cut = {}
MocksMade ==
    calm >= 1 /\ pc \in {"open_file", "fill_file", "return"} =>
        Mocks \in unflushed \/ disk[Mocks] = GeneratedText(Mocks, merged)
LeftBehind == calm >= 1 /\ pc = "done" => GeneratedIn(disk, merged)
Begun ==
    calm >= 2 /\ pc \in {"scan", "read"} =>
        /\ spec \in Doc /\ GeneratedIn(disk, spec)
        /\ calm >= 3 /\ pc = "scan" => SettledIn(disk, truth, order, spec)
        /\ calm >= 3 /\ pc = "read" => StaysIn(disk, truth, order, turned, spec)
ScannedAgain == calm >= 2 /\ pc = "read" => scanned = ScanIn(disk, order, spec)
Working ==
    calm >= 2 /\ Decided =>
        /\ read \in Doc /\ scanned = ScanIn(disk, order, read)
        /\ calm >= 3 => StaysIn(disk, truth, order, turned, read)
SettleInv == Undisturbed /\ MocksMade /\ LeftBehind /\ Begun /\ ScannedAgain /\ Working

\* A type that was printed and read has its shape, nothing that C++ cannot express,
\* and perhaps one layer more.
LEMMA RereadWraps ==
    ASSUME NEW n, NEW c \in Content
    PROVE  /\ Reread(n, c) \in Content /\ ~ Reread(n, c).rich
           /\ Reread(n, c).shape = c.shape /\ Reread(n, c).wraps >= c.wraps
  <1> DEFINE w == IF (n \in BackRefs \/ c.wraps > 0) /\ c.wraps < MaxWraps
                  THEN c.wraps + 1 ELSE c.wraps
  <1>1. c.wraps \in 0..MaxWraps /\ w >= c.wraps
    BY ConstantsAssumption DEF Content
  <1>2. Reread(n, c) = [c EXCEPT !.rich = FALSE, !.wraps = w]
    BY DEF Reread
  <1> HIDE DEF w
  <1> QED
    BY <1>1, <1>2, RereadIsContent DEF Content

LEMMA HelperIsPlain ==
    HelperContent \in Content /\ HelperContent # Absent /\ ~ HelperContent.rich
  <1>1. 0 \in 0..MaxWraps /\ HelperShape \in Shapes
    BY ConstantsAssumption
  <1>2. HelperContent \in Content
    BY <1>1 DEF HelperContent, Content
  <1>3. HelperContent # Absent
    BY <1>2, ConstantsAssumption
  <1> QED
    BY <1>2, <1>3 DEF HelperContent

\* What is generated from a document is plain.
LEMMA PlainText ==
    ASSUME NEW d \in Doc, NEW f, NEW n \in TypeNames,
           NEW c, c = GeneratedText(f, d).types[n], c # Absent
    PROVE  c \in Content /\ ~ c.rich
  <1>1. c = TextTypes(f, d)[n]
    BY DEF GeneratedText
  <1>2. CASE f = "src/models.hpp"
    <2>1. d.types[n] # Absent /\ c = Reread(n, d.types[n])
      BY <1>1, <1>2 DEF TextTypes
    <2>2. d.types[n] \in Content
      BY <2>1 DEF Doc, Types
    <2> QED
      BY <2>1, <2>2, RereadWraps
  <1>3. CASE f # "src/models.hpp"
    BY <1>1, <1>3, HelperIsPlain DEF TextTypes
  <1> QED
    BY <1>2, <1>3

\* models.hpp has the types of the document, and the others do not depend on it.
LEMMA TextOfTwo ==
    ASSUME NEW d \in Doc, NEW n \in TypeNames, NEW f
    PROVE  /\ f = "src/models.hpp" => (GeneratedText(f, d).types[n] = Absent <=> d.types[n] = Absent)
           /\ f = "src/models.hpp" /\ d.types[n] # Absent =>
                 GeneratedText(f, d).types[n] = Reread(n, d.types[n])
           /\ f # "src/models.hpp" =>
                 \A m : GeneratedText(f, m).types[n] = GeneratedText(f, d).types[n]
  <1>1. \A m : GeneratedText(f, m).types[n] = TextTypes(f, m)[n]
    BY DEF GeneratedText
  <1>2. d.types[n] # Absent => Reread(n, d.types[n]) # Absent
    BY RereadIsContent, ConstantsAssumption DEF Doc, Types
  <1>3. CASE f = "src/models.hpp"
    BY <1>1, <1>2, <1>3 DEF TextTypes
  <1>4. CASE f # "src/models.hpp"
    <2>1. \A m : TextTypes(f, m)[n] = IF n \in Helpers[f] THEN HelperContent ELSE Absent
      BY <1>4 DEF TextTypes
    <2> QED
      BY <1>1, <1>4, <2>1
  <1> QED
    BY <1>3, <1>4

-----------------------------------------------------------------------------
(* A scan after a run *)

\* The types that such a scan can find.
LEMMA PlainFileIn ==
    ASSUME NEW files \in [Files -> File], Plain(files), NEW f \in Files,
           NEW d \in Doc, NEW n \in TypeNames,
           NEW c, c = FileIn(files, f, d).types[n], c # Absent
    PROVE  c \in Content /\ ~ c.rich
  <1>1. CASE f \in CodeFiles
    <2>1. c = files[f].types[n] /\ files[f] \in File
      BY <1>1 DEF FileIn
    <2>2. c \in Content /\ n \in Declared(files[f].types)
      BY <2>1 DEF File, Types, Declared
    <2> QED
      BY <1>1, <2>1, <2>2 DEF Plain
  <1>2. CASE f \notin CodeFiles
    BY <1>2, PlainText DEF FileIn
  <1> QED
    BY <1>1, <1>2

LEMMA TypeInFacts ==
    ASSUME NEW files, NEW o \in ScanOrders, NEW d, NEW n
    PROVE  /\ \A i \in DeclaringIn(files, o, d, n) : i \in Nat /\ o[i] \in Files
           /\ DeclaringIn(files, o, d, n) = {} <=> TypeIn(files, o, d, n) = Absent
           /\ DeclaringIn(files, o, d, n) # {} =>
                 /\ First(DeclaringIn(files, o, d, n)) \in DeclaringIn(files, o, d, n)
                 /\ \A i \in DeclaringIn(files, o, d, n) : First(DeclaringIn(files, o, d, n)) <= i
                 /\ TypeIn(files, o, d, n) = FileIn(files, o[First(DeclaringIn(files, o, d, n))], d).types[n]
  <1> DEFINE D == DeclaringIn(files, o, d, n)
  <1>1. D \in SUBSET Nat /\ \A i \in D : o[i] \in Files
    BY ScanOrdersAssumption DEF DeclaringIn
  <1>2. ASSUME D # {} PROVE First(D) \in D /\ \A i \in D : First(D) <= i
    <2> HIDE DEF D
    <2> QED
      BY <1>1, <1>2, FirstIsLeast
  <1>3. \A i \in D : FileIn(files, o[i], d).types[n] # Absent
    BY DEF DeclaringIn
  <1>4. /\ D = {} => TypeIn(files, o, d, n) = Absent
        /\ D # {} => TypeIn(files, o, d, n) = FileIn(files, o[First(D)], d).types[n]
    BY DEF TypeIn
  <1> HIDE DEF D
  <1>5. D = {} <=> TypeIn(files, o, d, n) = Absent
    BY <1>2, <1>3, <1>4
  <1> QED
    BY <1>1, <1>2, <1>4, <1>5 DEF D

\* Which types a scan finds does not depend on the order of the files.
LEMMA DeclaredInAnyOrder ==
    ASSUME NEW files, NEW o \in ScanOrders, NEW d, NEW n
    PROVE  TypeIn(files, o, d, n) = Absent <=> \A f \in Files : FileIn(files, f, d).types[n] = Absent
  <1>1. \A f \in Files : \E i \in DOMAIN o : o[i] = f
    BY ScanOrdersAssumption
  <1>2. \A i \in DOMAIN o : o[i] \in Files
    BY ScanOrdersAssumption
  <1>3. DeclaringIn(files, o, d, n) = {} <=> \A i \in DOMAIN o : FileIn(files, o[i], d).types[n] = Absent
    BY DEF DeclaringIn
  <1>4. DeclaringIn(files, o, d, n) = {} <=> TypeIn(files, o, d, n) = Absent
    BY TypeInFacts
  <1> QED
    BY <1>1, <1>2, <1>3, <1>4

\* A type that a scan finds and that is put into the document is found again, when
\* the files were generated from that document and are visited in the same order:
\* where it was found, or in models.hpp as it was printed there.
LEMMA TypeStays ==
    ASSUME NEW files \in [Files -> File], Plain(files), NEW o \in ScanOrders,
           NEW d \in Doc, NEW m \in Doc, NEW n \in TypeNames,
           m.types[n] = TypeIn(files, o, d, n), m.types[n] # Absent
    PROVE  /\ m.types[n] \in Content /\ ~ m.types[n].rich
           /\ \/ TypeIn(files, o, m, n) = m.types[n]
              \/ TypeIn(files, o, m, n) = Reread(n, m.types[n])
  <1> DEFINE x == TypeIn(files, o, d, n)
             D == DeclaringIn(files, o, d, n)
             M == DeclaringIn(files, o, m, n)
             At(e, i) == FileIn(files, o[i], e).types[n]
  <1>1. /\ \A i \in DOMAIN o : o[i] # "src/models.hpp" => At(m, i) = At(d, i)
        /\ \A i \in DOMAIN o : o[i] = "src/models.hpp" =>
              (o[i] \in CodeFiles => At(m, i) = At(d, i))
        /\ \A i \in DOMAIN o : o[i] = "src/models.hpp" /\ o[i] \notin CodeFiles =>
              /\ At(m, i) = Absent <=> x = Absent
              /\ x # Absent => At(m, i) = Reread(n, x)
    <2>1. \A i \in DOMAIN o : o[i] \notin CodeFiles =>
             At(m, i) = GeneratedText(o[i], m).types[n] /\ At(d, i) = GeneratedText(o[i], d).types[n]
      BY DEF FileIn
    <2>2. \A i \in DOMAIN o : o[i] \in CodeFiles => At(m, i) = At(d, i)
      BY DEF FileIn
    <2> HIDE DEF At, x
    <2>3. m.types[n] = x
      BY DEF x
    <2> QED
      BY <2>1, <2>2, <2>3, TextOfTwo
  <1>2. \A i : i \in D <=> i \in DOMAIN o /\ At(d, i) # Absent
    BY DEF DeclaringIn
  <1>3. \A i : i \in M <=> i \in DOMAIN o /\ At(m, i) # Absent
    BY DEF DeclaringIn
  <1>4. /\ D = {} <=> x = Absent
        /\ \A i \in D : i \in Nat /\ o[i] \in Files
        /\ D # {} => First(D) \in D /\ (\A i \in D : First(D) <= i) /\ x = At(d, First(D))
    BY TypeInFacts
  <1>5. /\ M = {} <=> TypeIn(files, o, m, n) = Absent
        /\ \A i \in M : i \in Nat
        /\ M # {} => First(M) \in M /\ (\A i \in M : First(M) <= i)
                     /\ TypeIn(files, o, m, n) = At(m, First(M))
    BY TypeInFacts
  <1>6. m.types[n] = x
    OBVIOUS
  <1>7. x \in Content /\ ~ x.rich
    <2>1. x # Absent /\ o[First(D)] \in Files /\ x = FileIn(files, o[First(D)], d).types[n]
      BY <1>4, <1>6
    <2> HIDE DEF x, D, M, At
    <2> QED
      BY <2>1, PlainFileIn
  <1>8. x # Absent
    BY <1>6
  <1> HIDE DEF x, D, M, At
  <1>9. TypeIn(files, o, m, n) = x \/ TypeIn(files, o, m, n) = Reread(n, x)
    <2>1. D # {} /\ First(D) \in D
      BY <1>4, <1>8
    <2>2. D \subseteq M
      BY <1>1, <1>2, <1>3, <1>8
    <2>3. M # {} /\ First(M) \in M /\ First(M) <= First(D) /\ First(M) \in DOMAIN o
      BY <1>3, <1>5, <2>1, <2>2
    <2>4. CASE At(m, First(M)) = At(d, First(M))
      <3>1. First(M) \in D
        BY <1>2, <1>3, <2>3, <2>4
      <3>2. First(M) = First(D)
        BY <1>4, <1>5, <2>1, <2>3, <3>1
      <3> QED
        BY <1>4, <1>5, <2>1, <2>3, <2>4, <3>2
    <2>5. CASE At(m, First(M)) # At(d, First(M))
      BY <1>1, <1>5, <1>8, <2>3, <2>5
    <2> QED
      BY <2>4, <2>5
  <1> QED
    BY <1>6, <1>7, <1>9

\* A type that neither the document nor a scan has is not found later.
LEMMA TypeStaysAbsent ==
    ASSUME NEW files, NEW o \in ScanOrders, NEW p \in ScanOrders, NEW d \in Doc, NEW m \in Doc,
           NEW n \in TypeNames, m.types[n] = Absent, TypeIn(files, o, d, n) = Absent
    PROVE  TypeIn(files, p, m, n) = Absent
  <1>1. ASSUME NEW f \in Files PROVE FileIn(files, f, m).types[n] = Absent
    <2>1. FileIn(files, f, d).types[n] = Absent
      BY DeclaredInAnyOrder
    <2> QED
      BY <2>1, TextOfTwo DEF FileIn
  <1> QED
    BY <1>1, DeclaredInAnyOrder

\* One that the document has is found in models.hpp if not elsewhere.
LEMMA TypeStaysDeclared ==
    ASSUME NEW files, NEW p \in ScanOrders, NEW m \in Doc, NEW n \in TypeNames,
           m.types[n] # Absent
    PROVE  TypeIn(files, p, m, n) # Absent
  <1>1. "src/models.hpp" \in Generated /\ "src/models.hpp" \notin CodeFiles
    BY WriteOrderFacts DEF WriteOrder
  <1>2. FileIn(files, "src/models.hpp", m).types[n] # Absent
    BY <1>1, TextOfTwo DEF FileIn
  <1> QED
    BY <1>1, <1>2, DeclaredInAnyOrder DEF Files

\* The operations: those of the developer, of the client, and for auth.
LEMMA OpsIn ==
    ASSUME NEW files, NEW o, NEW d \in Doc
    PROVE  ScanIn(files, o, d).ops =
              (UNION {files[f].ops : f \in CodeFiles}) \union (d.ops \intersect StandardOps) \union AuthOps
  <1>1. ScanIn(files, o, d).ops = UNION {FileIn(files, f, d).ops : f \in Files}
    BY DEF ScanIn
  <1>2. \A f \in CodeFiles : f \in Files /\ FileIn(files, f, d).ops = files[f].ops
    BY DEF FileIn, Files
  <1>3. \A f \in Generated : f \in Files /\ FileIn(files, f, d).ops = TextOps(f, d)
    BY ConstantsAssumption DEF FileIn, Files, GeneratedText
  <1>4. "src/client.cpp" \in Generated /\ \A f \in Files : f \in CodeFiles \/ f \in Generated
    BY WriteOrderFacts DEF WriteOrder, Files, Generated, SdkFiles
  <1>5. \A f : TextOps(f, d) = IF f = "src/client.cpp" THEN (d.ops \intersect StandardOps) \union AuthOps
                               ELSE {}
    BY DEF TextOps
  <1> QED
    BY <1>1, <1>2, <1>3, <1>4, <1>5

LEMMA ScanInIsDoc ==
    ASSUME NEW files \in [Files -> File], Plain(files), NEW o \in ScanOrders, NEW d \in Doc
    PROVE  ScanIn(files, o, d) \in Doc
  <1>1. ASSUME NEW n \in TypeNames PROVE TypeIn(files, o, d, n) \in Content \union {Absent}
    <2> DEFINE D == DeclaringIn(files, o, d, n)
    <2>1. CASE D = {}
      BY <2>1, TypeInFacts
    <2>2. CASE D # {}
      <3>1. /\ o[First(D)] \in Files /\ TypeIn(files, o, d, n) = FileIn(files, o[First(D)], d).types[n]
            /\ TypeIn(files, o, d, n) # Absent
        BY <2>2, TypeInFacts
      <3> HIDE DEF D
      <3> QED
        BY <3>1, PlainFileIn
    <2> QED
      BY <2>1, <2>2
  <1>2. ScanIn(files, o, d).ops \subseteq Ops
    <2>1. \A f \in CodeFiles : files[f].ops \subseteq Ops
      BY DEF File, Files
    <2> QED
      BY <2>1, OpsIn, ConstantsAssumption DEF Doc
  <1> DEFINE types == [n \in TypeNames |-> TypeIn(files, o, d, n)]
             ops == UNION {FileIn(files, f, d).ops : f \in Files}
  <1>3. ScanIn(files, o, d) = [info |-> DefaultInfo, types |-> types, ops |-> ops]
    BY DEF ScanIn
  <1>4. types \in Types
    BY <1>1 DEF Types
  <1>5. ops \in SUBSET Ops
    BY <1>2, <1>3
  <1> HIDE DEF types, ops
  <1> QED
    BY <1>3, <1>4, <1>5, ConstantsAssumption DEF Doc

LEMMA InfoAlone ==
    ASSUME NEW s \in Doc, NEW i
    PROVE  [s EXCEPT !.info = i].types = s.types /\ [s EXCEPT !.info = i].ops = s.ops
  BY DEF Doc

\* The types that a merge puts together.
LEMMA MergedTypes ==
    ASSUME NEW t, NEW s \in Doc, NEW d \in Doc, NEW n \in TypeNames
    PROVE  Merge(t, s, d).types[n] =
              IF t = "spec" /\ d.types[n] # Absent THEN d.types[n] ELSE s.types[n]
  <1>1. d \notin {Absent, Garbage}
    BY ConstantsAssumption
  <1>2. CASE t = "spec"
    <2> DEFINE types == [k \in TypeNames |-> IF d.types[k] = Absent THEN s.types[k] ELSE d.types[k]]
    <2>1. Merge(t, s, d) = [d EXCEPT !.types = types]
      BY <1>1, <1>2 DEF Merge, WithMissing
    <2>2. types[n] = IF d.types[n] = Absent THEN s.types[n] ELSE d.types[n]
      OBVIOUS
    <2> HIDE DEF types
    <2>3. Merge(t, s, d).types = types
      BY <2>1 DEF Doc
    <2> QED
      BY <1>2, <2>2, <2>3
  <1>3. CASE t # "spec"
    <2>1. Merge(t, s, d) = [s EXCEPT !.info = d.info]
      BY <1>1, <1>3 DEF Merge
    <2> QED
      BY <1>3, <2>1, InfoAlone
  <1> QED
    BY <1>2, <1>3

\* What a run makes of a document and of the files generated from it stays, as far
\* as Settles says: the next run makes the same of it.
LEMMA RunSettles ==
    ASSUME NEW files \in [Files -> File], Plain(files), NEW o \in ScanOrders,
           NEW d \in Doc, NEW t, NEW m, m = After(files, t, o, d)
    PROVE  SettledIn(files, t, o, m)
  <1> SUFFICES ASSUME NEW p \in ScanOrders
               PROVE  /\ SameNames(t, m, After(files, t, p, m))
                      /\ p = o => OnlyWrapped(m, After(files, t, p, m))
    BY DEF SettledIn, StaysIn
  <1> DEFINE s == ScanIn(files, o, d)
             z == ScanIn(files, p, m)
             e == Merge(t, z, m)
  <1>1. s \in Doc /\ m \in Doc
    BY ScanInIsDoc, MergeIsDoc DEF Stored, After
  <1>2. z \in Doc /\ e \in Doc
    BY <1>1, ScanInIsDoc, MergeIsDoc DEF Stored
  <1>3. /\ \A n \in TypeNames : s.types[n] = TypeIn(files, o, d, n)
        /\ \A n \in TypeNames : z.types[n] = TypeIn(files, p, m, n)
    BY DEF ScanIn
  <1>4. /\ s.ops = (UNION {files[f].ops : f \in CodeFiles}) \union (d.ops \intersect StandardOps) \union AuthOps
        /\ z.ops = (UNION {files[f].ops : f \in CodeFiles}) \union (m.ops \intersect StandardOps) \union AuthOps
    BY <1>1, OpsIn
  <1>5. m = Merge(t, s, d) /\ e = After(files, t, p, m)
    BY DEF After
  <1> HIDE DEF s, z, e
  <1>6. \A n \in TypeNames :
           m.types[n] = IF t = "spec" /\ d.types[n] # Absent THEN d.types[n] ELSE s.types[n]
    BY <1>1, <1>5, MergedTypes
  <1>7. \A n \in TypeNames :
           e.types[n] = IF t = "spec" /\ m.types[n] # Absent THEN m.types[n] ELSE z.types[n]
    BY <1>1, <1>2, MergedTypes DEF e
  <1>8. ASSUME NEW n \in TypeNames PROVE z.types[n] = Absent <=> m.types[n] = Absent
    <2>1. CASE m.types[n] = Absent
      <3>1. TypeIn(files, o, d, n) = Absent
        BY <1>3, <1>6, <2>1
      <3>2. TypeIn(files, p, m, n) = Absent
        BY <1>1, <2>1, <3>1, TypeStaysAbsent
      <3> QED
        BY <1>3, <2>1, <3>2
    <2>2. CASE m.types[n] # Absent
      <3>1. TypeIn(files, p, m, n) # Absent
        BY <1>1, <2>2, TypeStaysDeclared
      <3> QED
        BY <1>3, <2>2, <3>1
    <2> QED
      BY <2>1, <2>2
  <1>9. Declared(e.types) = Declared(m.types)
    BY <1>7, <1>8 DEF Declared
  <1>10. m \notin {Absent, Garbage} /\ d \notin {Absent, Garbage}
    BY <1>1, ConstantsAssumption
  <1>11. CASE t = "spec"
    <2>1. e = WithMissing(m, z)
      BY <1>10, <1>11 DEF Merge, e
    <2>2. [n \in TypeNames |-> IF m.types[n] = Absent THEN z.types[n] ELSE m.types[n]] = m.types
      BY <1>1, <1>8 DEF Doc, Types
    <2>3. e = m
      <3>1. WithMissing(m, z) =
               [m EXCEPT !.types = [n \in TypeNames |-> IF m.types[n] = Absent THEN z.types[n] ELSE m.types[n]]]
        BY DEF WithMissing
      <3> QED
        BY <1>1, <2>1, <2>2, <3>1 DEF Doc
    <2>4. SameNames(t, m, e)
      BY <2>3 DEF SameNames
    <2>5. OnlyWrapped(m, e)
      <3>1. \A n \in Declared(m.types) : m.types[n] \in Content /\ m.types[n].wraps >= m.types[n].wraps
        BY <1>1, ConstantsAssumption DEF Doc, Types, Declared, Content
      <3> QED
        BY <2>3, <3>1 DEF OnlyWrapped
    <2> QED
      BY <1>5, <2>4, <2>5
  <1>12. CASE t # "spec"
    <2>1. m = [s EXCEPT !.info = d.info] /\ e = [z EXCEPT !.info = m.info]
      BY <1>5, <1>10, <1>12 DEF Merge, e
    <2>2. m.types = s.types /\ m.ops = s.ops /\ e.types = z.types /\ e.ops = z.ops
      BY <1>1, <1>2, <2>1, InfoAlone
    <2>3. e.ops = m.ops
      BY <1>4, <2>2
    <2>4. e.info = m.info
      BY <1>2, <2>1 DEF Doc
    <2>5. SameNames(t, m, e)
      BY <1>9, <1>12, <2>3, <2>4 DEF SameNames
    <2>6. ASSUME p = o, NEW n \in Declared(m.types)
          PROVE  /\ e.types[n].shape = m.types[n].shape /\ e.types[n].rich = m.types[n].rich
                 /\ e.types[n].wraps >= m.types[n].wraps
      <3>1. n \in TypeNames /\ m.types[n] # Absent /\ m.types[n] = TypeIn(files, o, d, n)
        BY <1>3, <2>2, <2>6 DEF Declared
      <3>2. /\ m.types[n] \in Content /\ ~ m.types[n].rich
            /\ \/ TypeIn(files, o, m, n) = m.types[n]
               \/ TypeIn(files, o, m, n) = Reread(n, m.types[n])
        BY <1>1, <3>1, TypeStays
      <3>3. e.types[n] = TypeIn(files, o, m, n)
        BY <1>3, <2>2, <2>6, <3>1
      <3>4. m.types[n].rich = FALSE /\ m.types[n].wraps >= m.types[n].wraps
        BY <3>2, ConstantsAssumption DEF Content
      <3>5. /\ Reread(n, m.types[n]) \in Content /\ ~ Reread(n, m.types[n]).rich
            /\ Reread(n, m.types[n]).shape = m.types[n].shape
            /\ Reread(n, m.types[n]).wraps >= m.types[n].wraps
        BY <3>2, RereadWraps
      <3>6. Reread(n, m.types[n]).rich = FALSE
        BY <3>5 DEF Content
      <3> QED
        BY <3>2, <3>3, <3>4, <3>5, <3>6
    <2> QED
      BY <1>5, <2>5, <2>6 DEF OnlyWrapped
  <1> QED
    BY <1>11, <1>12

-----------------------------------------------------------------------------
(* Plain stays *)

\* A generated file is written.
LEMMA PlainWritten ==
    ASSUME NEW files \in [Files -> File], Plain(files), NEW g \in Generated,
           NEW x, NEW now, now = [files EXCEPT ![g] = x]
    PROVE  Plain(now)
  <1>1. g \notin CodeFiles /\ \A f \in CodeFiles : f \in Files
    BY ConstantsAssumption DEF Files
  <1>2. \A f \in CodeFiles : now[f] = files[f]
    BY <1>1
  <1> QED
    BY <1>2 DEF Plain

LEMMA PlainInit == Init => Plain(disk)
  <1>1. Declared(EmptyFile.types) = {}
    BY DEF Declared, EmptyFile, NoTypes
  <1> QED
    BY <1>1 DEF Init, Plain, Files

\* A step of a run writes a generated file or none.
LEMMA RunWrites ==
    ASSUME TypeOK, Step \/ Fault
    PROVE  disk' = disk \/ \E g \in Generated : \E x : disk' = [disk EXCEPT ![g] = x]
  <1>1. Mocks \in Generated
    BY DEF Generated
  <1>2. pc \in {"open_file", "fill_file"} => WriteOrder[next] \in Generated
    BY WriteOrderFacts DEF TypeOK
  <1>3. CASE Step
    BY <1>1, <1>2, <1>3
       DEF Step, Scan, ReadSpec, OpenSpec, WriteSpec, WriteMocks, OpenFile, FillFile, Return
  <1>4. CASE ScanFails \/ OpenSpecFails \/ SpecCutOff \/ OpenFileFails \/ Killed
    BY <1>4 DEF ScanFails, OpenSpecFails, SpecCutOff, OpenFileFails, Killed
  <1>5. CASE WriteMocksFails
    BY <1>1, <1>5 DEF WriteMocksFails
  <1>6. CASE FileCutOff
    BY <1>2, <1>6 DEF FileCutOff
  <1>7. CASE FlushFails
    BY <1>1, <1>7 DEF FlushFails
  <1> QED
    BY <1>3, <1>4, <1>5, <1>6, <1>7 DEF Fault

LEMMA PlainStep == SyncInv /\ Plain(disk) /\ [Next]_vars => Plain(disk')
  <1> SUFFICES ASSUME SyncInv, Plain(disk), [Next]_vars PROVE Plain(disk')
    OBVIOUS
  <1>0. TypeOK /\ disk \in [Files -> File]
    BY DEF SyncInv, TypeOK
  <1>1. CASE disk' = disk
    BY <1>1
  <1>2. CASE Step \/ Fault
    BY <1>0, <1>1, <1>2, RunWrites, PlainWritten
  <1>3. ASSUME NEW f \in CodeFiles, NEW n \in TypeNames, NEW c \in Written \union {Absent},
               EditCode(f, n, c)
        PROVE  Plain(disk')
    <2>1. c # Absent => ~ c.rich
      BY DEF Written
    <2>2. f \in Files /\ \A g \in CodeFiles : g \in Files
      BY DEF Files
    <2>3. \A g \in Files, k \in TypeNames :
             disk'[g].types[k] = IF g = f /\ k = n THEN c ELSE disk[g].types[k]
      BY <1>0, <1>3, <2>2 DEF EditCode, File, Types
    <2> QED
      BY <2>1, <2>2, <2>3 DEF Plain, Declared
  <1>4. ASSUME NEW f \in CodeFiles, NEW o \in Ops, EditRoute(f, o) PROVE Plain(disk')
    <2>1. f \in Files /\ \A g \in CodeFiles : g \in Files
      BY DEF Files
    <2>2. disk[f] \in File
      BY <1>0, <2>1
    <2>3. [disk[f] EXCEPT !.ops = @ \union {o}].types = disk[f].types
      BY <2>2 DEF File
    <2>4. disk' = [disk EXCEPT ![f] = [disk[f] EXCEPT !.ops = @ \union {o}]]
      BY <1>4 DEF EditRoute
    <2>5. \A g \in CodeFiles : disk'[g].types = disk[g].types
      BY <1>0, <2>1, <2>3, <2>4
    <2> QED
      BY <2>5 DEF Plain
  <1>5. ASSUME NEW f \in HandFiles, EditGenerated(f) PROVE Plain(disk')
    <2>1. \E x : disk' = [disk EXCEPT ![f] = x]
      BY <1>5 DEF EditGenerated
    <2> QED
      BY <1>0, <2>1, PlainWritten, ConstantsAssumption
  <1>6. CASE EditSpec
    BY <1>1, <1>6 DEF EditSpec, SaveSpec
  <1>7. CASE \E t \in Truths : Start(t)
    BY <1>1, <1>7 DEF Start
  <1>8. CASE UNCHANGED vars
    BY <1>1, <1>8 DEF vars
  <1> QED
    BY <1>2, <1>3, <1>4, <1>5, <1>6, <1>7, <1>8 DEF Next, Developer

-----------------------------------------------------------------------------
(* The third run and those after it *)

\* A scan after a run that nothing disturbed, in terms of the document.
LEMMA ScanAgain ==
    ASSUME NEW d, GeneratedIn(disk, d), NEW o \in ScanOrders
    PROVE  ScanOf(o) = ScanIn(disk, o, d)
  <1>1. \A f \in Files : FileIn(disk, f, d) = disk[f]
    BY DEF FileIn, GeneratedIn, Files
  <1>2. \A i \in DOMAIN o : o[i] \in Files
    BY ScanOrdersAssumption
  <1>3. ASSUME NEW n \in TypeNames PROVE ScannedType(o, n) = TypeIn(disk, o, d, n)
    <2>1. Declaring(o, n) = DeclaringIn(disk, o, d, n)
      BY <1>1, <1>2 DEF Declaring, DeclaringIn
    <2>2. CASE DeclaringIn(disk, o, d, n) = {}
      BY <2>1, <2>2, Zenon DEF ScannedType, TypeIn
    <2>3. CASE DeclaringIn(disk, o, d, n) # {}
      <3>1. First(Declaring(o, n)) \in DeclaringIn(disk, o, d, n)
        BY <2>1, <2>3, TypeInFacts
      <3>2. FileIn(disk, o[First(Declaring(o, n))], d) = disk[o[First(Declaring(o, n))]]
        BY <1>1, <3>1, TypeInFacts
      <3> QED
        BY <2>1, <2>3, <3>2, Zenon DEF ScannedType, TypeIn
    <2> QED
      BY <2>2, <2>3
  <1>4. UNION {FileIn(disk, f, d).ops : f \in Files} = UNION {disk[f].ops : f \in Files}
    BY <1>1
  <1> QED
    BY <1>3, <1>4, Zenon DEF ScanOf, ScanIn

\* Writing generated files changes neither such a scan nor what comes of it.
LEMMA CodeSame ==
    ASSUME NEW files, NEW now, \A f \in CodeFiles : now[f] = files[f], NEW o, NEW d
    PROVE  /\ ScanIn(now, o, d) = ScanIn(files, o, d)
           /\ \A t : After(now, t, o, d) = After(files, t, o, d)
  <1>1. \A f : FileIn(now, f, d) = FileIn(files, f, d)
    BY DEF FileIn
  <1>2. \A n : DeclaringIn(now, o, d, n) = DeclaringIn(files, o, d, n)
    BY <1>1 DEF DeclaringIn
  <1>3. \A n : TypeIn(now, o, d, n) = TypeIn(files, o, d, n)
    BY <1>1, <1>2, Zenon DEF TypeIn
  <1>4. UNION {FileIn(now, f, d).ops : f \in Files} = UNION {FileIn(files, f, d).ops : f \in Files}
    BY <1>1
  <1>5. ScanIn(now, o, d) = ScanIn(files, o, d)
    BY <1>3, <1>4, Zenon DEF ScanIn
  <1> QED
    BY <1>5 DEF After

LEMMA SettleStep == SyncInv /\ SdkInv /\ Plain(disk) /\ SettleInv /\ [Next]_vars => SettleInv'
  <1> SUFFICES ASSUME SyncInv, SdkInv, Plain(disk), SettleInv, [Next]_vars PROVE SettleInv'
    OBVIOUS
  <1>0. /\ TypeOK /\ calm \in Nat /\ disk \in [Files -> File]
        /\ Undisturbed /\ MocksMade /\ LeftBehind /\ Begun /\ ScannedAgain /\ Working
    BY ConstantsAssumption DEF SyncInv, TypeOK, SettleInv
  <1>1. ASSUME calm' = 0 PROVE SettleInv'
    BY <1>1 DEF SettleInv, Undisturbed, MocksMade, LeftBehind, Begun, ScannedAgain, Working
  <1>2. ASSUME NEW t \in Truths, Start(t) PROVE SettleInv'
    <2>1. /\ ~ Running /\ pc' = "scan" /\ truth' = t /\ rc' = 0 /\ raced' = FALSE /\ cut' = {}
          /\ calm' = IF t = truth THEN calm + 1 ELSE 1
          /\ spec' = spec /\ disk' = disk /\ order' = order
      BY <1>2 DEF Start
    <2>2. Undisturbed' /\ MocksMade' /\ LeftBehind' /\ ScannedAgain' /\ Working'
      BY <2>1 DEF Undisturbed, MocksMade, LeftBehind, ScannedAgain, Working, Decided
    <2>3. ASSUME calm' >= 2 PROVE spec \in Doc /\ GeneratedIn(disk, spec) /\ pc = "done" /\ spec = merged
      <3>1. calm >= 1
        BY <1>0, <2>1, <2>3
      <3>2. pc = "done" /\ rc = 0 /\ GeneratedIn(disk, merged)
        BY <1>0, <2>1, <3>1 DEF Undisturbed, LeftBehind, Running
      <3>3. spec = merged /\ merged \in Doc
        BY <1>0, <3>1, <3>2 DEF SyncInv, TypeOK, Undisturbed
      <3> QED
        BY <3>2, <3>3
    <2>4. ASSUME calm' >= 3 PROVE SettledIn(disk, t, order, spec)
      <3>1. t = truth /\ calm >= 2 /\ pc = "done" /\ spec = merged
        BY <1>0, <2>1, <2>3, <2>4
      <3>2. read \in Doc /\ scanned = ScanIn(disk, order, read) /\ merged = Merge(truth, scanned, read)
        BY <1>0, <3>1 DEF Working, Decided, SyncInv
      <3>3. merged = After(disk, truth, order, read) /\ order \in ScanOrders
        BY <1>0, <3>2 DEF After, TypeOK
      <3>4. SettledIn(disk, truth, order, merged)
        BY <1>0, <3>2, <3>3, RunSettles
      <3> QED
        BY <3>1, <3>4
    <2>5. Begun'
      BY <2>1, <2>3, <2>4 DEF Begun
    <2> QED
      BY <2>2, <2>5 DEF SettleInv
  <1>3. ASSUME NEW o \in ScanOrders, Scan(o) PROVE SettleInv'
    <2>1. /\ pc = "scan" /\ pc' = "read" /\ order' = o /\ turned' = (o # order)
          /\ scanned' = ScanOf(o)
          /\ UNCHANGED <<spec, disk, truth, rc, raced, cut, calm>>
      BY <1>3 DEF Scan
    <2>2. Undisturbed' /\ MocksMade' /\ LeftBehind' /\ Working'
      BY <1>0, <2>1 DEF Undisturbed, MocksMade, LeftBehind, Working, Decided
    <2>3. ASSUME calm >= 3 PROVE StaysIn(disk, truth, o, o # order, spec)
      BY <1>0, <2>1, <2>3 DEF Begun, SettledIn
    <2>4. Begun'
      BY <1>0, <2>1, <2>3 DEF Begun
    <2>5. calm >= 2 => ScanOf(o) = ScanIn(disk, o, spec)
      BY <1>0, <2>1, ScanAgain DEF Begun
    <2>6. ScannedAgain'
      BY <2>1, <2>5 DEF ScannedAgain
    <2> QED
      BY <2>2, <2>4, <2>6 DEF SettleInv
  <1>4. ASSUME ReadSpec PROVE SettleInv'
    <2>1. /\ pc = "read" /\ pc' = "open_spec" /\ read' = spec
          /\ UNCHANGED <<spec, disk, order, truth, rc, scanned, turned, raced, cut, calm>>
      BY <1>4 DEF ReadSpec, history
    <2> QED
      BY <1>0, <2>1
         DEF SettleInv, Undisturbed, MocksMade, LeftBehind, Begun, ScannedAgain, Working, Decided
  <1>5. ASSUME UNCHANGED <<read, scanned, order, truth, turned, calm>>, Decided, Decided',
               \A f \in CodeFiles : disk'[f] = disk[f]
        PROVE  Begun' /\ ScannedAgain' /\ Working'
    <2>1. calm' >= 2 => /\ read' \in Doc /\ scanned' = ScanIn(disk, order, read)
                        /\ calm' >= 3 => StaysIn(disk, truth, order, turned, read)
      BY <1>0, <1>5 DEF Working
    <2>2. /\ ScanIn(disk', order, read) = ScanIn(disk, order, read)
          /\ StaysIn(disk', truth, order, turned, read) <=> StaysIn(disk, truth, order, turned, read)
      BY <1>5, CodeSame DEF StaysIn
    <2>3. Working'
      BY <1>5, <2>1, <2>2 DEF Working
    <2> QED
      BY <1>5, <2>3 DEF Begun, ScannedAgain, Decided
  <1>6. ASSUME NEW g \in Generated, NEW x, disk' = [disk EXCEPT ![g] = x]
        PROVE  \A f \in CodeFiles : disk'[f] = disk[f]
    BY <1>0, <1>6, ConstantsAssumption DEF Files
  <1>7. ASSUME OpenSpec \/ WriteSpec PROVE SettleInv'
    <2>1. /\ pc \in {"open_spec", "write_spec"} /\ pc' \in {"write_spec", "mocks"}
          /\ UNCHANGED <<disk, order, truth, rc, scanned, read, turned, raced, cut, calm>>
      BY <1>7 DEF OpenSpec, WriteSpec, history
    <2>2. Begun' /\ ScannedAgain' /\ Working'
      BY <1>5, <2>1 DEF Decided
    <2> QED
      BY <1>0, <2>1, <2>2 DEF SettleInv, Undisturbed, MocksMade, LeftBehind
  <1>8. ASSUME WriteMocks PROVE SettleInv'
    <2>1. /\ pc = "mocks" /\ pc' = "open_file" /\ Mocks \in Generated /\ Mocks \in Files
          /\ UNCHANGED <<order, truth, rc, scanned, read, merged, turned, raced, cut, calm>>
      BY <1>8 DEF WriteMocks, history, Generated, Files
    <2>2. Begun' /\ ScannedAgain' /\ Working'
      BY <1>5, <1>6, <1>8, <2>1 DEF WriteMocks, Decided
    <2>3. Mocks \in unflushed' \/ disk'[Mocks] = GeneratedText(Mocks, merged)
      BY <1>0, <1>8, <2>1 DEF WriteMocks
    <2> QED
      BY <1>0, <2>1, <2>2, <2>3 DEF SettleInv, Undisturbed, MocksMade, LeftBehind
  <1>9. ASSUME OpenFile \/ FillFile PROVE SettleInv'
    <2>1. /\ pc \in {"open_file", "fill_file"} /\ pc' \in {"open_file", "fill_file", "return"}
          /\ UNCHANGED <<unflushed, order, truth, rc, scanned, read, merged, turned, raced, cut, calm>>
      BY <1>9 DEF OpenFile, FillFile, NextFile, history
    <2>2. WriteOrder[next] \in Generated /\ WriteOrder[next] # Mocks
      BY <1>0, <2>1, WriteOrderFacts DEF TypeOK
    <2>3. \E x : disk' = [disk EXCEPT ![WriteOrder[next]] = x]
      BY <1>9 DEF OpenFile, FillFile
    <2>4. Begun' /\ ScannedAgain' /\ Working'
      BY <1>5, <1>6, <2>1, <2>2, <2>3 DEF Decided
    <2>5. disk'[Mocks] = disk[Mocks]
      BY <1>0, <2>2, <2>3, WriteOrderFacts DEF Files
    <2> QED
      BY <1>0, <2>1, <2>4, <2>5 DEF SettleInv, Undisturbed, MocksMade, LeftBehind
  <1>10. ASSUME Return PROVE SettleInv'
    <2>1. /\ pc = "return" /\ pc' = "done" /\ Mocks \in Generated /\ Mocks \in Files
          /\ disk' = IF Mocks \in unflushed
                     THEN [disk EXCEPT ![Mocks] = GeneratedText(Mocks, merged)] ELSE disk
          /\ UNCHANGED <<order, truth, rc, scanned, read, merged, turned, raced, cut, calm>>
      BY <1>10 DEF Return, history, Generated, Files
    <2>2. Begun' /\ ScannedAgain' /\ Working'
      BY <1>5, <1>6, <2>1 DEF Decided
    <2>3. ASSUME calm >= 1 PROVE GeneratedIn(disk', merged)
      <3>1. FilledIn(disk, cut, merged, 7) /\ cut = {}
        BY <1>0, <2>1, <2>3, WriteOrderFacts DEF Undisturbed, SdkInv
      <3>2. FilledIn(disk', cut, merged, 7)
        <4>1. CASE Mocks \in unflushed
          <5>1. disk' = [disk EXCEPT ![Mocks] = GeneratedText(Mocks, merged)]
            BY <2>1, <4>1
          <5>2. 7 \in 0..7 /\ \A i \in 1..7 : WriteOrder[i] # Mocks
            BY WriteOrderFacts
          <5>3. cut \subseteq cut
            OBVIOUS
          <5> QED
            BY <1>0, <3>1, <5>1, <5>2, <5>3, FilledStays, Zenon
        <4>2. CASE Mocks \notin unflushed
          BY <2>1, <3>1, <4>2
        <4> QED
          BY <4>1, <4>2
      <3>3. disk'[Mocks] = GeneratedText(Mocks, merged)
        BY <1>0, <2>1, <2>3 DEF MocksMade
      <3>4. \A f \in Generated : f = Mocks \/ \E i \in 1..7 : f = WriteOrder[i]
        BY WriteOrderFacts DEF Generated, SdkFiles
      <3>5. \A i \in 1..7 : disk'[WriteOrder[i]] = GeneratedText(WriteOrder[i], merged)
        BY <3>1, <3>2 DEF FilledIn
      <3> QED
        BY <3>3, <3>4, <3>5 DEF GeneratedIn
    <2>4. LeftBehind'
      BY <2>1, <2>3 DEF LeftBehind
    <2> QED
      BY <1>0, <2>1, <2>2, <2>4 DEF SettleInv, Undisturbed, MocksMade
  <1>11. ASSUME Fault PROVE SettleInv'
    BY <1>1, <1>11
       DEF Fault, ScanFails, OpenSpecFails, SpecCutOff, WriteMocksFails, OpenFileFails,
           FileCutOff, FlushFails, Killed, Fails
  <1>12. ASSUME Developer PROVE SettleInv'
    BY <1>1, <1>12 DEF Developer, EditCode, EditRoute, EditGenerated, EditSpec, SaveSpec, Edit
  <1>13. CASE UNCHANGED vars
    BY <1>0, <1>13 DEF vars, process, history, SettleInv, Undisturbed, MocksMade, LeftBehind,
                       Begun, ScannedAgain, Working, Decided
  <1> QED
    BY <1>2, <1>3, <1>4, <1>7, <1>8, <1>9, <1>10, <1>11, <1>12, <1>13 DEF Next, Step

\* SyncSettles: from the third sync with the same --truth on that nothing came in the
\* way of, a sync keeps the document's info, operations and names of schemas, all of
\* it with --truth spec, and the shape of every schema if the files are found in the
\* order they were found in last; for every set of types, files and helper classes,
\* with back references or without.
THEOREM SyncSettles == Spec => []Settles
  <1>1. Init => Plain(disk) /\ SettleInv /\ SdkInv
    <2>1. Init => SettleInv
      BY DEF Init, SettleInv, Undisturbed, MocksMade, LeftBehind, Begun, ScannedAgain, Working
    <2>2. Init => SdkInv
      BY DEF Init, SdkInv
    <2> QED
      BY <2>1, <2>2, PlainInit
  <1>2. SyncInv /\ SdkInv /\ Plain(disk) /\ SettleInv /\ [Next]_vars
           => SdkInv' /\ Plain(disk)' /\ SettleInv'
    BY SdkInvStep, PlainStep, SettleStep DEF Plain
  <1>3. ASSUME SyncInv, SettleInv PROVE Settles
    <2> SUFFICES ASSUME pc = "done", calm >= 3
                 PROVE  SameNames(truth, before, spec) /\ (~turned => OnlyWrapped(before, spec))
      BY DEF Settles
    <2>1. calm \in Nat /\ Decided
      BY <1>3, ConstantsAssumption DEF SyncInv, TypeOK, Decided
    <2>2. /\ rc = 0 /\ ~ raced /\ cut = {} /\ scanned = ScanIn(disk, order, read)
          /\ StaysIn(disk, truth, order, turned, read)
      BY <1>3, <2>1 DEF SettleInv, Undisturbed, Working
    <2>3. spec = merged /\ merged = Merge(truth, scanned, read) /\ read = before
      BY <1>3, <2>1, <2>2 DEF SyncInv
    <2> QED
      BY <2>2, <2>3 DEF StaysIn, After
  <1> QED
    BY <1>1, <1>2, <1>3, SyncInvariant, PTL DEF Spec
-----------------------------------------------------------------------------
(* The document, for those who share it *)

\* A truncated document that is still being written cannot be read.
Truncated == Underway => spec = Garbage

LEMMA TruncatedStep == SyncInv /\ Truncated /\ [Next]_vars => Truncated'
  <1> SUFFICES ASSUME SyncInv, Truncated, [Next]_vars PROVE Truncated'
    OBVIOUS
  <1>0. pc \notin {"mocks", "open_file", "fill_file", "return"} => unflushed = {}
    BY DEF SyncInv
  <1>1. ASSUME NEW t \in Truths, Start(t) PROVE Truncated'
    BY <1>0, <1>1 DEF Start, Running, Truncated, Underway
  <1>2. ASSUME \/ \E o \in ScanOrders : Scan(o)
               \/ ScanFails \/ ReadSpec
        PROVE Truncated'
    BY <1>0, <1>2 DEF Scan, ScanFails, ReadSpec, Truncated, Underway
  <1>3. ASSUME OpenSpec PROVE Truncated'
    BY <1>3 DEF OpenSpec, Truncated
  <1>4. ASSUME WriteSpec PROVE Truncated'
    BY <1>0, <1>4 DEF WriteSpec, Truncated, Underway
  <1>5. ASSUME SpecCutOff \/ WriteMocks \/ WriteMocksFails PROVE Truncated'
    BY <1>5 DEF SpecCutOff, WriteMocks, WriteMocksFails, Truncated, Underway, Mocks
  <1>6. ASSUME OpenFile \/ FillFile \/ FileCutOff PROVE Truncated'
    BY <1>6 DEF OpenFile, FillFile, FileCutOff, NextFile, Truncated, Underway
  <1>7. ASSUME OpenSpecFails \/ OpenFileFails PROVE Truncated'
    BY <1>7 DEF OpenSpecFails, OpenFileFails, Truncated, Underway
  <1>8. ASSUME Return \/ FlushFails \/ Killed PROVE Truncated'
    BY <1>8 DEF Return, FlushFails, Killed, Truncated, Underway
  <1>9. ASSUME Developer PROVE Truncated'
    <2>1. unflushed' = unflushed /\ (pc' = pc \/ pc' = "idle")
      BY <1>9 DEF Developer, EditCode, EditRoute, EditGenerated, EditSpec, SaveSpec, Edit
    <2>2. spec' = spec \/ pc \in {"idle", "done", "scan", "read", "open_spec"}
      BY <1>9 DEF Developer, EditCode, EditRoute, EditGenerated, EditSpec, SaveSpec
    <2> QED
      BY <1>0, <2>1, <2>2 DEF Truncated, Underway
  <1>10. CASE UNCHANGED vars
    BY <1>10 DEF Truncated, Underway, vars, process
  <1> QED
    BY <1>1, <1>2, <1>3, <1>4, <1>5, <1>6, <1>7, <1>8, <1>9, <1>10 DEF Next, Step, Fault

\* Writing generated files leaves the developer's classes alone.
LEMMA CodeTypesStay ==
    ASSUME TypeOK, \A f \in CodeFiles : disk'[f] = disk[f]
    PROVE  CodeTypes' = CodeTypes
  BY DEF CodeTypes

\* What a run decides on is what SharedDocument lets it decide on.
LEMMA DecisionKeeps ==
    ASSUME SyncInv, ReadSpec
    PROVE  merged' \in Doc /\ Shared!Keeps(spec, merged') /\ code \subseteq Shared!Declared(merged')
  <1>1. scanned \in Doc /\ spec \in Stored /\ code \subseteq Declared(scanned.types)
    BY DEF SyncInv, TypeOK, ReadSpec
  <1>2. merged' = Merge(truth, scanned, spec)
    BY DEF ReadSpec
  <1>3. merged' \in Doc
    BY <1>1, <1>2, MergeIsDoc
  <1>4. code \subseteq Shared!Declared(merged')
    <2>1. Declared(scanned.types) \subseteq Declared(merged'.types)
      BY <1>1, <1>2, MergeKeepsCode
    <2> QED
      BY <1>1, <2>1 DEF Declared, Shared!Declared
  <1>5. Shared!Keeps(spec, merged')
    <2> SUFFICES ASSUME spec \in Doc
                 PROVE  /\ merged'.info = spec.info
                        /\ truth = "spec" =>
                              /\ merged'.ops = spec.ops
                              /\ \A n \in Shared!Declared(spec) : merged'.types[n] = spec.types[n]
      BY DEF Shared!Keeps
    <2>1. Shared!Declared(spec) = Declared(spec.types)
      BY DEF Shared!Declared, Declared
    <2>2. /\ Merge(truth, scanned, spec).info = spec.info
          /\ truth = "spec" =>
                /\ Merge(truth, scanned, spec).ops = spec.ops
                /\ \A n \in Declared(spec.types) :
                       Merge(truth, scanned, spec).types[n] = spec.types[n]
      <3>1. scanned \in Doc /\ spec \in Doc
        BY <1>1
      <3> QED
        BY ONLY <3>1, MergeKeepsDocument, ZenonT(30)
    <2> QED
      BY ONLY <1>2, <2>1, <2>2
  <1> QED
    BY <1>3, <1>4, <1>5

\* What the developer saves is a document or cannot be read.
LEMMA SavedIsReadable == ASSUME TypeOK, EditSpec PROVE spec' \in Doc \cup {Garbage}
  <1>1. CASE SaveSpec(Garbage)
    BY <1>1 DEF SaveSpec
  <1>2. CASE \E i \in Infos : SaveSpec([spec EXCEPT !.info = i])
    BY <1>2 DEF SaveSpec, EditSpec, Doc
  <1>3. ASSUME NEW n \in TypeNames, NEW c \in DocumentContent \union {Absent},
               SaveSpec([spec EXCEPT !.types[n] = c])
        PROVE  spec' \in Doc
    <2>1. c \in Content \union {Absent}
      BY WrittenIsContent DEF DocumentContent
    <2>2. spec \in Doc /\ [spec.types EXCEPT ![n] = c] \in Types
      BY <2>1 DEF EditSpec, Doc, Types
    <2> QED
      BY <1>3, <2>2 DEF SaveSpec, Doc
  <1>4. CASE \E o \in Ops : SaveSpec([spec EXCEPT !.ops = @ \union {o}])
    BY <1>4 DEF SaveSpec, EditSpec, Doc
  <1> QED
    BY <1>1, <1>2, <1>3, <1>4 DEF EditSpec

\* Every step of sync, of a failure and of the developer is a step of
\* SharedDocument, or of no concern to those who share the document.
LEMMA SharedStep ==
    ASSUME SyncInv, Truncated, [Next]_vars
    PROVE  [Shared!Next]_(Shared!vars)
  <1>0. TypeOK /\ (pc \notin {"mocks", "open_file", "fill_file", "return"} => unflushed = {})
    BY DEF SyncInv
  <1>1. ASSUME NEW t \in Truths, Start(t) PROVE Shared!Begin
    <2>1. pc \in {"idle", "done"} /\ pc' = "scan" /\ unflushed = {} /\ unflushed' = {}
      BY <1>0, <1>1 DEF Start, Running
    <2>2. /\ ~ Underway /\ ~ Underway' /\ Phase = "idle" /\ Phase' = "begun" /\ Verdict' = "none"
      BY <2>1 DEF Underway, Phase, Verdict, Replaced
    <2>3. CodeTypes' = CodeTypes
      BY <1>1 DEF Start, CodeTypes
    <2> QED
      BY <1>1, <2>2, <2>3 DEF Start, Shared!Begin
  <1>2. ASSUME (\E o \in ScanOrders : Scan(o)) \/ ScanFails PROVE Shared!Look
    <2>1. pc = "scan" /\ pc' = "read" /\ unflushed = {} /\ unflushed' = {}
      BY <1>0, <1>2 DEF Scan, ScanFails
    <2>2. /\ ~ Underway /\ ~ Underway' /\ Phase = "begun" /\ Phase' = "looked"
          /\ Verdict = "none" /\ Verdict' = "none"
      BY <2>1 DEF Underway, Phase, Verdict, Replaced
    <2>3. CodeTypes' = CodeTypes
      BY <1>2 DEF Scan, ScanFails, CodeTypes
    <2> QED
      BY <1>2, <2>2, <2>3 DEF Scan, ScanFails, Fails, Shared!Look
  <1>3. ASSUME ReadSpec PROVE Shared!Decide
    <2>1. pc = "read" /\ pc' = "open_spec" /\ unflushed = {} /\ unflushed' = {}
      BY <1>0, <1>3 DEF ReadSpec
    <2>2. /\ ~ Underway /\ ~ Underway' /\ Phase = "looked" /\ Phase' = "decided"
          /\ Verdict = "none" /\ Verdict' = "none"
      BY <2>1 DEF Underway, Phase, Verdict, Replaced
    <2>3. CodeTypes' = CodeTypes
      BY <1>3 DEF ReadSpec, CodeTypes
    <2> QED
      BY <1>3, <2>2, <2>3, DecisionKeeps DEF ReadSpec, history, Shared!Decide
  <1>4. ASSUME OpenSpec PROVE Shared!Replace
    <2>1. pc = "open_spec" /\ pc' = "write_spec" /\ unflushed = {} /\ unflushed' = {}
      BY <1>0, <1>4 DEF OpenSpec
    <2>2. /\ ~ Underway /\ Underway' /\ Phase = "decided" /\ Phase' = "replaced"
          /\ Verdict = "none" /\ Verdict' = "none"
      BY <2>1 DEF Underway, Phase, Verdict, Replaced
    <2>3. CodeTypes' = CodeTypes
      BY <1>4 DEF OpenSpec, CodeTypes
    <2> QED
      BY <1>4, <2>2, <2>3 DEF OpenSpec, history, Shared!Replace
  <1>5. ASSUME OpenSpecFails PROVE Shared!Fail
    <2>1. pc = "open_spec" /\ pc' = "return" /\ rc' = 1 /\ unflushed = {} /\ unflushed' = {}
      BY <1>0, <1>5 DEF OpenSpecFails
    <2>2. /\ ~ Underway /\ ~ Underway' /\ Phase = "decided" /\ Phase' = "idle" /\ Verdict' = "failed"
      BY <2>1 DEF Underway, Phase, Verdict, Replaced
    <2>3. CodeTypes' = CodeTypes
      BY <1>5 DEF OpenSpecFails, CodeTypes
    <2> QED
      BY <1>5, <2>2, <2>3 DEF OpenSpecFails, Shared!Fail
  <1>6. ASSUME WriteSpec PROVE UNCHANGED Shared!vars
    <2>1. /\ pc = "write_spec" /\ pc' = "mocks" /\ unflushed = {}
          /\ \/ spec' = merged /\ unflushed' = {}
             \/ unflushed' = {"spec"}
      BY <1>0, <1>6 DEF WriteSpec
    <2>2. /\ Underway /\ (Underway' \/ (~ Underway' /\ spec' = merged))
          /\ Phase = "replaced" /\ Phase' = "replaced" /\ Verdict = "none" /\ Verdict' = "none"
      BY <2>1 DEF Underway, Phase, Verdict, Replaced
    <2>3. CodeTypes' = CodeTypes
      BY <1>6 DEF WriteSpec, CodeTypes
    <2> QED
      BY <1>6, <2>2, <2>3 DEF WriteSpec, history, Shared!vars
  <1>14. ASSUME SpecCutOff PROVE Shared!Lose
    <2>1. /\ pc = "write_spec" /\ pc' = "mocks" /\ unflushed = {} /\ unflushed' = {}
          /\ spec' = spec /\ merged' = merged /\ code' = code /\ truth' = truth
          /\ "spec" \in cut'
      BY <1>0, <1>14 DEF SpecCutOff
    <2>2. /\ Underway /\ ~ Underway' /\ Phase = "replaced" /\ Phase' = "replaced"
          /\ Verdict = "none" /\ Verdict' = "none"
      BY <2>1 DEF Underway, Phase, Verdict, Replaced
    <2>3. spec' = Garbage
      BY <2>1, <2>2 DEF Truncated
    <2>4. CodeTypes' = CodeTypes
      BY <1>14 DEF SpecCutOff, CodeTypes
    <2> QED
      BY <2>1, <2>2, <2>3, <2>4 DEF Shared!Lose, Shared!Lost
  <1>7. ASSUME WriteMocks \/ WriteMocksFails \/ OpenFile
        PROVE  UNCHANGED Shared!vars
    <2>1. /\ pc \in {"mocks", "open_file"} /\ pc' \in {"open_file", "fill_file"}
          /\ "spec" \in unflushed' <=> "spec" \in unflushed
          /\ "spec" \in cut' <=> "spec" \in cut
          /\ spec' = spec /\ merged' = merged /\ code' = code /\ truth' = truth
      BY <1>7 DEF WriteMocks, WriteMocksFails, OpenFile, Mocks, history
    <2>2. /\ Underway' <=> Underway
          /\ Phase = "replaced" /\ Phase' = "replaced" /\ Verdict = "none" /\ Verdict' = "none"
      BY <2>1 DEF Underway, Phase, Verdict, Replaced
    <2>3. \A f \in CodeFiles : disk'[f] = disk[f]
      <3>1. CASE disk' = disk
        BY <3>1
      <3>2. CASE \E f \in Generated : \E text : disk' = [disk EXCEPT ![f] = text]
        BY <1>0, <3>2, ConstantsAssumption DEF TypeOK, Files
      <3>3. pc = "open_file" => WriteOrder[next] \in Generated
        BY <1>0, WriteOrderFacts DEF TypeOK
      <3> QED
        BY <1>7, <3>1, <3>2, <3>3, WriteOrderFacts DEF WriteMocks, WriteMocksFails, OpenFile
    <2>4. CodeTypes' = CodeTypes
      BY <1>0, <2>3, CodeTypesStay
    <2> QED
      BY <2>1, <2>2, <2>4 DEF Shared!vars
  <1>8. ASSUME FillFile \/ FileCutOff PROVE Shared!Succeed \/ UNCHANGED Shared!vars
    <2>1. /\ pc = "fill_file" /\ pc' \in {"open_file", "return"} /\ rc = 0 /\ rc' = 0
          /\ unflushed' = unflushed
          /\ spec' = spec /\ merged' = merged /\ code' = code /\ truth' = truth
      BY <1>8 DEF FillFile, FileCutOff, NextFile, history, SyncInv, Running
    <2>6. "spec" \in cut' <=> "spec" \in cut
      <3>1. WriteOrder[next] # "spec"
        BY <1>0, <2>1, WriteOrderFacts DEF TypeOK, WriteOrder
      <3> QED
        BY <1>8, <3>1 DEF FillFile, FileCutOff, history
    <2>2. \A f \in CodeFiles : disk'[f] = disk[f]
      <3>1. WriteOrder[next] \in Generated
        BY <1>0, <2>1, WriteOrderFacts DEF TypeOK
      <3>2. \E x : disk' = [disk EXCEPT ![WriteOrder[next]] = x]
        BY <1>8 DEF FillFile, FileCutOff
      <3> QED
        BY <1>0, <3>1, <3>2, ConstantsAssumption DEF TypeOK, Files
    <2>3. CodeTypes' = CodeTypes
      BY <1>0, <2>2, CodeTypesStay
    <2>4. CASE pc' = "open_file" \/ "spec" \in unflushed
      <3>1. /\ Underway' <=> Underway
            /\ Phase = "replaced" /\ Phase' = "replaced" /\ Verdict = "none" /\ Verdict' = "none"
        BY <2>1, <2>4 DEF Underway, Phase, Verdict, Replaced
      <3> QED
        BY <2>1, <2>3, <2>6, <3>1 DEF Shared!vars
    <2>5. CASE pc' = "return" /\ "spec" \notin unflushed
      <3>1. /\ ~ Underway /\ ~ Underway'
            /\ Phase = "replaced" /\ Phase' = "idle" /\ Verdict' = "succeeded"
        BY <2>1, <2>5 DEF Underway, Phase, Verdict, Replaced
      <3> QED
        BY <2>1, <2>3, <2>6, <3>1 DEF Shared!Succeed
    <2> QED
      BY <2>1, <2>4, <2>5
  <1>9. ASSUME OpenFileFails PROVE Shared!Fail \/ UNCHANGED Shared!vars
    <2>1. /\ pc = "open_file" /\ pc' = "return" /\ rc' = 1 /\ unflushed' = unflushed
          /\ spec' = spec /\ merged' = merged /\ code' = code /\ truth' = truth /\ cut' = cut
      BY <1>9 DEF OpenFileFails
    <2>2. CodeTypes' = CodeTypes
      BY <1>9 DEF OpenFileFails, CodeTypes
    <2>3. CASE "spec" \in unflushed
      <3>1. /\ Underway /\ Underway'
            /\ Phase = "replaced" /\ Phase' = "replaced" /\ Verdict = "none" /\ Verdict' = "none"
        BY <2>1, <2>3 DEF Underway, Phase, Verdict, Replaced
      <3> QED
        BY <2>1, <2>2, <3>1 DEF Shared!vars
    <2>4. CASE "spec" \notin unflushed
      <3>1. /\ ~ Underway /\ ~ Underway'
            /\ Phase = "replaced" /\ Phase' = "idle" /\ Verdict' = "failed"
        BY <2>1, <2>4 DEF Underway, Phase, Verdict, Replaced
      <3> QED
        BY <2>1, <2>2, <3>1 DEF Shared!Fail
    <2> QED
      BY <2>3, <2>4
  <1>10. ASSUME Return PROVE Shared!Succeed \/ Shared!Fail \/ UNCHANGED Shared!vars
    <2>1. /\ pc = "return" /\ pc' = "done" /\ rc' = rc /\ rc \in {0, 1} /\ unflushed' = {}
          /\ spec' = (IF "spec" \in unflushed THEN merged ELSE spec)
          /\ merged' = merged /\ code' = code /\ truth' = truth /\ cut' = cut
      BY <1>0, <1>10 DEF Return, history, TypeOK
    <2>2. CodeTypes' = CodeTypes
      <3>1. \A f \in CodeFiles : disk'[f] = disk[f]
        BY <1>0, <1>10, WriteOrderFacts DEF Return, TypeOK, Files
      <3> QED
        BY <1>0, <3>1, CodeTypesStay
    <2>3. CASE "spec" \in unflushed
      <3>1. /\ Underway /\ ~ Underway'
            /\ Phase = "replaced" /\ Phase' = "idle"
            /\ Verdict' = (IF rc = 0 THEN "succeeded" ELSE "failed")
        BY <2>1, <2>3 DEF Underway, Phase, Verdict, Replaced
      <3> QED
        BY <2>1, <2>2, <2>3, <3>1 DEF Shared!Succeed, Shared!Fail
    <2>4. CASE "spec" \notin unflushed
      <3>1. /\ ~ Underway /\ ~ Underway' /\ Phase' = Phase /\ Verdict' = Verdict
        BY <2>1, <2>4 DEF Underway, Phase, Verdict, Replaced
      <3> QED
        BY <2>1, <2>2, <2>4, <3>1 DEF Shared!vars
    <2> QED
      BY <2>3, <2>4
  <1>15. ASSUME FlushFails PROVE Shared!Succeed \/ Shared!Fail \/ UNCHANGED Shared!vars
    <2>1. /\ pc = "return" /\ pc' = "done" /\ rc' = rc /\ rc \in {0, 1} /\ unflushed' = {}
          /\ merged' = merged /\ code' = code /\ truth' = truth
      BY <1>0, <1>15 DEF FlushFails, TypeOK
    <2>2. PICK lost \in SUBSET unflushed, part \in PartsOf(GeneratedText(Mocks, merged)) :
            /\ spec' = IF "spec" \in unflushed \ lost THEN merged ELSE spec
            /\ disk' = CASE Mocks \in lost -> [disk EXCEPT ![Mocks] = part]
                         [] Mocks \in unflushed \ lost ->
                               [disk EXCEPT ![Mocks] = GeneratedText(Mocks, merged)]
                         [] OTHER -> disk
            /\ cut' = cut \union lost
      BY <1>15 DEF FlushFails
    <2>3. CodeTypes' = CodeTypes
      <3>1. disk' = disk \/ \E x : disk' = [disk EXCEPT ![Mocks] = x]
        BY <2>2
      <3>2. \A f \in CodeFiles : disk'[f] = disk[f]
        BY <1>0, <3>1, WriteOrderFacts DEF TypeOK, Files
      <3> QED
        BY <1>0, <3>2, CodeTypesStay
    <2>4. CASE "spec" \in unflushed
      <3>1. /\ Underway /\ ~ Underway'
            /\ Phase = "replaced" /\ Phase' = "idle"
            /\ Verdict' = (IF rc = 0 THEN "succeeded" ELSE "failed")
        BY <2>1, <2>4 DEF Underway, Phase, Verdict, Replaced
      <3>2. CASE "spec" \in lost
        <4>1. spec' = Garbage /\ "spec" \in cut'
          BY <2>2, <3>1, <3>2 DEF Truncated
        <4> QED
          BY <2>1, <2>3, <3>1, <4>1 DEF Shared!Succeed, Shared!Fail, Shared!Lost
      <3>3. CASE "spec" \notin lost
        <4>1. spec' = merged /\ ("spec" \in cut' <=> "spec" \in cut)
          BY <2>2, <2>4, <3>3
        <4> QED
          BY <2>1, <2>3, <3>1, <4>1 DEF Shared!Succeed, Shared!Fail
      <3> QED
        BY <3>2, <3>3
    <2>5. CASE "spec" \notin unflushed
      <3>1. /\ ~ Underway /\ ~ Underway' /\ Phase' = Phase /\ Verdict' = Verdict
        BY <2>1, <2>5 DEF Underway, Phase, Verdict, Replaced
      <3>2. spec' = spec /\ ("spec" \in cut' <=> "spec" \in cut)
        BY <2>2, <2>5
      <3> QED
        BY <2>1, <2>3, <3>1, <3>2 DEF Shared!vars
    <2> QED
      BY <2>4, <2>5
  <1>11. ASSUME Killed PROVE Shared!Kill
    <2>1. /\ pc' = "idle" /\ unflushed' = {}
          /\ spec' = spec /\ merged' = merged /\ code' = code /\ truth' = truth /\ cut' = cut
      BY <1>11 DEF Killed
    <2>2. CodeTypes' = CodeTypes
      BY <1>11 DEF Killed, CodeTypes
    <2>3. ~ Underway' /\ Phase' = "idle" /\ Verdict' = "none"
      BY <2>1 DEF Underway, Phase, Verdict, Replaced
    <2>4. CASE Underway
      <3>1. Phase = "replaced" /\ spec = Garbage
        BY <1>0, <2>4 DEF Truncated, Underway, Phase, Replaced
      <3> QED
        BY <2>1, <2>2, <2>3, <2>4, <3>1 DEF Shared!Kill
    <2>5. CASE ~ Underway
      BY <2>1, <2>2, <2>3, <2>5 DEF Shared!Kill
    <2> QED
      BY <2>4, <2>5
  <1>12. ASSUME Developer PROVE Shared!Edit
    <2>1. /\ unflushed' = unflushed /\ rc' = rc /\ merged' = merged /\ code' = code /\ truth' = truth
          /\ cut' = cut
          /\ pc' = pc \/ (pc \in {"idle", "done"} /\ pc' = "idle")
      BY <1>12 DEF Developer, EditCode, EditRoute, EditGenerated, EditSpec, SaveSpec, Edit, Running
    <2>2. /\ Underway' <=> Underway
          /\ Phase' = Phase /\ Verdict' \in {Verdict, "none"}
      BY <1>0, <2>1 DEF Underway, Phase, Verdict, Replaced
    <2>3. CASE spec' = spec
      <3>1. CodeTypes' \in SUBSET TypeNames
        BY DEF CodeTypes
      <3> QED
        BY <2>1, <2>2, <2>3, <3>1 DEF Shared!Edit
    <2>4. CASE spec' # spec
      <3>1. EditSpec
        BY <1>12, <2>4 DEF Developer, EditCode, EditRoute, EditGenerated
      <3>2. pc \in {"idle", "done", "scan", "read", "open_spec"} /\ disk' = disk
        BY <3>1 DEF EditSpec, SaveSpec
      <3>3. spec' \in Doc \cup {Garbage}
        BY <1>0, <3>1, SavedIsReadable
      <3>4. ~ Underway /\ Phase # "replaced" /\ CodeTypes' = CodeTypes
        BY <1>0, <3>2 DEF Underway, Phase, Replaced, CodeTypes
      <3> QED
        BY <2>1, <2>2, <3>3, <3>4 DEF Shared!Edit
    <2> QED
      BY <2>3, <2>4
  <1>13. CASE UNCHANGED vars
    BY <1>13 DEF vars, process, history, Shared!vars, Underway, Phase, Verdict, Replaced, CodeTypes
  <1> QED
    BY <1>1, <1>2, <1>3, <1>4, <1>5, <1>6, <1>7, <1>8, <1>9, <1>10, <1>11, <1>12, <1>13,
       <1>14, <1>15
       DEF Next, Step, Fault, Shared!Next

\* ReplacesAtOnce: for those who share the document a run replaces it at once, by
\* what keeps the document it read and has a schema for each class it scanned, for
\* every set of types, files and scan orders, and whatever fails; a kill after that
\* or a disk that does not take the text loses it, and nothing else does.
THEOREM SyncReplacesAtOnce == Spec => ReplacesAtOnce
  <1>1. Init => Truncated
    BY DEF Init, Truncated, Underway
  <1>2. Init => Shared!Init
    <2> SUFFICES ASSUME Init PROVE Shared!Init
      OBVIOUS
    <2>1. /\ ~ Underway /\ Phase = "idle" /\ Verdict = "none"
      BY DEF Init, Underway, Phase, Verdict, Replaced
    <2>2. CodeTypes = {}
      BY DEF Init, CodeTypes, EmptyFile, NoTypes, Files
    <2>3. spec \in Doc \cup {Absent} /\ merged \in Doc
      BY EmptyDocIsDoc DEF Init
    <2> QED
      BY <2>1, <2>2, <2>3 DEF Init, Shared!Init, Truths
  <1>3. SyncInv /\ Truncated /\ [Next]_vars => [Shared!Next]_(Shared!vars)
    BY SharedStep
  <1> QED
    BY <1>1, <1>2, <1>3, TruncatedStep, SyncInvariant, PTL DEF Spec, ReplacesAtOnce, Shared!Spec

-----------------------------------------------------------------------------
(* The end of a run *)

\* The steps that a run has left at most.
StepsLeft ==
    CASE pc = "scan"       -> 20
      [] pc = "read"       -> 19
      [] pc = "open_spec"  -> 18
      [] pc = "write_spec" -> 17
      [] pc = "mocks"      -> 16
      [] pc = "open_file"  -> 2 * (8 - next) + 1
      [] pc = "fill_file"  -> 2 * (8 - next)
      [] pc = "return"     -> 1
      [] OTHER             -> 0
RunShortens == [][Running => \/ StepsLeft' < StepsLeft
                             \/ Edit /\ StepsLeft' = StepsLeft]_vars

LEMMA StepsLeftIsNat == ASSUME TypeOK PROVE StepsLeft \in 0..20 /\ (Running => StepsLeft > 0)
  <1>1. next \in 0..7 /\ (pc \in {"open_file", "fill_file"} => next \in 1..7)
    BY WriteOrderFacts DEF TypeOK
  <1>2. pc \in {"idle", "scan", "read", "open_spec", "write_spec", "mocks",
               "open_file", "fill_file", "return", "done"}
    BY DEF TypeOK
  <1>3. CASE pc = "open_file"
    BY <1>1, <1>3 DEF StepsLeft
  <1>4. CASE pc = "fill_file"
    BY <1>1, <1>4 DEF StepsLeft
  <1> QED
    BY <1>2, <1>3, <1>4 DEF StepsLeft, Running

\* Whatever a run or a failure does next leaves fewer of at most twenty steps, and
\* only the developer's saves come between two of them: a run that goes on comes to
\* its end, also over files that were cut off.
THEOREM RunsGetShorter == Spec => []TypeOK /\ [](StepsLeft \in 0..20) /\ RunShortens
  <1>1. ASSUME SyncInv, [Next]_vars
        PROVE  [Running => StepsLeft' < StepsLeft \/ (Edit /\ StepsLeft' = StepsLeft)]_vars
    <2> SUFFICES ASSUME Running, Next
                 PROVE  StepsLeft' < StepsLeft \/ (Edit /\ StepsLeft' = StepsLeft)
      BY <1>1
    <2>0. TypeOK /\ next \in 0..7 /\ (pc \in {"open_file", "fill_file"} => next \in 1..7)
      BY <1>1, WriteOrderFacts DEF SyncInv, TypeOK
    <2>1. \A t \in Truths : ~ Start(t)
      BY DEF Start
    <2>2. ASSUME \/ \E o \in ScanOrders : Scan(o)
                 \/ ScanFails \/ ReadSpec \/ OpenSpec \/ OpenSpecFails \/ WriteSpec \/ SpecCutOff
          PROVE  StepsLeft' < StepsLeft
      BY <2>2 DEF Scan, ScanFails, ReadSpec, OpenSpec, OpenSpecFails, WriteSpec, SpecCutOff,
                  StepsLeft
    <2>3. ASSUME WriteMocks \/ WriteMocksFails PROVE StepsLeft' < StepsLeft
      <3>1. pc = "mocks" /\ pc' = "open_file" /\ next' = 1
        BY <2>3 DEF WriteMocks, WriteMocksFails
      <3> QED
        BY <3>1 DEF StepsLeft
    <2>4. ASSUME OpenFile PROVE StepsLeft' < StepsLeft
      <3>1. pc = "open_file" /\ pc' = "fill_file" /\ next' = next
        BY <2>4 DEF OpenFile
      <3> QED
        BY <2>0, <3>1 DEF StepsLeft
    <2>5. ASSUME OpenFileFails PROVE StepsLeft' < StepsLeft
      <3>1. pc = "open_file" /\ pc' = "return"
        BY <2>5 DEF OpenFileFails
      <3> QED
        BY <2>0, <3>1 DEF StepsLeft
    <2>6. ASSUME FillFile \/ FileCutOff PROVE StepsLeft' < StepsLeft
      <3>1. /\ pc = "fill_file"
            /\ (pc' = "open_file" /\ next' = next + 1) \/ pc' = "return"
        BY <2>6 DEF FillFile, FileCutOff, NextFile
      <3> QED
        BY <2>0, <3>1 DEF StepsLeft
    <2>7. ASSUME Return \/ FlushFails PROVE StepsLeft' < StepsLeft
      BY <2>7 DEF Return, FlushFails, StepsLeft
    <2>8. ASSUME Killed PROVE StepsLeft' < StepsLeft
      <3>1. pc' = "idle" /\ StepsLeft' = 0
        BY <2>8 DEF Killed, StepsLeft
      <3> QED
        BY <2>0, <3>1, StepsLeftIsNat
    <2>9. ASSUME Developer PROVE Edit /\ StepsLeft' = StepsLeft
      <3>1. Edit
        BY <2>9 DEF Developer, EditCode, EditRoute, EditGenerated, EditSpec, SaveSpec
      <3>2. pc' = pc /\ next' = next
        BY <3>1 DEF Edit
      <3> QED
        BY <3>1, <3>2 DEF StepsLeft
    <2> QED
      BY <2>1, <2>2, <2>3, <2>4, <2>5, <2>6, <2>7, <2>8, <2>9 DEF Next, Step, Fault
  <1>2. SyncInv => TypeOK /\ StepsLeft \in 0..20
    BY StepsLeftIsNat DEF SyncInv
  <1> QED
    BY <1>1, <1>2, SyncInvariant, PTL DEF Spec, RunShortens
==============================================================================
