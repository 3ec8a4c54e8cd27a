------------------------- MODULE RegularTableProofs -------------------------
(***************************************************************************)
(* Proofs about RegularTable, for any texts, any number of editors and     *)
(* lists of any length.                                                    *)
(*                                                                         *)
(* That an editor changes only the rule it has shown needs two facts about *)
(* the state: the list is on disk when no handler runs, as a start reads it *)
(* back (FileKept), and what a save has missed is still missing when its   *)
(* message box is closed (Missing).                                        *)
(***************************************************************************)
EXTENDS RegularTable, WellFoundedInduction, SequenceTheorems, TLAPS

\* While the box is open nobody puts the rule back that the save has not found.
Missing == at = "saveBox" => \A i \in DOMAIN regular : regular[i] # mRegular[serving]

IInv == TypeOK /\ FileKept /\ Missing

-----------------------------------------------------------------------------
(* Lists *)

LEMMA LeastOf ==
    ASSUME NEW T, T \subseteq Nat, T # {}
    PROVE  \E m \in T : \A n \in T : m <= n
<1> DEFINE R == {p \in Nat \X Nat : p[1] < p[2]}
<1>1. IsWellFoundedOn(R, Nat)
  BY NatLessThanWellFounded DEF OpToRel
<1>2. \A p : p \in R <=> p \in Nat \X Nat /\ p[1] < p[2]
  OBVIOUS
<1> HIDE DEF R
<1>3. \E m \in T : \A n \in T : ~(<<n, m>> \in R)
  BY <1>1, WFMin
<1>4. PICK m \in T : \A n \in T : ~(<<n, m>> \in R)
  BY <1>3
<1>5. ASSUME NEW n \in T PROVE m <= n
  <2>1. m \in Nat /\ n \in Nat
    OBVIOUS
  <2>2. <<n, m>> \in Nat \X Nat /\ <<n, m>>[1] = n /\ <<n, m>>[2] = m
    BY <2>1
  <2>3. ~(n < m)
    BY <2>2, <1>2, <1>4
  <2>4. QED
    BY <2>1, <2>3
<1>6. QED
  BY <1>5

\* The loop of saveRegular and deleteRegular finds the first rule that equals the
\* old one, and stops without one only if there is none.
LEMMA IndexFound ==
    ASSUME regular \in Seq(Rules), NEW old, IndexOf(old) # 0
    PROVE  IndexOf(old) \in 1..Len(regular) /\ Table!First(old, IndexOf(old))
<1> DEFINE Found == {i \in 1..Len(regular) : regular[i] = old}
<1>1. IndexOf(old) = IF Found # {} THEN Min(Found) ELSE 0
  BY DEF IndexOf, SelectInSeq
<1>2. Found \subseteq Nat /\ Found # {}
  BY <1>1
<1>3. \E m \in Found : \A n \in Found : m <= n
  <2> HIDE DEF Found
  <2>1. QED
    BY <1>2, LeastOf
<1>4. /\ IndexOf(old) \in Found
      /\ \A n \in Found : IndexOf(old) <= n
  BY <1>1, <1>2, <1>3 DEF Min
<1>5. \A j \in 1..(IndexOf(old) - 1) : regular[j] # old
  BY <1>4
<1>6. QED
  BY <1>4, <1>5 DEF Table!First

LEMMA IndexMissed ==
    ASSUME regular \in Seq(Rules), NEW old, IndexOf(old) = 0
    PROVE  \A i \in DOMAIN regular : regular[i] # old
<1> DEFINE Found == {i \in 1..Len(regular) : regular[i] = old}
<1>1. IndexOf(old) = IF Found # {} THEN Min(Found) ELSE 0
  BY DEF IndexOf, SelectInSeq
<1>2. SUFFICES ASSUME Found # {} PROVE FALSE
  OBVIOUS
<1>3. Found \subseteq Nat
  OBVIOUS
<1>4. \E m \in Found : \A n \in Found : m <= n
  <2> HIDE DEF Found
  <2>1. QED
    BY <1>2, <1>3, LeastOf
<1>5. Min(Found) \in Found
  BY <1>4 DEF Min
<1>6. QED
  BY <1>1, <1>2, <1>5

LEMMA RemoveAtType ==
    ASSUME NEW S, NEW s \in Seq(S), NEW k \in 1..Len(s)
    PROVE  RemoveAt(s, k) \in Seq(S)
<1>1. SubSeq(s, 1, k - 1) \in Seq(S) /\ SubSeq(s, k + 1, Len(s)) \in Seq(S)
  OBVIOUS
<1>2. QED
  BY <1>1, ConcatProperties DEF RemoveAt

LEMMA TypedAreRules == Typed \subseteq Rules /\ \A rule \in Rules : Shown(rule) \in Typed
BY DEF Typed, Rules, Shown

-----------------------------------------------------------------------------
(* The invariant *)

LEMMA InitInv == Init => IInv
BY FilesAssumption, BoundsAssumption DEF Init, IInv, TypeOK, FileKept, Missing, Labels

\* Every handler leaves lists of rules behind.
LEMMA SaveType ==
    ASSUME TypeOK, NEW e \in Editors, Save(e)
    PROVE  regular' \in Seq(Rules)
<1>1. PICK new \in Typed : regular' = Append(RemoveAt(regular, IndexOf(mRegular[e])), new)
  BY DEF Save
<1>2. IndexOf(mRegular[e]) \in 1..Len(regular)
  BY IndexFound DEF TypeOK, Save
<1>3. RemoveAt(regular, IndexOf(mRegular[e])) \in Seq(Rules)
  BY <1>2, RemoveAtType DEF TypeOK
<1>4. new \in Rules
  BY TypedAreRules
<1>5. QED
  BY <1>1, <1>3, <1>4

LEMMA DeleteType ==
    ASSUME TypeOK, NEW e \in Editors, Delete(e)
    PROVE  regular' \in Seq(Rules)
<1>1. IndexOf(mRegular[e]) \in 1..Len(regular)
  BY IndexFound DEF TypeOK, Delete
<1>2. QED
  BY <1>1, RemoveAtType DEF TypeOK, Delete

LEMMA StepInv == IInv /\ [Next]_vars => IInv'
<1> SUFFICES ASSUME IInv, [Next]_vars PROVE IInv'
  OBVIOUS
<1> USE DEF IInv
<1>1. ASSUME NEW e \in Editors, OpenRow(e) PROVE IInv'
  <2>1. PICK i \in 1..Len(rows) : mRegular' = [mRegular EXCEPT ![e] = Shown(rows[i])]
    BY <1>1 DEF OpenRow
  <2>2. Shown(rows[i]) \in Rules
    BY TypedAreRules DEF TypeOK
  <2>3. QED
    BY <1>1, <2>1, <2>2 DEF OpenRow, TypeOK, FileKept, Missing
<1>2. ASSUME NEW e \in Editors, OpenNew(e) PROVE IInv'
  BY <1>2 DEF OpenNew, TypeOK, FileKept, Missing
<1>3. ASSUME NEW e \in Editors, Cancel(e) PROVE IInv'
  BY <1>3 DEF Cancel, Clicked, TypeOK, FileKept, Missing
<1>4. ASSUME NEW e \in Editors, Save(e) PROVE IInv'
  BY <1>4, SaveType DEF Save, Goes, TypeOK, Labels, FileKept, Missing
<1>5. ASSUME NEW e \in Editors, SaveNew(e) PROVE IInv'
  <2>1. regular' \in Seq(Rules)
    BY <1>5, TypedAreRules DEF SaveNew, TypeOK
  <2>2. QED
    BY <1>5, <2>1 DEF SaveNew, Goes, TypeOK, Labels, FileKept, Missing
<1>6. ASSUME NEW e \in Editors, SaveMissed(e) PROVE IInv'
  <2>1. TypeOK' /\ FileKept'
    BY <1>6 DEF SaveMissed, Goes, TypeOK, Labels, FileKept
  <2>2. \A i \in DOMAIN regular : regular[i] # mRegular[e]
    BY <1>6, IndexMissed DEF SaveMissed, TypeOK
  <2>3. Missing'
    BY <1>6, <2>2 DEF SaveMissed, Goes, Missing
  <2>4. QED
    BY <2>1, <2>3
<1>7. ASSUME NEW e \in Editors, Delete(e) PROVE IInv'
  BY <1>7, DeleteType DEF Delete, Goes, TypeOK, Labels, FileKept, Missing
<1>8. ASSUME NEW e \in Editors, DeleteMissed(e) PROVE IInv'
  BY <1>8 DEF DeleteMissed, Goes, TypeOK, Labels, FileKept, Missing
<1>9. CASE CloseSaveBox
  <2>1. regular' \in Seq(Rules)
    BY <1>9, TypedAreRules DEF CloseSaveBox, TypeOK
  <2>2. QED
    BY <1>9, <2>1 DEF CloseSaveBox, Goes, TypeOK, Labels, FileKept, Missing
<1>10. CASE CloseDeleteBox
  BY <1>10 DEF CloseDeleteBox, Goes, TypeOK, Labels, FileKept, Missing
<1>11. CASE OpenFile
  BY <1>11 DEF OpenFile, Goes, TypeOK, Labels, FileKept, Missing
<1>12. CASE CloseFile
  BY <1>12 DEF CloseFile, TypeOK, Labels, FileKept, Missing
<1>13. CASE Tick
  BY <1>13 DEF Tick, editors, TypeOK, FileKept, Missing
<1>14. CASE Restart
  BY <1>14, BoundsAssumption DEF Restart, TypeOK, Labels, FileKept, Missing
<1>15. CASE UNCHANGED vars
  BY <1>15 DEF vars, editors, TypeOK, FileKept, Missing
<1>16. QED
  BY <1>1, <1>2, <1>3, <1>4, <1>5, <1>6, <1>7, <1>8, <1>9, <1>10, <1>11, <1>12,
     <1>13, <1>14, <1>15 DEF Next, EditorStep

\* The invariant that the theorems below rest on: when no handler runs the file is the list,
\* and what a save has missed is still missing when its box is closed.
THEOREM Invariance == Spec => []IInv
BY InitInv, StepInv, PTL DEF Spec

\* Every variable keeps its type: in particular the rules, the rows and the file
\* hold rules and nothing else, whatever the editors do.
THEOREM TypeCorrect == Spec => []TypeOK
<1>1. IInv => TypeOK
  BY DEF IInv
<1>2. QED
  BY <1>1, Invariance, PTL

\* Whenever no handler runs, data/regular.yml holds g_regular: each way through
\* saveRegular and deleteRegular that changes the list ends in writing it.
THEOREM FileIsKept == Spec => []FileKept
<1>1. IInv => FileKept
  BY DEF IInv
<1>2. QED
  BY <1>1, Invariance, PTL

-----------------------------------------------------------------------------
(* Refinement *)

LEMMA SimulateInit == Init => Table!Init
BY FilesAssumption DEF Init, Table!Init

LEMMA SimulateStep == IInv /\ [Next]_vars => [Table!Next]_(Table!vars)
<1> SUFFICES ASSUME IInv, [Next]_vars PROVE [Table!Next]_(Table!vars)
  OBVIOUS
<1>1. ASSUME NEW e \in Editors, OpenRow(e) PROVE Table!Next
  <2>1. PICK i \in 1..Len(rows) : mRegular' = [mRegular EXCEPT ![e] = Shown(rows[i])]
    BY <1>1 DEF OpenRow
  <2>2. Shown(rows[i]) \in Rules
    BY TypedAreRules DEF IInv, TypeOK
  <2>3. Table!Open(e, Shown(rows[i]))
    BY <1>1, <2>1 DEF OpenRow, Table!Open
  <2>4. QED
    BY <2>2, <2>3 DEF Table!Next
<1>2. ASSUME NEW e \in Editors, OpenNew(e) PROVE Table!Next
  <2>1. Table!Open(e, New)
    BY <1>2 DEF OpenNew, Table!Open
  <2>2. QED
    BY <2>1 DEF Table!Next
<1>3. ASSUME NEW e \in Editors, Cancel(e) PROVE Table!Next
  <2>1. Table!Open(e, Closed)
    BY <1>3 DEF Cancel, Table!Open
  <2>2. QED
    BY <2>1 DEF Table!Next
<1>4. ASSUME NEW e \in Editors, Save(e) PROVE Table!Next
  <2>1. PICK new \in Typed : regular' = Append(RemoveAt(regular, IndexOf(mRegular[e])), new)
    BY <1>4 DEF Save
  <2>2. /\ IndexOf(mRegular[e]) \in DOMAIN regular
        /\ Table!First(mRegular[e], IndexOf(mRegular[e]))
    BY <1>4, IndexFound DEF Save, IInv, TypeOK
  <2>3. Table!Replace(e, new)
    <3>1. \E k \in DOMAIN regular :
             Table!First(mRegular[e], k) /\ regular' = Append(RemoveAt(regular, k), new)
      BY <2>1, <2>2
    <3>2. QED
      BY <1>4, <3>1 DEF Save, Goes, Table!Replace, Table!RemoveAt, RemoveAt
  <2>4. new \in Rules
    BY TypedAreRules
  <2>5. QED
    BY <2>3, <2>4 DEF Table!Next
<1>5. ASSUME NEW e \in Editors, SaveNew(e) PROVE Table!Next
  <2>1. PICK new \in Typed : regular' = Append(regular, new)
    BY <1>5 DEF SaveNew
  <2>2. \A i \in DOMAIN regular : regular[i] # mRegular[e]
    BY <1>5, EditorsAssumption DEF SaveNew, IInv, TypeOK
  <2>3. Table!Add(e, new)
    BY <1>5, <2>1, <2>2 DEF SaveNew, Goes, Table!Add
  <2>4. new \in Rules
    BY TypedAreRules
  <2>5. QED
    BY <2>3, <2>4 DEF Table!Next
<1>6. ASSUME NEW e \in Editors, SaveMissed(e) PROVE Table!Next
  <2>1. \A i \in DOMAIN regular : regular[i] # mRegular[e]
    BY <1>6, IndexMissed DEF SaveMissed, IInv, TypeOK
  <2>2. Table!Miss(e)
    BY <1>6, <2>1 DEF SaveMissed, Goes, Table!Miss
  <2>3. QED
    BY <2>2 DEF Table!Next
<1>7. ASSUME NEW e \in Editors, Delete(e) PROVE Table!Next
  <2>1. /\ IndexOf(mRegular[e]) \in DOMAIN regular
        /\ Table!First(mRegular[e], IndexOf(mRegular[e]))
    BY <1>7, IndexFound DEF Delete, IInv, TypeOK
  <2>2. Table!Delete(e)
    <3>1. \E k \in DOMAIN regular :
             Table!First(mRegular[e], k) /\ regular' = RemoveAt(regular, k)
      BY <1>7, <2>1 DEF Delete
    <3>2. QED
      BY <1>7, <3>1 DEF Delete, Goes, Table!Delete, Table!RemoveAt, RemoveAt
  <2>3. QED
    BY <2>2 DEF Table!Next
<1>8. ASSUME NEW e \in Editors, DeleteMissed(e) PROVE Table!Next
  <2>1. \A i \in DOMAIN regular : regular[i] # mRegular[e]
    BY <1>8, IndexMissed DEF DeleteMissed, IInv, TypeOK
  <2>2. Table!Miss(e)
    BY <1>8, <2>1 DEF DeleteMissed, Goes, Table!Miss
  <2>3. QED
    BY <2>2 DEF Table!Next
<1>9. ASSUME CloseSaveBox PROVE Table!Next
  <2>1. PICK new \in Typed : regular' = Append(regular, new)
    BY <1>9 DEF CloseSaveBox
  <2>2. serving \in Editors /\ \A i \in DOMAIN regular : regular[i] # mRegular[serving]
    BY <1>9 DEF CloseSaveBox, IInv, TypeOK, Missing
  <2>3. Table!Add(serving, new)
    BY <1>9, <2>1, <2>2 DEF CloseSaveBox, Goes, Table!Add
  <2>4. new \in Rules
    BY TypedAreRules
  <2>5. QED
    BY <2>2, <2>3, <2>4 DEF Table!Next
<1>10. ASSUME CloseDeleteBox PROVE UNCHANGED Table!vars
  BY <1>10 DEF CloseDeleteBox, Goes, Table!vars
<1>11. ASSUME OpenFile PROVE UNCHANGED Table!vars
  BY <1>11 DEF OpenFile, Goes, Table!vars
<1>12. ASSUME CloseFile PROVE Table!Next
  <2>1. serving \in Editors /\ Table!Return(serving)
    BY <1>12 DEF CloseFile, IInv, TypeOK, Table!Return
  <2>2. QED
    BY <2>1 DEF Table!Next
<1>13. ASSUME Tick PROVE UNCHANGED Table!vars
  BY <1>13 DEF Tick, editors, Table!vars
<1>14. ASSUME Restart PROVE Table!Next
  <2>1. at # "idle" \/ UNCHANGED regular
    BY <1>14 DEF Restart, IInv, FileKept
  <2>2. regular' \in Seq(Rules)
    BY <1>14 DEF Restart, IInv, TypeOK
  <2>3. Table!Restart
    BY <1>14, <2>1, <2>2 DEF Restart, Table!Restart
  <2>4. QED
    BY <2>3 DEF Table!Next
<1>15. ASSUME UNCHANGED vars PROVE UNCHANGED Table!vars
  BY <1>15 DEF vars, editors, Table!vars
<1>16. QED
  BY <1>1, <1>2, <1>3, <1>4, <1>5, <1>6, <1>7, <1>8, <1>9, <1>10, <1>11, <1>12,
     <1>13, <1>14, <1>15 DEF Next, EditorStep

\* The editors implement RuleTable: each save and each deletion takes away the rule
\* the editor was opened with, the first of its kind, or tells that it is gone, and
\* a start finds the list as it was unless a handler was cut short.
THEOREM Implements == Spec => KeepsTable
<1>1. IInv /\ [Next]_vars => [Table!Next]_(Table!vars)
  BY SimulateStep
<1>2. QED
  BY <1>1, Invariance, SimulateInit, PTL DEF Spec, KeepsTable, Table!Spec

=============================================================================
