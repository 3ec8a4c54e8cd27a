---------------------------- MODULE RegularTable ----------------------------
(***************************************************************************)
(* The rules of the program, g_regular, the table of the main window that  *)
(* shows them, the editors that change them (src/src/regular_edit.cpp) and *)
(* their copy on disk, data/regular.yml.                                   *)
(*                                                                         *)
(* Everything here runs on the GUI thread.  Several editors may be open:   *)
(* each keeps the rule it was opened with, as the table showed it then.    *)
(* The table is filled once a second, also while a message box is open.    *)
(***************************************************************************)
EXTENDS Naturals, Sequences, SequencesExt

CONSTANTS
    Texts,          \* a rule without its origin: pattern, action and permission
    Editors,        \* editor windows
    New, Closed,    \* an editor for a new rule, one that is not open
    InitialFiles,   \* what data/regular.yml may hold at first
    MaxRules,       \* bound: no editor is saved that would exceed it
    MaxRestarts     \* bound: how often the program is ended and started again

\* Group messages accept any case of "group", the file holds what somebody wrote.
Rules == [text : Texts, from : {"group", "console", "Group"}]

ASSUME EditorsAssumption == New \notin Rules /\ Closed \notin Rules /\ New # Closed
ASSUME FilesAssumption == InitialFiles \subseteq Seq(Rules)
ASSUME BoundsAssumption == MaxRules \in Nat /\ MaxRestarts \in Nat

VARIABLES
    regular,    \* g_regular.raw()
    file,       \* data/regular.yml
    rows,       \* the rows of the table
    mRegular,   \* of each editor: its rule, New, or Closed
    at,         \* where the handler of an editor is
    serving,    \* whose handler it is, if any
    restarts

editors == <<mRegular, at, serving>>
vars == <<regular, file, rows, editors, restarts>>

Labels == {"idle", "saveBox", "deleteBox", "open", "close"}

TypeOK ==
    /\ regular \in Seq(Rules) /\ file \in Seq(Rules) /\ rows \in Seq(Rules)
    /\ mRegular \in [Editors -> Rules \cup {New, Closed}]
    /\ at \in Labels
    /\ IF at = "idle" THEN serving = Closed ELSE serving \in Editors
    /\ restarts \in 0..MaxRestarts

Init ==
    /\ file \in InitialFiles
    /\ regular = file /\ rows = file
    /\ mRegular = [e \in Editors |-> Closed]
    /\ at = "idle" /\ serving = Closed
    /\ restarts = 0

-----------------------------------------------------------------------------

\* What the editor makes of a row: from is "group" or "console".
Shown(rule) ==
    [rule EXCEPT !.from = IF rule.from \in {"group", "Group"} THEN "group" ELSE "console"]

\* What can be typed into an editor.
Typed == [text : Texts, from : {"group", "console"}]

\* The first rule that equals old, 0 if there is none.
IndexOf(old) == SelectInSeq(regular, LAMBDA rule : rule = old)

\* The handler of editor e goes on at label.
Goes(e, label) == at' = label /\ serving' = e

\* A click into editor e; a message box would keep it from there.
Clicked(e) == at = "idle" /\ mRegular[e] # Closed

-----------------------------------------------------------------------------
(* Faulty variants of some steps below, one plausible slip each; nothing uses *)
(* them: put in place of the step they are named after, they break a property. *)

\* saveRegular appends the edited rule and leaves the old one.
SaveBesides(e) ==
    /\ Clicked(e) /\ mRegular[e] # New
    /\ IndexOf(mRegular[e]) # 0
    /\ Len(regular) < MaxRules
    /\ \E new \in Typed : regular' = Append(regular, new)
    /\ Goes(e, "open")
    /\ UNCHANGED <<file, rows, mRegular, restarts>>

\* doubleClickedRegularTable takes the columns in the order of setRegular.
OpenSwapped(e) ==
    /\ at = "idle" /\ mRegular[e] = Closed
    /\ \E i \in 1..Len(rows) :
          mRegular' = [mRegular EXCEPT ![e] = [text |-> rows[i].from, from |-> rows[i].text]]
    /\ UNCHANGED <<regular, file, rows, at, serving, restarts>>

\* updateRegularData fills the rows that are there already.
TickKeepsRows ==
    /\ at \in {"idle", "saveBox", "deleteBox"}
    /\ rows' = IF Len(rows) = Len(regular) THEN regular ELSE rows
    /\ UNCHANGED <<regular, file, editors, restarts>>

-----------------------------------------------------------------------------
(* The table *)

\* updateRegularData, from slotTimerFunc.
Tick ==
    /\ at \in {"idle", "saveBox", "deleteBox"}
    /\ rows' = regular
    /\ UNCHANGED <<regular, file, editors, restarts>>

\* doubleClickedRegularTable
OpenRow(e) ==
    /\ at = "idle" /\ mRegular[e] = Closed
    /\ \E i \in 1..Len(rows) :
          mRegular' = [mRegular EXCEPT ![e] = Shown(rows[i])]
    /\ UNCHANGED <<regular, file, rows, at, serving, restarts>>

\* newRegular
OpenNew(e) ==
    /\ at = "idle" /\ mRegular[e] = Closed
    /\ mRegular' = [mRegular EXCEPT ![e] = New]
    /\ UNCHANGED <<regular, file, rows, at, serving, restarts>>

-----------------------------------------------------------------------------
(* An editor *)

Cancel(e) ==
    /\ Clicked(e)
    /\ mRegular' = [mRegular EXCEPT ![e] = Closed]
    /\ UNCHANGED <<regular, file, rows, at, serving, restarts>>

\* saveRegular of a rule that is still there: gone from its place, and at the end.
Save(e) ==
    /\ Clicked(e) /\ mRegular[e] # New
    /\ IndexOf(mRegular[e]) # 0
    /\ \E new \in Typed :
          regular' = Append(RemoveAt(regular, IndexOf(mRegular[e])), new)
    /\ Goes(e, "open")
    /\ UNCHANGED <<file, rows, mRegular, restarts>>

SaveNew(e) ==
    /\ Clicked(e) /\ mRegular[e] = New
    /\ Len(regular) < MaxRules
    /\ \E new \in Typed : regular' = Append(regular, new)
    /\ Goes(e, "open")
    /\ UNCHANGED <<file, rows, mRegular, restarts>>

\* "无法正常删除原正则" (cannot delete the old rule), a message box says, ...
SaveMissed(e) ==
    /\ Clicked(e) /\ mRegular[e] # New
    /\ IndexOf(mRegular[e]) = 0
    /\ Len(regular) < MaxRules
    /\ Goes(e, "saveBox")
    /\ UNCHANGED <<regular, file, rows, mRegular, restarts>>

\* ... and afterwards the edited rule is added all the same.
CloseSaveBox ==
    /\ at = "saveBox"
    /\ \E new \in Typed : regular' = Append(regular, new)
    /\ Goes(serving, "open")
    /\ UNCHANGED <<file, rows, mRegular, restarts>>

\* deleteRegular; its button is disabled for a new rule.
Delete(e) ==
    /\ Clicked(e) /\ mRegular[e] # New
    /\ IndexOf(mRegular[e]) # 0
    /\ regular' = RemoveAt(regular, IndexOf(mRegular[e]))
    /\ Goes(e, "open")
    /\ UNCHANGED <<file, rows, mRegular, restarts>>

DeleteMissed(e) ==
    /\ Clicked(e) /\ mRegular[e] # New
    /\ IndexOf(mRegular[e]) = 0
    /\ Goes(e, "deleteBox")
    /\ UNCHANGED <<regular, file, rows, mRegular, restarts>>

CloseDeleteBox ==
    /\ at = "deleteBox"
    /\ Goes(serving, "open")
    /\ UNCHANGED <<regular, file, rows, mRegular, restarts>>

\* Both write the file anew, which opening it has emptied, ...
OpenFile ==
    /\ at = "open"
    /\ file' = <<>>
    /\ Goes(serving, "close")
    /\ UNCHANGED <<regular, rows, mRegular, restarts>>

\* ... and close the editor.
CloseFile ==
    /\ at = "close"
    /\ file' = regular
    /\ mRegular' = [mRegular EXCEPT ![serving] = Closed]
    /\ at' = "idle" /\ serving' = Closed
    /\ UNCHANGED <<regular, rows, restarts>>

\* The program ends, at any point, and InitConfig reads the file again.
Restart ==
    /\ restarts < MaxRestarts
    /\ restarts' = restarts + 1
    /\ regular' = file /\ rows' = file
    /\ mRegular' = [e \in Editors |-> Closed]
    /\ at' = "idle" /\ serving' = Closed
    /\ UNCHANGED file

-----------------------------------------------------------------------------

EditorStep(e) ==
    \/ OpenRow(e) \/ OpenNew(e) \/ Cancel(e)
    \/ Save(e) \/ SaveNew(e) \/ SaveMissed(e) \/ Delete(e) \/ DeleteMissed(e)

Next ==
    \/ \E e \in Editors : EditorStep(e)
    \/ CloseSaveBox \/ CloseDeleteBox \/ OpenFile \/ CloseFile
    \/ Tick \/ Restart

\* The timer of the window is served when the event loop runs, however often other
\* handlers keep it from that; handlers go on by themselves.
Fairness == SF_vars(Tick) /\ WF_vars(OpenFile \/ CloseFile)

Spec == Init /\ [][Next]_vars
FairSpec == Spec /\ Fairness

-----------------------------------------------------------------------------
(* Properties *)

\* A restart between two saves finds the rules as they were.
FileKept == at = "idle" => file = regular

\* The editors implement the list their users imagine: each removes the rule it has
\* shown and no other, from whatever row and however late, or tells that it is gone.
Table == INSTANCE RuleTable WITH
    table <- regular, shows <- mRegular, busy <- at # "idle"

KeepsTable == Table!Spec

\* Every change is shown: the table does not stay behind the rules.
RowsFollow == []<>(rows = regular)

=============================================================================
