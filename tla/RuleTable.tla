----------------------------- MODULE RuleTable -----------------------------
(***************************************************************************)
(* What the user of the rule editors expects: a list of rules in the order *)
(* in which they apply.  An editor replaces or deletes one rule, the one it *)
(* has shown, and tells if that is gone; the next start of the program     *)
(* finds the list again.                                                   *)
(***************************************************************************)
EXTENDS Naturals, Sequences, SequencesExt

CONSTANTS Rules, Editors, New, Closed

VARIABLES
    table,   \* the rules
    shows,   \* what each editor shows: a rule, New, or Closed if it is not open
    busy     \* a save or deletion has begun and not ended

vars == <<table, shows, busy>>

Init ==
    /\ table \in Seq(Rules)
    /\ shows = [e \in Editors |-> Closed]
    /\ busy = FALSE

\* i is the place of the first rule that equals old.
First(old, i) ==
    /\ i \in DOMAIN table /\ table[i] = old
    /\ \A j \in 1..(i - 1) : table[j] # old

Open(e, rule) ==
    /\ shows' = [shows EXCEPT ![e] = rule]
    /\ UNCHANGED <<table, busy>>

\* A save puts the edited rule last.
Replace(e, new) ==
    /\ \E i \in DOMAIN table :
          First(shows[e], i) /\ table' = Append(RemoveAt(table, i), new)
    /\ busy' = TRUE
    /\ UNCHANGED shows

Delete(e) ==
    /\ \E i \in DOMAIN table : First(shows[e], i) /\ table' = RemoveAt(table, i)
    /\ busy' = TRUE
    /\ UNCHANGED shows

\* A new rule, or one whose old form is not in the list any more.
Add(e, new) ==
    /\ \A i \in DOMAIN table : table[i] # shows[e]
    /\ table' = Append(table, new)
    /\ busy' = TRUE
    /\ UNCHANGED shows

\* The user is told that the rule is gone.
Miss(e) ==
    /\ \A i \in DOMAIN table : table[i] # shows[e]
    /\ busy' = TRUE
    /\ UNCHANGED <<table, shows>>

Return(e) ==
    /\ shows' = [shows EXCEPT ![e] = Closed]
    /\ busy' = FALSE
    /\ UNCHANGED table

\* The program ends and is started again: only a save or deletion under way can
\* cost rules, or be undone.
Restart ==
    /\ busy \/ UNCHANGED table
    /\ table' \in Seq(Rules)
    /\ shows' = [e \in Editors |-> Closed]
    /\ busy' = FALSE

Next ==
    \/ \E e \in Editors :
          \/ \E rule \in Rules \cup {New, Closed} : Open(e, rule)
          \/ \E new \in Rules : Replace(e, new) \/ Add(e, new)
          \/ Delete(e) \/ Miss(e) \/ Return(e)
    \/ Restart

Spec == Init /\ [][Next]_vars

=============================================================================
