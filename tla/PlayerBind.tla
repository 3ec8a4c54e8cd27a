----------------------------- MODULE PlayerBind -----------------------------
(***************************************************************************)
(* namespace Bind of src/src/helper.cpp: the list of players bound to QQ   *)
(* accounts, g_player, and its copy on disk, data/player.yml.              *)
(*                                                                         *)
(* bind, unbind and bindXuid take no lock and run on several threads: a    *)
(* rule for group messages binds on a receive thread, while the line "Player *)
(* connected" of the server binds an xuid on the GUI thread.  A step is one *)
(* pass over the list, one change of it, or one operation on the file.     *)
(***************************************************************************)
EXTENDS Naturals, Sequences, SequencesExt

CONSTANTS
    Binders,      \* threads that call bind and unbind
    Joiners,      \* threads that call bindXuid
    QQs, Names, Xuids,
    NoXuid,       \* the empty xuid of a new binding
    Serial,       \* TRUE: an operation begins only when no other is under way
    MaxRestarts   \* bound: how often the program is ended and started again

Threads == Binders \cup Joiners

Entries == [qq : QQs, playerName : Names, xuid : Xuids \cup {NoXuid}]

ASSUME SerialAssumption == Serial \in BOOLEAN
ASSUME RestartsAssumption == MaxRestarts \in Nat
ASSUME RequestsAssumption == QQs # {} /\ Names # {}

VARIABLES
    players,    \* g_player.raw()
    file,       \* data/player.yml, as a sequence of entries
    pc,         \* where each thread is
    req,        \* arguments qq and name of the operation it runs
    seen,       \* the local lists player_list and qq_list
    out,        \* what it has written to fout but not flushed
    restarts

local == <<pc, req, seen, out>>
vars == <<players, file, local, restarts>>

Labels ==
    {"idle", "bindCheck", "bindPush", "unbindCheck", "unbindRemove", "emit",
     "close"}

TypeOK ==
    /\ players \in Seq(Entries)
    /\ file \in Seq(Entries)
    /\ pc \in [Threads -> Labels]
    /\ req \in [Threads -> [qq : QQs, playerName : Names]]
    /\ seen \in [Threads -> Seq(Entries)]
    /\ out \in [Threads -> Seq(Entries)]
    /\ restarts \in 0..MaxRestarts

AnyRequest == CHOOSE r \in [qq : QQs, playerName : Names] : TRUE

Init ==
    /\ players = <<>>
    /\ file = <<>>
    /\ pc = [t \in Threads |-> "idle"]
    /\ req = [t \in Threads |-> AnyRequest]
    /\ seen = [t \in Threads |-> <<>>]
    /\ out = [t \in Threads |-> <<>>]
    /\ restarts = 0

-----------------------------------------------------------------------------

NewEntry(r) == [qq |-> r.qq, playerName |-> r.playerName, xuid |-> NoXuid]

\* Some entry of the list has the account, or the name.
BoundQQ(list, q) == \E i \in 1..Len(list) : list[i].qq = q
BoundName(list, n) == \E i \in 1..Len(list) : list[i].playerName = n

IndexOfQQ(list, q) == SelectInSeq(list, LAMBDA e : e.qq = q)
IndexOfName(list, n) == SelectInSeq(list, LAMBDA e : e.playerName = n)

\* Node::remove leaves a list that has become too short as it is.
Without(list, i) == IF i \in 1..Len(list) THEN RemoveAt(list, i) ELSE list

\* An ofstream writes what it holds from the start of the file, over what
\* another stream has put there meanwhile.
Overwrite(old, new) == new \o SubSeq(old, Len(new) + 1, Len(old))

MayBegin(t) ==
    /\ pc[t] = "idle"
    /\ Serial => \A u \in Threads : pc[u] = "idle"

GoTo(t, label) == pc' = [pc EXCEPT ![t] = label]

\* The operation returns and its local variables are gone.
Return(t) ==
    /\ GoTo(t, "idle")
    /\ req' = [req EXCEPT ![t] = AnyRequest]
    /\ seen' = [seen EXCEPT ![t] = <<>>]
    /\ out' = [out EXCEPT ![t] = <<>>]

-----------------------------------------------------------------------------
(* Faulty variants of some steps below, one plausible slip each; nothing uses *)
(* them: put in place of the step they are named after, they break a property. *)

\* bind refuses only if both the account and the name are bound.
BindCheckBoth(t) ==
    /\ pc[t] = "bindCheck"
    /\ IF BoundName(seen[t], req[t].playerName) /\ BoundQQ(seen[t], req[t].qq)
          THEN Return(t) /\ UNCHANGED file
          ELSE GoTo(t, "bindPush") /\ file' = <<>> /\ UNCHANGED <<req, seen, out>>
    /\ UNCHANGED <<players, restarts>>

\* bindXuid takes its arguments in the wrong order.
BindXuidSwapped(t) ==
    /\ MayBegin(t)
    /\ \E n \in Names :
          /\ BoundName(players, n)
          /\ players' = [players EXCEPT ![IndexOfName(players, n)].xuid = n]
    /\ file' = <<>>
    /\ GoTo(t, "emit")
    /\ UNCHANGED <<req, seen, out, restarts>>

\* unbind forgets to write the list it has changed.
UnbindRemoveUnsaved(t) ==
    /\ pc[t] = "unbindRemove"
    /\ players' = Without(players, IndexOfQQ(seen[t], req[t].qq))
    /\ GoTo(t, "close")
    /\ UNCHANGED <<file, req, seen, out, restarts>>

\* unbind is off by one in the position.
UnbindRemoveNext(t) ==
    /\ pc[t] = "unbindRemove"
    /\ players' = Without(players, IndexOfQQ(seen[t], req[t].qq) - 1)
    /\ GoTo(t, "emit")
    /\ UNCHANGED <<file, req, seen, out, restarts>>

-----------------------------------------------------------------------------
(* bind *)

BindScan(t) ==
    /\ MayBegin(t)
    /\ \E q \in QQs, n \in Names :
          req' = [req EXCEPT ![t] = [qq |-> q, playerName |-> n]]
    /\ seen' = [seen EXCEPT ![t] = players]
    /\ GoTo(t, "bindCheck")
    /\ UNCHANGED <<players, file, out, restarts>>

\* Opening fout truncates the file.
BindCheck(t) ==
    /\ pc[t] = "bindCheck"
    /\ IF BoundName(seen[t], req[t].playerName) \/ BoundQQ(seen[t], req[t].qq)
          THEN Return(t) /\ UNCHANGED file
          ELSE GoTo(t, "bindPush") /\ file' = <<>> /\ UNCHANGED <<req, seen, out>>
    /\ UNCHANGED <<players, restarts>>

BindPush(t) ==
    /\ pc[t] = "bindPush"
    /\ players' = Append(players, NewEntry(req[t]))
    /\ GoTo(t, "emit")
    /\ UNCHANGED <<file, req, seen, out, restarts>>

-----------------------------------------------------------------------------
(* unbind *)

UnbindScan(t) ==
    /\ MayBegin(t)
    /\ \E q \in QQs : req' = [req EXCEPT ![t].qq = q]
    /\ seen' = [seen EXCEPT ![t] = players]
    /\ GoTo(t, "unbindCheck")
    /\ UNCHANGED <<players, file, out, restarts>>

UnbindCheck(t) ==
    /\ pc[t] = "unbindCheck"
    /\ IF BoundQQ(seen[t], req[t].qq)
          THEN GoTo(t, "unbindRemove") /\ file' = <<>> /\ UNCHANGED <<req, seen, out>>
          ELSE Return(t) /\ UNCHANGED file
    /\ UNCHANGED <<players, restarts>>

\* The index was found in the copy, the entry is taken out of the list.
UnbindRemove(t) ==
    /\ pc[t] = "unbindRemove"
    /\ players' = Without(players, IndexOfQQ(seen[t], req[t].qq))
    /\ GoTo(t, "emit")
    /\ UNCHANGED <<file, req, seen, out, restarts>>

-----------------------------------------------------------------------------
(* bindXuid *)

BindXuid(t) ==
    /\ MayBegin(t)
    /\ \E n \in Names, x \in Xuids :
          /\ BoundName(players, n)
          /\ players' = [players EXCEPT ![IndexOfName(players, n)].xuid = x]
    /\ file' = <<>>
    /\ GoTo(t, "emit")
    /\ UNCHANGED <<req, seen, out, restarts>>

-----------------------------------------------------------------------------
(* The end of the three operations *)

Emit(t) ==
    /\ pc[t] = "emit"
    /\ out' = [out EXCEPT ![t] = players]
    /\ GoTo(t, "close")
    /\ UNCHANGED <<players, file, req, seen, restarts>>

\* The destructor of fout flushes and closes it; the operation returns.
CloseFile(t) ==
    /\ pc[t] = "close"
    /\ file' = Overwrite(file, out[t])
    /\ Return(t)
    /\ UNCHANGED <<players, restarts>>

\* The program ends, at any point, and InitConfig reads the file again.
Restart ==
    /\ restarts < MaxRestarts
    /\ restarts' = restarts + 1
    /\ players' = file
    /\ pc' = [t \in Threads |-> "idle"]
    /\ req' = [t \in Threads |-> AnyRequest]
    /\ seen' = [t \in Threads |-> <<>>]
    /\ out' = [t \in Threads |-> <<>>]
    /\ UNCHANGED file

BinderStep(t) ==
    \/ BindScan(t) \/ BindCheck(t) \/ BindPush(t)
    \/ UnbindScan(t) \/ UnbindCheck(t) \/ UnbindRemove(t)

Next ==
    \/ \E t \in Binders : BinderStep(t)
    \/ \E t \in Joiners : BindXuid(t)
    \/ \E t \in Threads : Emit(t) \/ CloseFile(t)
    \/ Restart

Spec == Init /\ [][Next]_vars

-----------------------------------------------------------------------------
(* Properties *)

Distinct(list) ==
    \A i, j \in 1..Len(list) :
        (list[i].qq = list[j].qq \/ list[i].playerName = list[j].playerName)
            => i = j

\* "检测有没有已绑定的账号" (bind checks that nothing is bound yet): one account has one
\* player and one player one account, whichever threads bind, unbind and join.
UniqueBinding == Distinct(players)

\* Between two operations the file holds the list: a restart finds the bindings.
SavedWhenIdle ==
    (\A t \in Threads : pc[t] = "idle") => file = players

\* Operations that do not overlap implement the table their users imagine.
Table == INSTANCE BindingTable WITH
    Xuids <- Xuids \cup {NoXuid},
    table <- ToSet(players),
    leaving <- {req[t].qq : t \in {u \in Threads : pc[u] = "unbindRemove"}},
    busy <- \E t \in Threads : pc[t] # "idle"

KeepsTable == Table!Spec

=============================================================================
