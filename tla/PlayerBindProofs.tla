-------------------------- MODULE PlayerBindProofs --------------------------
(***************************************************************************)
(* Proofs about PlayerBind, for any threads, accounts, names and xuids.    *)
(*                                                                         *)
(* bind decides on a copy of the list, so uniqueness alone is not          *)
(* inductive: the copy must still say of every account and name what the   *)
(* list says (Checked), which nothing in the code but the absence of a     *)
(* second binding thread ensures (Tidy).                                   *)
(***************************************************************************)
EXTENDS PlayerBind, SequenceTheorems, TLAPS

\* What the threads must keep to: operations never overlap, or only one thread
\* binds and unbinds and the file is not read back.
Tidy == Serial \/ (MaxRestarts = 0 /\ \A a, b \in Binders : a = b)

-----------------------------------------------------------------------------
(* Lists of entries *)

LEMMA WithoutFacts ==
    ASSUME NEW S, NEW s \in Seq(S), NEW k \in 1..Len(s)
    PROVE  /\ RemoveAt(s, k) \in Seq(S)
           /\ Len(RemoveAt(s, k)) = Len(s) - 1
           /\ \A i \in 1..(Len(s) - 1) :
                 RemoveAt(s, k)[i] = IF i < k THEN s[i] ELSE s[i + 1]
<1> DEFINE a == SubSeq(s, 1, k - 1)
           b == SubSeq(s, k + 1, Len(s))
<1>1. /\ a \in Seq(S) /\ Len(a) = k - 1
      /\ \A i \in 1..(k - 1) : a[i] = s[i]
  OBVIOUS
<1>2. /\ b \in Seq(S) /\ Len(b) = Len(s) - k
      /\ \A i \in 1..(Len(s) - k) : b[i] = s[k + i]
  OBVIOUS
<1>3. RemoveAt(s, k) = a \o b
  BY DEF RemoveAt
<1> HIDE DEF a, b
<1>4. /\ a \o b \in Seq(S)
      /\ Len(a \o b) = Len(s) - 1
      /\ \A i \in 1..(Len(s) - 1) :
            (a \o b)[i] = IF i <= k - 1 THEN a[i] ELSE b[i - (k - 1)]
  <2>1. Len(a) + Len(b) = Len(s) - 1 /\ Len(s) \in Nat /\ k \in 1..Len(s)
    BY <1>1, <1>2
  <2>2. /\ a \o b \in Seq(S)
        /\ Len(a \o b) = Len(a) + Len(b)
        /\ \A i \in 1..(Len(a) + Len(b)) :
              (a \o b)[i] = IF i <= Len(a) THEN a[i] ELSE b[i - Len(a)]
    BY <1>1, <1>2, ConcatProperties
  <2>3. QED
    BY <1>1, <2>1, <2>2
<1>5. QED
  BY <1>1, <1>2, <1>3, <1>4

\* An entry for an account and a name that no entry has keeps them distinct.
LEMMA AppendDistinct ==
    ASSUME NEW list \in Seq(Entries), Distinct(list), NEW e \in Entries,
           ~BoundQQ(list, e.qq), ~BoundName(list, e.playerName)
    PROVE  Distinct(Append(list, e))
<1>1. /\ Len(Append(list, e)) = Len(list) + 1
      /\ Append(list, e)[Len(list) + 1] = e
      /\ \A i \in 1..Len(list) : Append(list, e)[i] = list[i]
  OBVIOUS
<1>2. \A i \in 1..Len(list) : list[i].qq # e.qq /\ list[i].playerName # e.playerName
  BY DEF BoundQQ, BoundName
<1>3. SUFFICES ASSUME NEW i \in 1..(Len(list) + 1), NEW j \in 1..(Len(list) + 1),
                      i # j,
                      \/ Append(list, e)[i].qq = Append(list, e)[j].qq
                      \/ Append(list, e)[i].playerName = Append(list, e)[j].playerName
               PROVE  FALSE
  BY <1>1 DEF Distinct
<1>4. CASE i \in 1..Len(list) /\ j \in 1..Len(list)
  BY <1>1, <1>3, <1>4 DEF Distinct
<1>5. CASE i = Len(list) + 1
  BY <1>1, <1>2, <1>3, <1>5
<1>6. CASE j = Len(list) + 1
  BY <1>1, <1>2, <1>3, <1>6
<1>7. QED
  BY <1>4, <1>5, <1>6

LEMMA WithoutDistinct ==
    ASSUME NEW list \in Seq(Entries), Distinct(list), NEW k
    PROVE  Without(list, k) \in Seq(Entries) /\ Distinct(Without(list, k))
<1>1. CASE k \in 1..Len(list)
  <2> DEFINE new == RemoveAt(list, k)
             Old(i) == IF i < k THEN i ELSE i + 1
  <2>1. Without(list, k) = new
    BY <1>1 DEF Without
  <2>2. /\ new \in Seq(Entries) /\ Len(new) = Len(list) - 1
        /\ \A i \in 1..Len(new) : new[i] = list[Old(i)]
    BY <1>1, WithoutFacts
  <2> HIDE DEF new
  <2>3. SUFFICES ASSUME NEW i \in 1..Len(new), NEW j \in 1..Len(new),
                        new[i].qq = new[j].qq \/ new[i].playerName = new[j].playerName
                 PROVE  i = j
    BY <2>1, <2>2 DEF Distinct
  <2>4. Old(i) \in 1..Len(list) /\ Old(j) \in 1..Len(list)
    BY <1>1, <2>2, <2>3
  <2>5. Old(i) = Old(j)
    BY <2>2, <2>3, <2>4 DEF Distinct
  <2>6. QED
    BY <1>1, <2>2, <2>5
<1>2. CASE k \notin 1..Len(list)
  BY <1>2 DEF Without
<1>3. QED
  BY <1>1, <1>2

\* Setting an xuid changes no account and no name.
LEMMA XuidKeepsKeys ==
    ASSUME NEW list \in Seq(Entries), NEW k, NEW x \in Xuids
    PROVE  LET new == [list EXCEPT ![k].xuid = x] IN
           /\ new \in Seq(Entries) /\ Len(new) = Len(list)
           /\ \A i \in 1..Len(list) :
                 /\ new[i].qq = list[i].qq
                 /\ new[i].playerName = list[i].playerName
<1> DEFINE new == [list EXCEPT ![k].xuid = x]
<1>1. DOMAIN new = 1..Len(list) /\ DOMAIN list = 1..Len(list)
  OBVIOUS
<1>2. \A i \in 1..Len(list) :
         /\ new[i] \in Entries
         /\ new[i].qq = list[i].qq
         /\ new[i].playerName = list[i].playerName
  <2>1. TAKE i \in 1..Len(list)
  <2>2. list[i] \in Entries
    OBVIOUS
  <2>3. new[i] = IF i = k THEN [list[i] EXCEPT !.xuid = x] ELSE list[i]
    BY <1>1
  <2>4. QED
    BY <2>2, <2>3 DEF Entries
<1>3. new \in Seq(Entries) /\ Len(new) = Len(list)
  <2>1. new \in [1..Len(list) -> Entries]
    BY <1>1, <1>2
  <2>2. QED
    BY <2>1, Len(list) \in Nat
<1>4. QED
  BY <1>2, <1>3

COROLLARY XuidKeepsBound ==
    ASSUME NEW list \in Seq(Entries), NEW k, NEW x \in Xuids
    PROVE  LET new == [list EXCEPT ![k].xuid = x] IN
           /\ new \in Seq(Entries)
           /\ Distinct(list) => Distinct(new)
           /\ \A q : BoundQQ(new, q) <=> BoundQQ(list, q)
           /\ \A n : BoundName(new, n) <=> BoundName(list, n)
BY XuidKeepsKeys DEF Distinct, BoundQQ, BoundName

-----------------------------------------------------------------------------
(* The inductive invariant *)

BinderLabels == {"bindCheck", "bindPush", "unbindCheck", "unbindRemove"}
CopyLabels == {"bindCheck", "unbindCheck"}
WriteLabels == {"bindPush", "unbindRemove", "emit", "close"}

\* Only binders run bind and unbind, one at a time.
OneBinder ==
    /\ \A t \in Threads : pc[t] \in BinderLabels => t \in Binders
    /\ \A t, u \in Threads :
          pc[t] \in BinderLabels /\ pc[u] \in BinderLabels => t = u

\* The copy bind decides on still says what the list says.
Checked ==
    \A t \in Threads : pc[t] = "bindCheck" =>
        /\ \A q \in QQs : BoundQQ(seen[t], q) <=> BoundQQ(players, q)
        /\ \A n \in Names : BoundName(seen[t], n) <=> BoundName(players, n)

Free ==
    \A t \in Threads : pc[t] = "bindPush" =>
        ~BoundQQ(players, req[t].qq) /\ ~BoundName(players, req[t].playerName)

\* What holds besides when operations do not overlap.
Alone == \A t, u \in Threads : pc[t] # "idle" /\ pc[u] # "idle" => t = u

Disk ==
    /\ SavedWhenIdle
    /\ \A t \in Threads :
          /\ pc[t] \in CopyLabels => file = players
          /\ pc[t] \in WriteLabels => file = <<>>
          /\ pc[t] = "close" => out[t] = players

Copied ==
    \A t \in Threads :
        /\ pc[t] \in BinderLabels => seen[t] = players
        /\ pc[t] = "unbindRemove" => BoundQQ(players, req[t].qq)

IInv ==
    /\ TypeOK /\ UniqueBinding /\ OneBinder /\ Checked /\ Free
    /\ Serial => Alone /\ Disk /\ Copied

-----------------------------------------------------------------------------
(* Preservation *)

LEMMA InitTyped == AnyRequest \in [qq : QQs, playerName : Names]
<1>1. PICK q \in QQs, n \in Names : TRUE
  BY RequestsAssumption
<1>2. [qq |-> q, playerName |-> n] \in [qq : QQs, playerName : Names]
  OBVIOUS
<1>3. QED
  BY <1>2 DEF AnyRequest

LEMMA InitInvariant == Init => IInv
BY InitTyped, RestartsAssumption
   DEF Init, IInv, TypeOK, Labels, UniqueBinding, Distinct, OneBinder, BinderLabels,
       Checked, Free, Alone, Disk, SavedWhenIdle, CopyLabels, WriteLabels, Copied

LEMMA ReturnTyped ==
    ASSUME TypeOK, NEW t \in Threads, Return(t)
    PROVE  /\ pc' \in [Threads -> Labels]
           /\ req' \in [Threads -> [qq : QQs, playerName : Names]]
           /\ seen' \in [Threads -> Seq(Entries)]
           /\ out' \in [Threads -> Seq(Entries)]
BY InitTyped DEF Return, GoTo, TypeOK, Labels

LEMMA TypeStep == TypeOK /\ [Next]_vars => TypeOK'
<1> SUFFICES ASSUME TypeOK, [Next]_vars PROVE TypeOK'
  OBVIOUS
<1> USE InitTyped DEF TypeOK, Labels
<1>1. ASSUME NEW t \in Binders, BinderStep(t) PROVE TypeOK'
  <2> t \in Threads
    BY DEF Threads
  <2>1. CASE BindScan(t)
    BY <2>1 DEF BindScan, GoTo
  <2>2. CASE BindCheck(t)
    <3>1. CASE Return(t) /\ UNCHANGED file
      BY <2>2, <3>1, ReturnTyped DEF BindCheck
    <3>2. CASE GoTo(t, "bindPush") /\ file' = <<>> /\ UNCHANGED <<req, seen, out>>
      BY <2>2, <3>2, EmptySeq DEF BindCheck, GoTo
    <3>3. QED
      BY <2>2, <3>1, <3>2 DEF BindCheck
  <2>3. CASE BindPush(t)
    <3>1. NewEntry(req[t]) \in Entries
      BY DEF NewEntry, Entries
    <3>2. QED
      BY <2>3, <3>1 DEF BindPush, GoTo
  <2>4. CASE UnbindScan(t)
    <3>1. PICK q \in QQs : req' = [req EXCEPT ![t].qq = q]
      BY <2>4 DEF UnbindScan
    <3>2. [req[t] EXCEPT !.qq = q] \in [qq : QQs, playerName : Names]
      OBVIOUS
    <3>3. req' = [req EXCEPT ![t] = [req[t] EXCEPT !.qq = q]]
      BY <3>1
    <3>4. req' \in [Threads -> [qq : QQs, playerName : Names]]
      BY <3>2, <3>3
    <3>5. QED
      BY <2>4, <3>4 DEF UnbindScan, GoTo
  <2>5. CASE UnbindCheck(t)
    <3>1. CASE Return(t) /\ UNCHANGED file
      BY <2>5, <3>1, ReturnTyped DEF UnbindCheck
    <3>2. CASE GoTo(t, "unbindRemove") /\ file' = <<>> /\ UNCHANGED <<req, seen, out>>
      BY <2>5, <3>2, EmptySeq DEF UnbindCheck, GoTo
    <3>3. QED
      BY <2>5, <3>1, <3>2 DEF UnbindCheck
  <2>6. CASE UnbindRemove(t)
    <3>1. players' \in Seq(Entries)
      BY <2>6, WithoutFacts DEF UnbindRemove, Without
    <3>2. QED
      BY <2>6, <3>1 DEF UnbindRemove, GoTo
  <2>7. QED
    BY <1>1, <2>1, <2>2, <2>3, <2>4, <2>5, <2>6 DEF BinderStep
<1>2. ASSUME NEW t \in Joiners, BindXuid(t) PROVE TypeOK'
  <2>1. PICK n \in Names, x \in Xuids :
           players' = [players EXCEPT ![IndexOfName(players, n)].xuid = x]
    BY <1>2 DEF BindXuid
  <2>2. players' \in Seq(Entries)
    BY <2>1, XuidKeepsBound
  <2>3. QED
    BY <1>2, <2>2, EmptySeq DEF BindXuid, GoTo, Threads
<1>3. ASSUME NEW t \in Threads, Emit(t) PROVE TypeOK'
  BY <1>3 DEF Emit, GoTo
<1>4. ASSUME NEW t \in Threads, CloseFile(t) PROVE TypeOK'
  <2>1. file' \in Seq(Entries)
    BY <1>4, ConcatProperties, SubSeqProperties DEF CloseFile, Overwrite
  <2>2. QED
    BY <1>4, <2>1 DEF CloseFile, GoTo, Return
<1>5. CASE Restart
  BY <1>5, RestartsAssumption DEF Restart
<1>6. CASE UNCHANGED vars
  BY <1>6 DEF vars, local
<1>7. QED
  BY <1>1, <1>2, <1>3, <1>4, <1>5, <1>6 DEF Next


\* Uniqueness and what it rests on.
Keys == UniqueBinding /\ OneBinder /\ Checked /\ Free

\* Nothing but the locals of t changes besides the list and the file.
Others(t) ==
    \A u \in Threads \ {t} :
        pc'[u] = pc[u] /\ req'[u] = req[u] /\ seen'[u] = seen[u] /\ out'[u] = out[u]

LEMMA OnlyOwnLocals ==
    ASSUME TypeOK, NEW t \in Threads,
           BinderStep(t) \/ BindXuid(t) \/ Emit(t) \/ CloseFile(t)
    PROVE  Others(t)
BY DEF TypeOK, Others, BinderStep, BindXuid, Emit, CloseFile, BindScan, BindCheck,
       BindPush, UnbindScan, UnbindCheck, UnbindRemove, GoTo, Return

\* A binder that may begin finds no other at work.
LEMMA BeginsAlone ==
    ASSUME TypeOK, Keys, Tidy, NEW t \in Binders, MayBegin(t)
    PROVE  \A u \in Threads : pc[u] \notin BinderLabels
<1> t \in Threads /\ pc[t] \notin BinderLabels
  BY DEF Threads, MayBegin, BinderLabels
<1>1. CASE Serial
  BY <1>1 DEF MayBegin, BinderLabels
<1>2. CASE \A a, b \in Binders : a = b
  BY <1>2 DEF Keys, OneBinder
<1>3. QED
  BY <1>1, <1>2 DEF Tidy

LEMMA KeysStep ==
    ASSUME IInv, TypeOK', Tidy, [Next]_vars PROVE Keys'
<1> TypeOK /\ Keys
  BY DEF IInv, Keys
<1>1. ASSUME NEW t \in Binders, BinderStep(t) PROVE Keys'
  <2> t \in Threads
    BY DEF Threads
  <2>1. Others(t)
    BY <1>1, OnlyOwnLocals
  <2>2. CASE BindScan(t)
    <3>1. \A u \in Threads : pc[u] \notin BinderLabels
      BY <2>2, BeginsAlone DEF BindScan
    <3>2. /\ pc'[t] = "bindCheck" /\ seen'[t] = players /\ players' = players
      BY <2>2 DEF BindScan, GoTo, TypeOK
    <3>3. UniqueBinding'
      BY <3>2 DEF Keys, UniqueBinding
    <3>4. OneBinder' /\ Checked' /\ Free'
      BY <2>1, <3>1, <3>2 DEF OneBinder, Checked, Free, Others, BinderLabels
    <3>5. QED
      BY <3>3, <3>4 DEF Keys
  <2>3. CASE BindCheck(t)
    <3>1. /\ pc[t] = "bindCheck" /\ players' = players
          /\ pc'[t] \in {"idle", "bindPush"}
          /\ pc'[t] = "bindPush" =>
                /\ req'[t] = req[t] /\ seen'[t] = seen[t]
                /\ ~BoundName(seen[t], req[t].playerName)
                /\ ~BoundQQ(seen[t], req[t].qq)
      BY <2>3 DEF BindCheck, GoTo, Return, TypeOK
    <3>2. UniqueBinding'
      BY <3>1 DEF Keys, UniqueBinding
    <3>3. \A u \in Threads \ {t} : pc'[u] \notin BinderLabels
      BY <2>1, <3>1 DEF Keys, OneBinder, Others, BinderLabels
    <3>4. OneBinder' /\ Checked'
      BY <3>1, <3>3 DEF OneBinder, Checked, BinderLabels
    <3>5. req[t].qq \in QQs /\ req[t].playerName \in Names
      BY DEF TypeOK
    <3>6. Free'
      BY <3>1, <3>3, <3>5 DEF Keys, Checked, Free, BinderLabels
    <3>7. QED
      BY <3>2, <3>4, <3>6 DEF Keys
  <2>4. CASE BindPush(t)
    <3>1. /\ pc[t] = "bindPush" /\ pc'[t] = "emit"
          /\ players' = Append(players, NewEntry(req[t]))
      BY <2>4 DEF BindPush, GoTo, TypeOK
    <3>2. UniqueBinding'
      <4>1. NewEntry(req[t]) \in Entries /\ players \in Seq(Entries)
        BY DEF NewEntry, Entries, TypeOK
      <4>2. ~BoundQQ(players, NewEntry(req[t]).qq)
            /\ ~BoundName(players, NewEntry(req[t]).playerName)
        BY <3>1 DEF Keys, Free, NewEntry
      <4>3. QED
        BY <3>1, <4>1, <4>2, AppendDistinct DEF Keys, UniqueBinding
    <3>3. \A u \in Threads : pc'[u] \notin BinderLabels
      BY <2>1, <3>1 DEF Keys, OneBinder, Others, BinderLabels
    <3>4. QED
      BY <3>2, <3>3 DEF Keys, OneBinder, Checked, Free, BinderLabels
  <2>5. CASE UnbindScan(t)
    <3>1. \A u \in Threads : pc[u] \notin BinderLabels
      BY <2>5, BeginsAlone DEF UnbindScan
    <3>2. pc'[t] = "unbindCheck" /\ players' = players
      BY <2>5 DEF UnbindScan, GoTo, TypeOK
    <3>3. UniqueBinding'
      BY <3>2 DEF Keys, UniqueBinding
    <3>4. OneBinder' /\ Checked' /\ Free'
      BY <2>1, <3>1, <3>2 DEF OneBinder, Checked, Free, Others, BinderLabels
    <3>5. QED
      BY <3>3, <3>4 DEF Keys
  <2>6. CASE UnbindCheck(t)
    <3>1. /\ pc[t] = "unbindCheck" /\ players' = players
          /\ pc'[t] \in {"idle", "unbindRemove"}
      BY <2>6 DEF UnbindCheck, GoTo, Return, TypeOK
    <3>2. \A u \in Threads \ {t} : pc'[u] \notin BinderLabels
      BY <2>1, <3>1 DEF Keys, OneBinder, Others, BinderLabels
    <3>3. UniqueBinding'
      BY <3>1 DEF Keys, UniqueBinding
    <3>4. OneBinder' /\ Checked' /\ Free'
      BY <3>1, <3>2 DEF OneBinder, Checked, Free, BinderLabels
    <3>5. QED
      BY <3>3, <3>4 DEF Keys
  <2>7. CASE UnbindRemove(t)
    <3>1. pc[t] = "unbindRemove" /\ pc'[t] = "emit"
      BY <2>7 DEF UnbindRemove, GoTo, TypeOK
    <3>2. UniqueBinding'
      BY <2>7, WithoutDistinct DEF UnbindRemove, Keys, UniqueBinding, TypeOK
    <3>3. \A u \in Threads : pc'[u] \notin BinderLabels
      BY <2>1, <3>1 DEF Keys, OneBinder, Others, BinderLabels
    <3>4. QED
      BY <3>2, <3>3 DEF Keys, OneBinder, Checked, Free, BinderLabels
  <2>8. QED
    BY <1>1, <2>2, <2>3, <2>4, <2>5, <2>6, <2>7 DEF BinderStep
<1>2. ASSUME NEW t \in Joiners, BindXuid(t) PROVE Keys'
  <2> t \in Threads
    BY DEF Threads
  <2>1. Others(t)
    BY <1>2, OnlyOwnLocals
  <2>2. PICK n \in Names, x \in Xuids :
           players' = [players EXCEPT ![IndexOfName(players, n)].xuid = x]
    BY <1>2 DEF BindXuid
  <2>3. /\ Distinct(players) => Distinct(players')
        /\ \A q : BoundQQ(players', q) <=> BoundQQ(players, q)
        /\ \A m : BoundName(players', m) <=> BoundName(players, m)
    BY <2>2, XuidKeepsBound DEF TypeOK
  <2>4. pc'[t] = "emit"
    BY <1>2 DEF BindXuid, GoTo, TypeOK
  <2>5. UniqueBinding'
    BY <2>3 DEF Keys, UniqueBinding
  <2>6. OneBinder'
    BY <2>1, <2>4 DEF Keys, OneBinder, Others, BinderLabels
  <2>7. Checked' /\ Free'
    BY <2>1, <2>3, <2>4 DEF Keys, Checked, Free, Others
  <2>8. QED
    BY <2>5, <2>6, <2>7 DEF Keys
<1>3. ASSUME NEW t \in Threads, Emit(t) \/ CloseFile(t) PROVE Keys'
  <2>1. Others(t)
    BY <1>3, OnlyOwnLocals
  <2>2. players' = players /\ pc'[t] \in {"close", "idle"}
    BY <1>3 DEF Emit, CloseFile, GoTo, Return, TypeOK
  <2>3. UniqueBinding' /\ OneBinder' /\ Checked' /\ Free'
    BY <2>1, <2>2 DEF Keys, UniqueBinding, OneBinder, Checked, Free, Others, BinderLabels
  <2>4. QED
    BY <2>3 DEF Keys
<1>4. CASE Restart
  <2>1. Serial
    BY <1>4 DEF Restart, Tidy, TypeOK
  <2>2. file = players \/ file = <<>>
    BY <2>1 DEF IInv, Disk, SavedWhenIdle, TypeOK, Labels, CopyLabels, WriteLabels
  <2>3. UniqueBinding'
    BY <1>4, <2>2 DEF Restart, Keys, UniqueBinding, Distinct
  <2>4. OneBinder' /\ Checked' /\ Free'
    BY <1>4 DEF Restart, OneBinder, Checked, Free, BinderLabels
  <2>5. QED
    BY <2>3, <2>4 DEF Keys
<1>5. CASE UNCHANGED vars
  BY <1>5 DEF vars, local, Keys, UniqueBinding, OneBinder, Checked, Free
<1>6. QED
  BY <1>1, <1>2, <1>3, <1>4, <1>5 DEF Next


SerialPart == Alone /\ Disk /\ Copied

\* The thread that takes a step is the only one at work, before and after it.
LEMMA SerialFrame ==
    ASSUME TypeOK, Serial, Alone, NEW t \in Threads,
           BinderStep(t) \/ BindXuid(t) \/ Emit(t) \/ CloseFile(t)
    PROVE  /\ Others(t)
           /\ \A u \in Threads \ {t} : pc[u] = "idle" /\ pc'[u] = "idle"
           /\ Alone'
<1>1. Others(t)
  BY OnlyOwnLocals
<1>2. MayBegin(t) \/ pc[t] # "idle"
  BY DEF BinderStep, BindXuid, Emit, CloseFile, BindScan, BindCheck, BindPush,
         UnbindScan, UnbindCheck, UnbindRemove
<1>3. \A u \in Threads \ {t} : pc[u] = "idle" /\ pc'[u] = "idle"
  BY <1>1, <1>2 DEF MayBegin, Alone, Others
<1>4. QED
  BY <1>1, <1>3 DEF Alone

\* So what the step makes of its own labels decides.
LEMMA SerialAfter ==
    ASSUME NEW t \in Threads, Alone',
           \A u \in Threads \ {t} : pc'[u] = "idle",
           /\ pc'[t] = "idle" => file' = players'
           /\ pc'[t] \in CopyLabels => file' = players'
           /\ pc'[t] \in WriteLabels => file' = <<>>
           /\ pc'[t] = "close" => out'[t] = players'
           /\ pc'[t] \in BinderLabels => seen'[t] = players'
           /\ pc'[t] = "unbindRemove" => BoundQQ(players', req'[t].qq)
    PROVE  SerialPart'
BY DEF SerialPart, Disk, SavedWhenIdle, Copied, BinderLabels, CopyLabels, WriteLabels

LEMMA SerialStep ==
    ASSUME IInv, TypeOK', Serial, [Next]_vars PROVE SerialPart'
<1> TypeOK /\ Alone /\ Disk /\ Copied
  BY DEF IInv
<1> USE DEF BinderLabels, CopyLabels, WriteLabels
<1>1. ASSUME NEW t \in Binders, BinderStep(t) PROVE SerialPart'
  <2> t \in Threads
    BY DEF Threads
  <2>1. Alone' /\ \A u \in Threads \ {t} : pc[u] = "idle" /\ pc'[u] = "idle"
    BY <1>1, SerialFrame
  <2>2. CASE BindScan(t)
    <3>1. file = players
      BY <2>2 DEF BindScan, MayBegin, Disk, SavedWhenIdle
    <3>2. /\ pc'[t] = "bindCheck" /\ seen'[t] = players
          /\ players' = players /\ file' = file
      BY <2>2 DEF BindScan, GoTo, TypeOK
    <3>3. QED
      BY <2>1, <3>1, <3>2, SerialAfter
  <2>3. CASE BindCheck(t)
    <3>1. file = players /\ seen[t] = players
      BY <2>3 DEF BindCheck, Disk, Copied
    <3>2. /\ players' = players
          /\ \/ pc'[t] = "idle" /\ file' = file
             \/ pc'[t] = "bindPush" /\ file' = <<>> /\ seen'[t] = seen[t]
      BY <2>3 DEF BindCheck, GoTo, Return, TypeOK
    <3>3. QED
      BY <2>1, <3>1, <3>2, SerialAfter
  <2>4. CASE BindPush(t)
    <3>1. pc'[t] = "emit" /\ file' = <<>>
      BY <2>4 DEF BindPush, GoTo, TypeOK, Disk
    <3>2. QED
      BY <2>1, <3>1, SerialAfter
  <2>5. CASE UnbindScan(t)
    <3>1. file = players
      BY <2>5 DEF UnbindScan, MayBegin, Disk, SavedWhenIdle
    <3>2. /\ pc'[t] = "unbindCheck" /\ seen'[t] = players
          /\ players' = players /\ file' = file
      BY <2>5 DEF UnbindScan, GoTo, TypeOK
    <3>3. QED
      BY <2>1, <3>1, <3>2, SerialAfter
  <2>6. CASE UnbindCheck(t)
    <3>1. file = players /\ seen[t] = players
      BY <2>6 DEF UnbindCheck, Disk, Copied
    <3>2. /\ players' = players
          /\ \/ pc'[t] = "idle" /\ file' = file
             \/ /\ pc'[t] = "unbindRemove" /\ file' = <<>> /\ seen'[t] = seen[t]
                /\ req'[t] = req[t] /\ BoundQQ(seen[t], req[t].qq)
      BY <2>6 DEF UnbindCheck, GoTo, Return, TypeOK
    <3>3. QED
      BY <2>1, <3>1, <3>2, SerialAfter
  <2>7. CASE UnbindRemove(t)
    <3>1. pc'[t] = "emit" /\ file' = <<>>
      BY <2>7 DEF UnbindRemove, GoTo, TypeOK, Disk
    <3>2. QED
      BY <2>1, <3>1, SerialAfter
  <2>8. QED
    BY <1>1, <2>2, <2>3, <2>4, <2>5, <2>6, <2>7 DEF BinderStep
<1>2. ASSUME NEW t \in Joiners, BindXuid(t) PROVE SerialPart'
  <2> t \in Threads
    BY DEF Threads
  <2>1. Alone' /\ \A u \in Threads \ {t} : pc[u] = "idle" /\ pc'[u] = "idle"
    BY <1>2, SerialFrame
  <2>2. pc'[t] = "emit" /\ file' = <<>>
    BY <1>2 DEF BindXuid, GoTo, TypeOK
  <2>3. QED
    BY <2>1, <2>2, SerialAfter
<1>3. ASSUME NEW t \in Threads, Emit(t) PROVE SerialPart'
  <2>1. Alone' /\ \A u \in Threads \ {t} : pc[u] = "idle" /\ pc'[u] = "idle"
    BY <1>3, SerialFrame
  <2>2. /\ pc'[t] = "close" /\ file' = <<>>
        /\ players' = players /\ out'[t] = players
    BY <1>3 DEF Emit, GoTo, TypeOK, Disk
  <2>3. QED
    BY <2>1, <2>2, SerialAfter
<1>4. ASSUME NEW t \in Threads, CloseFile(t) PROVE SerialPart'
  <2>1. Alone' /\ \A u \in Threads \ {t} : pc[u] = "idle" /\ pc'[u] = "idle"
    BY <1>4, SerialFrame
  <2>2. file = <<>> /\ out[t] = players
    BY <1>4 DEF CloseFile, Disk
  <2>3. Overwrite(<<>>, players) = players
    <3>1. SubSeq(<<>>, Len(players) + 1, Len(<<>>)) = <<>> /\ players \in Seq(Entries)
      BY SubSeqEmpty, EmptySeq DEF TypeOK
    <3>2. QED
      BY <3>1, ConcatEmptySeq DEF Overwrite
  <2>4. pc'[t] = "idle" /\ players' = players /\ file' = Overwrite(file, out[t])
    BY <1>4 DEF CloseFile, GoTo, Return, TypeOK
  <2>5. QED
    BY <2>1, <2>2, <2>3, <2>4, SerialAfter
<1>5. CASE Restart
  BY <1>5 DEF Restart, SerialPart, Alone, Disk, SavedWhenIdle, Copied
<1>6. CASE UNCHANGED vars
  BY <1>6 DEF vars, local, SerialPart, Alone, Disk, SavedWhenIdle, Copied
<1>7. QED
  BY <1>1, <1>2, <1>3, <1>4, <1>5, <1>6 DEF Next

-----------------------------------------------------------------------------
(* Theorems *)

\* Every variable keeps its type, however the threads interleave.
THEOREM TypeCorrect == Spec => []TypeOK
<1>1. Init => TypeOK
  BY InitInvariant DEF IInv
<1>2. QED
  BY <1>1, TypeStep, PTL DEF Spec

\* The invariant that the theorems below rest on: the copy that a thread has checked still
\* agrees with the list in accounts and names.
THEOREM Invariance == ASSUME Tidy PROVE Spec => []IInv
<1>1. IInv /\ [Next]_vars => IInv'
  <2> SUFFICES ASSUME IInv, [Next]_vars PROVE IInv'
    OBVIOUS
  <2>1. TypeOK'
    BY TypeStep DEF IInv
  <2>2. Keys'
    BY <2>1, KeysStep
  <2>3. Serial => SerialPart'
    BY <2>1, SerialStep
  <2>4. QED
    BY <2>1, <2>2, <2>3 DEF IInv, Keys, SerialPart
<1>2. QED
  BY <1>1, InitInvariant, PTL DEF Spec

\* bind's check: as long as the threads are tidy, no account and no name is ever
\* bound twice, even while players join and their xuids are set.
THEOREM BindingsAreUnique == ASSUME Tidy PROVE Spec => []UniqueBinding
<1>1. IInv => UniqueBinding
  BY DEF IInv
<1>2. QED
  BY <1>1, Invariance, PTL

\* The file written at the end of each operation: between operations that do not
\* overlap it is the list, so a restart loses nothing.
THEOREM FileIsSaved == ASSUME Serial PROVE Spec => []SavedWhenIdle
<1>1. IInv => SavedWhenIdle
  BY DEF IInv, Disk
<1>2. Spec => []IInv
  BY Invariance DEF Tidy
<1>3. QED
  BY <1>1, <1>2, PTL


-----------------------------------------------------------------------------
(* Refinement *)

LEMMA IndexOfQQFound ==
    ASSUME NEW list \in Seq(Entries), Distinct(list), NEW q, BoundQQ(list, q)
    PROVE  IndexOfQQ(list, q) \in 1..Len(list) /\ list[IndexOfQQ(list, q)].qq = q
<1>1. PICK k \in 1..Len(list) : list[k].qq = q
  BY DEF BoundQQ
<1>2. {i \in 1..Len(list) : list[i].qq = q} = {k}
  BY <1>1 DEF Distinct
<1>3. Min({k}) = k
  BY DEF Min
<1>4. IndexOfQQ(list, q) = k
  BY <1>2, <1>3 DEF IndexOfQQ, SelectInSeq
<1>5. QED
  BY <1>1, <1>4

LEMMA IndexOfNameFound ==
    ASSUME NEW list \in Seq(Entries), Distinct(list), NEW n, BoundName(list, n)
    PROVE  /\ IndexOfName(list, n) \in 1..Len(list)
           /\ list[IndexOfName(list, n)].playerName = n
<1>1. PICK k \in 1..Len(list) : list[k].playerName = n
  BY DEF BoundName
<1>2. {i \in 1..Len(list) : list[i].playerName = n} = {k}
  BY <1>1 DEF Distinct
<1>3. Min({k}) = k
  BY DEF Min
<1>4. IndexOfName(list, n) = k
  BY <1>2, <1>3 DEF IndexOfName, SelectInSeq
<1>5. QED
  BY <1>1, <1>4

\* The entries of a list, as the set they make.
LEMMA Elements ==
    ASSUME NEW list \in Seq(Entries)
    PROVE  \A e : e \in ToSet(list) <=> \E i \in 1..Len(list) : list[i] = e
BY DEF ToSet

LEMMA AppendAdds ==
    ASSUME NEW list \in Seq(Entries), NEW e \in Entries
    PROVE  ToSet(Append(list, e)) = ToSet(list) \cup {e}
<1>1. /\ Append(list, e) \in Seq(Entries)
      /\ Len(Append(list, e)) = Len(list) + 1
      /\ Append(list, e)[Len(list) + 1] = e
      /\ \A i \in 1..Len(list) : Append(list, e)[i] = list[i]
  OBVIOUS
<1> DEFINE new == Append(list, e)
<1> HIDE DEF new
<1>2. /\ new \in Seq(Entries) /\ Len(new) = Len(list) + 1
      /\ new[Len(list) + 1] = e
      /\ \A i \in 1..Len(list) : new[i] = list[i]
  BY <1>1 DEF new
<1>3. ASSUME NEW x \in ToSet(new) PROVE x \in ToSet(list) \cup {e}
  <2>1. PICK i \in 1..Len(new) : new[i] = x
    BY <1>2, <1>3, Elements
  <2>2. i \in 1..Len(list) \/ i = Len(list) + 1
    BY <1>2
  <2>3. QED
    BY <1>2, <2>1, <2>2, Elements
<1>4. ASSUME NEW x \in ToSet(list) PROVE x \in ToSet(new)
  <2>1. PICK i \in 1..Len(list) : list[i] = x
    BY <1>4, Elements
  <2>2. i \in 1..Len(new) /\ new[i] = x
    BY <1>2, <2>1
  <2>3. QED
    BY <1>2, <2>2, Elements
<1>5. e \in ToSet(new)
  <2>1. Len(list) + 1 \in 1..Len(new)
    BY <1>2
  <2>2. QED
    BY <1>2, <2>1, Elements
<1>6. ToSet(new) = ToSet(list) \cup {e}
  BY <1>3, <1>4, <1>5
<1>7. QED
  BY <1>6 DEF new

LEMMA WithoutRemoves ==
    ASSUME NEW list \in Seq(Entries), Distinct(list), NEW k \in 1..Len(list)
    PROVE  ToSet(Without(list, k)) = ToSet(list) \ {list[k]}
<1> DEFINE new == RemoveAt(list, k)
<1>1. Without(list, k) = new
  BY DEF Without
<1>2. /\ new \in Seq(Entries) /\ Len(new) = Len(list) - 1
      /\ \A i \in 1..Len(new) : new[i] = IF i < k THEN list[i] ELSE list[i + 1]
  BY WithoutFacts
<1> HIDE DEF new
<1>3. \A i \in 1..Len(list) : list[i] = list[k] => i = k
  BY DEF Distinct
<1>4. \A i \in 1..Len(new) : new[i] \in ToSet(list) \ {list[k]}
  <2>1. TAKE i \in 1..Len(new)
  <2>2. CASE i < k
    BY <1>2, <1>3, <2>2, Elements
  <2>3. CASE ~(i < k)
    <3>1. i + 1 \in 1..Len(list) /\ i + 1 # k
      BY <1>2, <2>3
    <3>2. QED
      BY <1>2, <1>3, <2>3, <3>1, Elements
  <2>4. QED
    BY <2>2, <2>3
<1>5. \A i \in 1..Len(list) : i # k => \E j \in 1..Len(new) : new[j] = list[i]
  <2>1. SUFFICES ASSUME NEW i \in 1..Len(list), i # k
                 PROVE  \E j \in 1..Len(new) : new[j] = list[i]
    OBVIOUS
  <2>2. CASE i < k
    BY <1>2, <2>2
  <2>3. CASE i > k
    <3>1. i - 1 \in 1..Len(new) /\ new[i - 1] = list[i]
      BY <1>2, <2>3
    <3>2. QED
      BY <3>1
  <2>4. QED
    BY <2>1, <2>2, <2>3
<1>6. ASSUME NEW x \in ToSet(new) PROVE x \in ToSet(list) \ {list[k]}
  BY <1>2, <1>4, <1>6, Elements
<1>7. ASSUME NEW x \in ToSet(list) \ {list[k]} PROVE x \in ToSet(new)
  <2>1. PICK i \in 1..Len(list) : list[i] = x
    BY <1>7, Elements
  <2>2. i # k
    BY <1>7, <2>1
  <2>3. QED
    BY <1>2, <1>5, <2>1, <2>2, Elements
<1>8. QED
  BY <1>1, <1>6, <1>7

LEMMA XuidReplaces ==
    ASSUME NEW list \in Seq(Entries), Distinct(list), NEW k \in 1..Len(list),
           NEW x \in Xuids
    PROVE  ToSet([list EXCEPT ![k].xuid = x]) =
              (ToSet(list) \ {list[k]}) \cup {[list[k] EXCEPT !.xuid = x]}
<1> DEFINE new == [list EXCEPT ![k].xuid = x]
<1>1. new \in Seq(Entries) /\ Len(new) = Len(list)
  BY XuidKeepsKeys
<1>2. \A i \in 1..Len(list) :
         new[i] = IF i = k THEN [list[k] EXCEPT !.xuid = x] ELSE list[i]
  OBVIOUS
<1>3. \A i \in 1..Len(list) : list[i] = list[k] => i = k
  BY DEF Distinct
<1> HIDE DEF new
<1> DEFINE changed == [list[k] EXCEPT !.xuid = x]
<1>4. ASSUME NEW y \in ToSet(new)
      PROVE  y \in (ToSet(list) \ {list[k]}) \cup {changed}
  <2>1. PICK i \in 1..Len(list) : new[i] = y
    BY <1>1, <1>4, Elements
  <2>2. CASE i = k
    BY <1>2, <2>1, <2>2
  <2>3. CASE i # k
    <3>1. y = list[i] /\ y # list[k]
      BY <1>2, <1>3, <2>1, <2>3
    <3>2. QED
      BY <3>1, Elements
  <2>4. QED
    BY <2>2, <2>3
<1>5. ASSUME NEW y \in ToSet(list) \ {list[k]} PROVE y \in ToSet(new)
  <2>1. PICK i \in 1..Len(list) : list[i] = y
    BY <1>5, Elements
  <2>2. new[i] = y /\ i \in 1..Len(new)
    BY <1>1, <1>2, <1>5, <2>1
  <2>3. QED
    BY <1>1, <2>2, Elements
<1>6. changed \in ToSet(new)
  <2>1. new[k] = changed /\ k \in 1..Len(new)
    BY <1>1, <1>2
  <2>2. QED
    BY <1>1, <2>1, Elements
<1>7. ToSet(new) = (ToSet(list) \ {list[k]}) \cup {changed}
  <2> HIDE DEF changed
  <2>1. QED
    BY <1>4, <1>5, <1>6
<1>8. QED
  BY <1>7 DEF new

Bindings == ToSet(players)
Busy == \E t \in Threads : pc[t] # "idle"
Leaving == {req[t].qq : t \in {u \in Threads : pc[u] = "unbindRemove"}}

\* What a step of one thread says of the table's busy and leaving.
LEMMA BusyAfter ==
    ASSUME TypeOK, Serial, Alone, NEW t \in Threads,
           BinderStep(t) \/ BindXuid(t) \/ Emit(t) \/ CloseFile(t)
    PROVE  /\ Busy <=> pc[t] # "idle"
           /\ Busy' <=> pc'[t] # "idle"
BY SerialFrame DEF Busy

LEMMA LeavingAfter ==
    ASSUME TypeOK, Serial, Alone, NEW t \in Threads,
           BinderStep(t) \/ BindXuid(t) \/ Emit(t) \/ CloseFile(t)
    PROVE  /\ Leaving = IF pc[t] = "unbindRemove" THEN {req[t].qq} ELSE {}
           /\ Leaving' = IF pc'[t] = "unbindRemove" THEN {req'[t].qq} ELSE {}
<1>1. \A u \in Threads \ {t} : pc[u] = "idle" /\ pc'[u] = "idle"
  BY SerialFrame
<1>2. QED
  BY <1>1 DEF Leaving

LEMMA SimulateInit == Init => Table!Init
<1> SUFFICES ASSUME Init PROVE Table!Init
  OBVIOUS
<1>1. Bindings = {}
  BY DEF Init, Bindings, ToSet
<1>2. ~Busy
  BY DEF Init, Busy
<1>3. Leaving = {}
  BY DEF Init, Leaving
<1>4. QED
  BY <1>1, <1>2, <1>3 DEF Table!Init, Bindings, Busy, Leaving

LEMMA SimulateBegin ==
    ASSUME Bindings' = Bindings, Leaving' = Leaving, Busy' PROVE Table!Next
BY DEF Table!Next, Table!Begin, Bindings, Busy, Leaving

LEMMA SimulateReturn ==
    ASSUME Bindings' = Bindings, Leaving = {}, Leaving' = {}, ~Busy'
    PROVE  Table!Next
BY DEF Table!Next, Table!Return, Bindings, Busy, Leaving

LEMMA SimulateStutter ==
    ASSUME Bindings' = Bindings, Leaving' = Leaving, Busy' = Busy
    PROVE  UNCHANGED Table!vars
BY DEF Table!vars, Bindings, Busy, Leaving

\* unbind grants what it is asked only if the account is bound.
LEMMA SimulateCheck ==
    ASSUME IInv, Serial, NEW t \in Threads, UnbindCheck(t)
    PROVE  Table!Next
<1> TypeOK /\ Alone /\ Copied
  BY DEF IInv
<1>1. /\ Busy
      /\ Busy' <=> pc'[t] # "idle"
      /\ Leaving = {}
      /\ Leaving' = IF pc'[t] = "unbindRemove" THEN {req'[t].qq} ELSE {}
  BY BusyAfter, LeavingAfter DEF BinderStep, UnbindCheck
<1>2. Bindings' = Bindings
  BY DEF UnbindCheck, Bindings
<1>3. CASE BoundQQ(seen[t], req[t].qq)
  <2> PICK q \in QQs : req[t].qq = q
    BY DEF TypeOK
  <2>1. pc'[t] = "unbindRemove" /\ req' = req
    BY <1>3 DEF UnbindCheck, GoTo, TypeOK
  <2>2. q \in QQs /\ players \in Seq(Entries) /\ BoundQQ(players, q)
    BY <1>3 DEF UnbindCheck, Copied, BinderLabels, TypeOK
  <2>3. \E b \in Bindings : b.qq = q
    BY <2>2, Elements DEF Bindings, BoundQQ
  <2>4. Leaving' = Leaving \cup {q} /\ Busy' = Busy
    <3>1. Leaving' = Leaving \cup {q}
      BY <1>1, <2>1
    <3>2. Busy' = Busy
      BY <1>1, <2>1 DEF Busy
    <3>3. QED
      BY <3>1, <3>2
  <2>5. Table!Grant(q)
    BY <1>2, <2>3, <2>4 DEF Table!Grant, Bindings, Busy, Leaving
  <2>6. \E p \in QQs : Table!Grant(p) \/ Table!Unbind(p)
    BY <2>2, <2>5
  <2>7. QED
    BY <2>6 DEF Table!Next
<1>4. CASE ~BoundQQ(seen[t], req[t].qq)
  <2>1. pc'[t] = "idle"
    BY <1>4 DEF UnbindCheck, Return, GoTo, TypeOK
  <2>2. QED
    BY <1>1, <1>2, <2>1, SimulateReturn
<1>5. QED
  BY <1>3, <1>4

\* A new entry is a Bind: bind has made sure that its account and name are free.
LEMMA SimulatePush ==
    ASSUME IInv, Serial, NEW t \in Threads, BindPush(t)
    PROVE  Table!Next
<1> TypeOK /\ Alone /\ Free
  BY DEF IInv
<1> DEFINE e == NewEntry(req[t])
<1>1. Busy' = Busy
  <2>1. pc[t] = "bindPush" /\ pc'[t] = "emit"
    BY DEF BindPush, GoTo, TypeOK
  <2>2. QED
    BY <2>1, BusyAfter DEF BinderStep, Busy
<1>2. req[t].qq \in QQs /\ req[t].playerName \in Names /\ players \in Seq(Entries)
  BY DEF TypeOK
<1>3. e \in Entries
  BY <1>2 DEF NewEntry, Entries
<1>4. Bindings' = Bindings \cup {e}
  BY <1>2, <1>3, AppendAdds DEF BindPush, Bindings
<1>5. ~BoundQQ(players, req[t].qq) /\ ~BoundName(players, req[t].playerName)
  BY DEF BindPush, Free
<1>6. \A b \in Bindings : b.qq # req[t].qq /\ b.playerName # req[t].playerName
  BY <1>2, <1>5, Elements DEF Bindings, BoundQQ, BoundName
<1>7. Leaving' = Leaving
  BY LeavingAfter DEF BinderStep, BindPush, GoTo, TypeOK
<1>8. Table!Bind(req[t].qq, req[t].playerName)
  BY <1>1, <1>4, <1>6, <1>7 DEF Table!Bind, NewEntry, Bindings, Busy, Leaving
<1>9. QED
  BY <1>2, <1>8 DEF Table!Next

\* Taking an entry out is an Unbind: the position is still that of the account.
LEMMA SimulateRemove ==
    ASSUME IInv, Serial, NEW t \in Threads, UnbindRemove(t)
    PROVE  Table!Next
<1> TypeOK /\ Alone /\ Copied /\ Distinct(players)
  BY DEF IInv, UniqueBinding
<1> PICK q \in QQs : req[t].qq = q
  BY DEF TypeOK
<1> DEFINE k == IndexOfQQ(players, q)
<1>1. Busy' = Busy
  <2>1. pc[t] = "unbindRemove" /\ pc'[t] = "emit"
    BY DEF UnbindRemove, GoTo, TypeOK
  <2>2. QED
    BY <2>1, BusyAfter DEF BinderStep, Busy
<1>2. q \in QQs /\ players \in Seq(Entries)
  BY DEF TypeOK
<1>3. seen[t] = players /\ BoundQQ(players, q)
  BY DEF UnbindRemove, Copied, BinderLabels
<1>4. k \in 1..Len(players) /\ players[k].qq = q
  BY <1>2, <1>3, IndexOfQQFound
<1>5. players' = Without(players, k)
  BY <1>3 DEF UnbindRemove
<1> HIDE DEF k
<1>6. Bindings' = Bindings \ {players[k]}
  BY <1>2, <1>4, <1>5, WithoutRemoves DEF Bindings
<1>7. players[k] \in Bindings
  BY <1>2, <1>4, Elements DEF Bindings
<1>8. Leaving = {q} /\ Leaving' = {}
  BY LeavingAfter DEF BinderStep, UnbindRemove, GoTo, TypeOK
<1>9. Table!Unbind(q)
  <2>1. q \in Leaving /\ Leaving' = Leaving \ {q}
    BY <1>8
  <2>2. QED
    BY <1>1, <1>4, <1>6, <1>7, <2>1 DEF Table!Unbind, Bindings, Busy, Leaving
<1>10. \E p \in QQs : Table!Grant(p) \/ Table!Unbind(p)
  BY <1>2, <1>9
<1>11. QED
  BY <1>10 DEF Table!Next

LEMMA SimulateXuid ==
    ASSUME IInv, Serial, NEW t \in Threads, BindXuid(t)
    PROVE  Table!Next
<1> TypeOK /\ Alone /\ Distinct(players)
  BY DEF IInv, UniqueBinding
<1>1. Busy'
  <2>1. pc'[t] = "emit"
    BY DEF BindXuid, GoTo, TypeOK
  <2>2. QED
    BY <2>1, BusyAfter
<1>2. PICK n \in Names, x \in Xuids :
         /\ BoundName(players, n)
         /\ players' = [players EXCEPT ![IndexOfName(players, n)].xuid = x]
  BY DEF BindXuid
<1> DEFINE k == IndexOfName(players, n)
<1>3. players \in Seq(Entries)
  BY DEF TypeOK
<1>4. k \in 1..Len(players) /\ players[k].playerName = n
  BY <1>2, <1>3, IndexOfNameFound
<1>5. players' = [players EXCEPT ![k].xuid = x]
  BY <1>2
<1> HIDE DEF k
<1>6. Bindings' = (Bindings \ {players[k]}) \cup {[players[k] EXCEPT !.xuid = x]}
  BY <1>3, <1>4, <1>5, XuidReplaces DEF Bindings
<1>7. players[k] \in Bindings
  BY <1>3, <1>4, Elements DEF Bindings
<1>8. Leaving' = Leaving
  <2>1. pc[t] = "idle" /\ pc'[t] = "emit"
    BY DEF BindXuid, MayBegin, GoTo, TypeOK
  <2>2. QED
    BY <2>1, LeavingAfter
<1>9. Table!SetXuid(n, x)
  BY <1>1, <1>4, <1>6, <1>7, <1>8 DEF Table!SetXuid, Bindings, Busy, Leaving
<1>10. x \in Xuids \cup {NoXuid}
  OBVIOUS
<1>11. QED
  BY <1>9, <1>10 DEF Table!Next

\* The file is what the list was, or empty because an operation had opened it.
LEMMA SimulateRestart ==
    ASSUME IInv, Serial, Restart PROVE Table!Next
<1> TypeOK /\ Disk
  BY DEF IInv
<1>1. ~Busy' /\ Leaving' = {}
  BY DEF Restart, Busy, Leaving
<1>2. file = players \/ (Busy /\ file = <<>>)
  BY DEF Disk, SavedWhenIdle, TypeOK, Labels, CopyLabels, WriteLabels, Busy
<1>3. Bindings' = Bindings \/ (Busy /\ Bindings' = {})
  BY <1>2 DEF Restart, Bindings, ToSet
<1>4. Table!Restart
  BY <1>1, <1>3 DEF Table!Restart, Bindings, Busy, Leaving
<1>5. QED
  BY <1>4 DEF Table!Next

LEMMA SimulateStep ==
    ASSUME IInv, Serial, [Next]_vars PROVE Table!Next \/ UNCHANGED Table!vars
<1> TypeOK /\ Alone
  BY DEF IInv
<1>1. ASSUME NEW t \in Threads, players' = players,
             BinderStep(t) \/ BindXuid(t) \/ Emit(t) \/ CloseFile(t),
             pc[t] # "unbindRemove", pc'[t] # "unbindRemove"
      PROVE  Table!Next \/ UNCHANGED Table!vars
  <2>1. Bindings' = Bindings
    BY <1>1 DEF Bindings
  <2>2. Leaving = {} /\ Leaving' = {}
    BY <1>1, LeavingAfter
  <2>3. CASE Busy'
    BY <2>1, <2>2, <2>3, SimulateBegin
  <2>4. CASE ~Busy'
    BY <2>1, <2>2, <2>4, SimulateReturn
  <2>5. QED
    BY <2>3, <2>4
<1>2. ASSUME NEW t \in Binders, BinderStep(t)
      PROVE  Table!Next \/ UNCHANGED Table!vars
  <2>1. t \in Threads
    BY DEF Threads
  <2>2. CASE BindPush(t)
    BY <2>1, <2>2, SimulatePush
  <2>3. CASE UnbindRemove(t)
    BY <2>1, <2>3, SimulateRemove
  <2>4. CASE UnbindCheck(t)
    BY <2>1, <2>4, SimulateCheck
  <2>5. CASE BindScan(t) \/ BindCheck(t) \/ UnbindScan(t)
    <3>1. players' = players
      BY <2>5 DEF BindScan, BindCheck, UnbindScan
    <3>2. pc[t] # "unbindRemove" /\ pc'[t] # "unbindRemove"
      BY <2>1, <2>5
         DEF BindScan, BindCheck, UnbindScan, MayBegin, Return, GoTo, TypeOK
    <3>3. QED
      BY <1>1, <1>2, <2>1, <3>1, <3>2
  <2>6. QED
    BY <1>2, <2>2, <2>3, <2>4, <2>5 DEF BinderStep
<1>3. ASSUME NEW t \in Joiners, BindXuid(t)
      PROVE  Table!Next \/ UNCHANGED Table!vars
  BY <1>3, SimulateXuid DEF Threads
<1>4. ASSUME NEW t \in Threads, Emit(t) \/ CloseFile(t)
      PROVE  Table!Next \/ UNCHANGED Table!vars
  <2>1. players' = players
    BY <1>4 DEF Emit, CloseFile
  <2>2. pc[t] # "unbindRemove" /\ pc'[t] # "unbindRemove"
    BY <1>4 DEF Emit, CloseFile, Return, GoTo, TypeOK
  <2>3. QED
    BY <1>1, <1>4, <2>1, <2>2
<1>5. CASE Restart
  BY <1>5, SimulateRestart
<1>6. CASE UNCHANGED vars
  <2>1. Bindings' = Bindings /\ Busy' = Busy /\ Leaving' = Leaving
    BY <1>6 DEF vars, local, Bindings, Busy, Leaving
  <2>2. QED
    BY <2>1, SimulateStutter
<1>7. QED
  BY <1>2, <1>3, <1>4, <1>5, <1>6 DEF Next

\* bind, unbind and bindXuid, one operation at a time, behave as a table in which
\* an account and a name occur at most once and which survives a restart.
THEOREM Implements == ASSUME Serial PROVE Spec => KeepsTable
<1>1. Spec => []IInv
  BY Invariance DEF Tidy
<1>2. IInv /\ [Next]_vars => [Table!Next]_(Table!vars)
  BY SimulateStep
<1>3. QED
  BY <1>1, <1>2, SimulateInit, PTL DEF Spec, KeepsTable, Table!Spec

=============================================================================
