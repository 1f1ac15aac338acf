---------------------------- MODULE ForEachProofs ----------------------------
(***************************************************************************)
(* Proofs about ForEach, for every number of items, nested steps, crashes *)
(* and resumes.                                                            *)
(***************************************************************************)
EXTENDS ForEach, SequenceTheorems, WellFoundedInduction, TLAPS

USE ForEachAssumption

\* The complete prefix that resume keeps exists: its length is the least k
\* that is the whole list or is followed by an incomplete iteration.
LEMMA KeptCountType ==
    ASSUME NEW L \in Seq([Children -> Exits]), diskList = L
    PROVE  /\ KeptCount \in 0..Len(L)
           /\ \A j \in 1..KeptCount : IterationComplete(j)
<1> DEFINE T == {k \in 0..Len(L) : k = Len(L) \/ ~IterationComplete(k + 1)}
<1>0. Len(L) \in Nat
      BY LenProperties
<1>1. T \subseteq Nat /\ T # {}
      BY <1>0
<1>2. PICK x \in T : \A y \in T : ~(<<y, x>> \in OpToRel(<, Nat))
      BY <1>1, WFMin, NatLessThanWellFounded
<1>3. \A y \in T : ~(y < x)
      BY <1>1, <1>2 DEF OpToRel
<1>6. x \in T
      BY <1>2
<1>4. /\ \A j \in 1..x : IterationComplete(j)
      /\ x < Len(L) => ~IterationComplete(x + 1)
  <2>1. x \in 0..Len(L)
        BY <1>6
  <2>2. ASSUME NEW j \in 1..x, ~IterationComplete(j)
        PROVE  FALSE
    <3>1. j - 1 \in T
          BY <1>0, <2>1, <2>2
    <3>2. j - 1 < x
          BY <2>1
    <3> QED BY <3>1, <3>2, <1>3, Zenon
  <2>3. x < Len(L) => ~IterationComplete(x + 1)
        BY <1>6, <2>1
  <2> QED BY <2>2, <2>3
<1>5. \E k \in 0..Len(L) :
        /\ \A j \in 1..k : IterationComplete(j)
        /\ k < Len(L) => ~IterationComplete(k + 1)
      BY <1>6, <1>4
<1> QED BY <1>5 DEF KeptCount
\* A sequence whose length is one less than an index in 1..n + 1 has at most
\* n elements (stated for any sequence, so that it applies to primed ones).
LEMMA LenBelow ==
    ASSUME NEW S, NEW s \in Seq(S), NEW n \in Nat, NEW k \in 1..n + 1,
           Len(s) = k - 1
    PROVE  Len(s) <= n
OBVIOUS

\* Flat key (i, c) holds the status of loop_results' exit code.
FlatAgrees(i, c) == diskFlat[i][c] = StatusOf(memRes[i][c])

\* The flat write loop has already written (i, c).
Written(i, c) == i < fi \/ (i = fi /\ c < fc)

\* A saved aggregate always has one entry per item.
ListInv == Len(diskList) <= NItems /\ (listSaved => Len(diskList) = NItems)

\* Only item resolution records an error, so none is pending in the loop.
ErrInv == pc \in {"check", "iter", "flush"} => ~memErr

\* loop_results has one entry per index before idx.
IterInv == pc = "iter" => Len(memRes) = idx - 1

\* The flat writes agree with loop_results up to the write position.
FlushInv ==
    pc = "flush" =>
        /\ Len(memRes) = NItems
        /\ \A i \in Items, c \in Children : Written(i, c) => FlatAgrees(i, c)

\* After the list write, both views hold loop_results.
RestInv ==
    pc = "rest" /\ ~memErr =>
        /\ listSaved /\ diskList = memRes /\ Len(memRes) = NItems
        /\ \A i \in Items, c \in Children : FlatAgrees(i, c)

ViewsInv == TypeOK /\ ListInv /\ ErrInv /\ IterInv /\ FlushInv /\ RestInv

LEMMA InitViewsInv == Init => ViewsInv
<1> SUFFICES ASSUME Init PROVE ViewsInv
    OBVIOUS
<1>1. /\ proc \in {"running", "down", "finished"}
      /\ resumed \in BOOLEAN /\ itemsFrom \in BOOLEAN
      /\ onError \in {"stop", "continue"}
      /\ pc \in {"check", "items", "iter", "flush", "rest"}
      /\ memErr \in BOOLEAN /\ listSaved \in BOOLEAN
      BY DEF Init
<1>2. /\ idx \in 1..NItems + 1 /\ child \in Children
      /\ fi \in 1..NItems + 1 /\ fc \in Children
      /\ crashes \in 0..MaxCrashes /\ resumes \in 0..MaxResumes
      /\ ran \subseteq Items \X Children
      BY DEF Init, Children
<1>3. /\ cur \in [Children -> Exits]
      /\ memRes \in Seq([Children -> Exits]) /\ Len(memRes) <= NItems
      /\ diskList \in Seq([Children -> Exits])
      /\ diskFlat \in [Items -> [Children -> {Absent, "completed", "failed"}]]
      /\ diskStatus \in {"running", "completed"}
      BY DEF Init, Exits, NoFlat
<1>4. TypeOK
      BY <1>1, <1>2, <1>3 DEF TypeOK
<1> QED BY <1>4 DEF Init, ViewsInv, ListInv, ErrInv, IterInv, FlushInv, RestInv

LEMMA NextViewsInv == ViewsInv /\ [Next]_vars => ViewsInv'
<1> SUFFICES ASSUME ViewsInv, [Next]_vars PROVE ViewsInv'
    OBVIOUS
<1> USE DEF ViewsInv
<1>1. CASE Check
  <2>1. pc' = "items"
        BY <1>1, NItems # 0 DEF Check, ListInv, TypeOK
  <2>2. TypeOK'
        BY <1>1, <2>1 DEF Check, TypeOK
  <2>3. (ListInv /\ ErrInv /\ IterInv /\ FlushInv /\ RestInv)'
        BY <1>1, <2>1 DEF Check, ListInv, ErrInv, IterInv, FlushInv, RestInv
  <2> QED BY <2>2, <2>3
<1>2. CASE ItemsError
  <2>1. TypeOK'
        BY <1>2 DEF ItemsError, TypeOK
  <2>2. (ListInv /\ ErrInv /\ IterInv /\ FlushInv /\ RestInv)'
        BY <1>2 DEF ItemsError, ListInv, ErrInv, IterInv, FlushInv, RestInv
  <2> QED BY <2>1, <2>2
<1>3. CASE ResolveItems
  <2>1. /\ memRes' \in Seq([Children -> Exits])
        /\ Len(memRes') = idx' - 1
        /\ idx' \in 1..NItems + 1
    <3>0. diskList \in Seq([Children -> Exits]) /\ Len(diskList) <= NItems
          BY DEF TypeOK, ListInv
    <3>1. CASE resumed /\ listSaved
      <4>1. KeptCount \in 0..Len(diskList)
            BY <3>0, KeptCountType
      <4>2. memRes' = SubSeq(diskList, 1, KeptCount) /\ idx' = KeptCount + 1
            BY <1>3, <3>1 DEF ResolveItems
      <4>3. \A i \in 1..KeptCount : diskList[i] \in [Children -> Exits]
            BY <3>0, <4>1, ElementOfSeq
      <4>4. /\ SubSeq(diskList, 1, KeptCount) \in Seq([Children -> Exits])
            /\ Len(SubSeq(diskList, 1, KeptCount))
                 = IF 1 <= KeptCount THEN KeptCount ELSE 0
            BY <3>0, <4>1, <4>3, SubSeqProperties
      <4> QED BY <3>0, <4>1, <4>2, <4>4
    <3>2. CASE ~(resumed /\ listSaved)
      <4>1. memRes' = <<>> /\ idx' = 1
            BY <1>3, <3>2 DEF ResolveItems
      <4> QED BY <4>1
    <3> QED BY <3>1, <3>2
  <2>2. /\ pc' = "iter" /\ memErr' = FALSE /\ child' = 1
        /\ UNCHANGED <<proc, resumed, onError, itemsFrom, cur, fi, fc,
                       diskFlat, listSaved, diskList, diskStatus, crashes,
                       resumes, ran>>
        BY <1>3 DEF ResolveItems
  <2>3. Len(memRes') <= NItems
        BY <2>1, LenBelow, Zenon
  <2>4. child' \in Children
        BY <2>2 DEF Children
  <2>5. TypeOK'
        BY <2>1, <2>2, <2>3, <2>4 DEF TypeOK
  <2>6. (ListInv /\ ErrInv /\ IterInv /\ FlushInv /\ RestInv)'
        BY <2>1, <2>2 DEF ListInv, ErrInv, IterInv, FlushInv, RestInv
  <2> QED BY <2>5, <2>6
<1>4. CASE RunChild
  <2>0. /\ idx \in 1..NItems /\ Len(memRes) = idx - 1
        /\ memRes \in Seq([Children -> Exits])
        /\ child \in Children /\ cur \in [Children -> Exits]
        BY <1>4 DEF RunChild, TypeOK, IterInv
  <2>1. PICK e \in Exits :
          LET it == [cur EXCEPT ![child] = e]
          IN  IF child = NChildren
              THEN /\ memRes' = Append(memRes, it)
                   /\ idx' = idx + 1 /\ child' = 1
                   /\ cur' = [c \in Children |-> 0]
              ELSE /\ cur' = it /\ child' = child + 1
                   /\ UNCHANGED <<memRes, idx>>
        BY <1>4 DEF RunChild
  <2>2. [cur EXCEPT ![child] = e] \in [Children -> Exits]
        BY <2>0
  <2>3. /\ memRes' \in Seq([Children -> Exits])
        /\ Len(memRes') = idx' - 1
        /\ idx' \in 1..NItems + 1
        /\ child' \in Children /\ cur' \in [Children -> Exits]
    <3>1. CASE child = NChildren
      <4>1. /\ memRes' = Append(memRes, [cur EXCEPT ![child] = e])
            /\ idx' = idx + 1 /\ child' = 1
            /\ cur' = [c \in Children |-> 0]
            BY <2>1, <3>1
      <4>2. /\ Append(memRes, [cur EXCEPT ![child] = e]) \in Seq([Children -> Exits])
            /\ Len(Append(memRes, [cur EXCEPT ![child] = e])) = Len(memRes) + 1
            BY <2>0, <2>2, AppendProperties
      <4> QED BY <2>0, <4>1, <4>2 DEF Children, Exits
    <3>2. CASE child # NChildren
      <4>1. /\ cur' = [cur EXCEPT ![child] = e] /\ child' = child + 1
            /\ UNCHANGED <<memRes, idx>>
            BY <2>1, <3>2
      <4> QED BY <2>0, <2>2, <3>2, <4>1 DEF Children
    <3> QED BY <3>1, <3>2
  <2>4. /\ ran' = ran \cup {<<idx, child>>}
        /\ UNCHANGED <<proc, resumed, onError, itemsFrom, pc, memErr, fi, fc,
                       diskFlat, listSaved, diskList, diskStatus, crashes,
                       resumes>>
        BY <1>4 DEF RunChild
  <2>5. TypeOK'
    <3>1. ran' \subseteq Items \X Children
          BY <2>0, <2>4 DEF TypeOK, Items
    <3>2. Len(memRes') <= NItems
          BY <2>3, LenBelow, Zenon
    <3> QED BY <2>3, <2>4, <3>1, <3>2 DEF TypeOK
  <2>6. (ListInv /\ ErrInv /\ IterInv /\ FlushInv /\ RestInv)'
        BY <1>4, <2>3, <2>4 DEF RunChild, ListInv, ErrInv, IterInv, FlushInv, RestInv
  <2> QED BY <2>5, <2>6
<1>5. CASE LoopDone
  <2>1. Len(memRes) = NItems
        BY <1>5 DEF LoopDone, TypeOK, IterInv
  <2>2. \A i \in Items, c \in Children : ~Written(i, c)'
        BY <1>5 DEF LoopDone, Written, Items, Children
  <2>3. TypeOK'
        BY <1>5 DEF LoopDone, TypeOK, Children
  <2>4. (ListInv /\ ErrInv /\ IterInv /\ FlushInv /\ RestInv)'
        BY <1>5, <2>1, <2>2 DEF LoopDone, ListInv, ErrInv, IterInv, FlushInv, RestInv
  <2> QED BY <2>3, <2>4
<1>6. CASE Flush
  <2>0. /\ Len(memRes) = NItems /\ fi \in Items /\ fc \in Children
        /\ memRes \in Seq([Children -> Exits])
        /\ diskFlat \in [Items -> [Children -> {Absent, "completed", "failed"}]]
        /\ \A i \in Items, c \in Children : Written(i, c) => FlatAgrees(i, c)
        BY <1>6 DEF Flush, TypeOK, FlushInv, Items
  <2>1. memRes[fi] \in [Children -> Exits]
        BY <2>0, ElementOfSeq DEF Items
  <2>2. StatusOf(memRes[fi][fc]) \in {"completed", "failed"}
        BY DEF StatusOf
  <2>3. /\ diskFlat' = [diskFlat EXCEPT ![fi][fc] = StatusOf(memRes[fi][fc])]
        /\ IF fc = NChildren THEN fi' = fi + 1 /\ fc' = 1
                             ELSE fc' = fc + 1 /\ UNCHANGED fi
        /\ UNCHANGED <<proc, resumed, onError, itemsFrom, pc, idx, child, cur,
                       memRes, memErr, listSaved, diskList, diskStatus, crashes,
                       resumes, ran>>
        BY <1>6 DEF Flush
  <2>4. fi' \in 1..NItems + 1 /\ fc' \in Children
        BY <2>0, <2>3 DEF Items, Children
  <2>5. diskFlat' \in [Items -> [Children -> {Absent, "completed", "failed"}]]
        BY <2>0, <2>2, <2>3
  <2>6. TypeOK'
        BY <2>3, <2>4, <2>5 DEF TypeOK
  <2>7. ASSUME NEW i \in Items, NEW c \in Children, Written(i, c)'
        PROVE  FlatAgrees(i, c)'
    <3>1. CASE i = fi /\ c = fc
          BY <2>0, <2>3, <3>1 DEF FlatAgrees
    <3>2. CASE ~(i = fi /\ c = fc)
      <4>1. Written(i, c)
            BY <2>0, <2>3, <2>7, <3>2 DEF Written, Items, Children
      <4>2. diskFlat'[i][c] = diskFlat[i][c]
            BY <2>0, <2>3, <3>2
      <4> QED BY <2>0, <2>3, <4>1, <4>2 DEF FlatAgrees
    <3> QED BY <3>1, <3>2
  <2>8. FlushInv'
        BY <2>0, <2>3, <2>7 DEF FlushInv
  <2>9. (ListInv /\ ErrInv /\ IterInv /\ RestInv)'
        BY <1>6, <2>3 DEF Flush, ListInv, ErrInv, IterInv, RestInv
  <2> QED BY <2>6, <2>8, <2>9
<1>7. CASE SaveList
  <2>0. /\ Len(memRes) = NItems /\ fi = NItems + 1 /\ ~memErr
        /\ memRes \in Seq([Children -> Exits])
        BY <1>7 DEF SaveList, TypeOK, FlushInv, ErrInv
  <2>1. \A i \in Items, c \in Children : FlatAgrees(i, c)
        BY <1>7, <2>0 DEF SaveList, FlushInv, Written, Items
  <2>2. /\ listSaved' = TRUE /\ diskList' = memRes /\ pc' = "rest"
        /\ UNCHANGED <<proc, resumed, onError, itemsFrom, idx, child, cur,
                       memRes, memErr, fi, fc, diskFlat, diskStatus, crashes,
                       resumes, ran>>
        BY <1>7 DEF SaveList
  <2>3. TypeOK'
        BY <2>0, <2>2 DEF TypeOK
  <2>4. (\A i \in Items, c \in Children : FlatAgrees(i, c))'
        BY <2>1, <2>2 DEF FlatAgrees
  <2>5. (ListInv /\ ErrInv /\ IterInv /\ FlushInv /\ RestInv)'
        BY <2>0, <2>2, <2>4 DEF ListInv, ErrInv, IterInv, FlushInv, RestInv
  <2> QED BY <2>3, <2>5
<1>8. CASE Rest
  <2>1. TypeOK'
        BY <1>8 DEF Rest, TypeOK
  <2>2. (ListInv /\ ErrInv /\ IterInv /\ FlushInv /\ RestInv)'
        BY <1>8 DEF Rest, ListInv, ErrInv, IterInv, FlushInv, RestInv,
                    FlatAgrees, Written
  <2> QED BY <2>1, <2>2
<1>9. CASE Crash
  <2>1. TypeOK'
        BY <1>9 DEF Crash, TypeOK
  <2>2. (ListInv /\ ErrInv /\ IterInv /\ FlushInv /\ RestInv)'
        BY <1>9 DEF Crash, ListInv, ErrInv, IterInv, FlushInv, RestInv,
                    FlatAgrees, Written
  <2> QED BY <2>1, <2>2
<1>10. CASE Resume
  <2>1. /\ cur' \in [Children -> Exits]
        /\ memRes' \in Seq([Children -> Exits]) /\ Len(memRes') <= NItems
        BY <1>10 DEF Resume, Exits
  <2>2. /\ proc' \in {"running", "down", "finished"}
        /\ resumed' \in BOOLEAN /\ onError' \in {"stop", "continue"}
        /\ pc' = "check" /\ memErr' = FALSE
        BY <1>10 DEF Resume
  <2>3. /\ idx' \in 1..NItems + 1 /\ child' \in Children
        /\ fi' \in 1..NItems + 1 /\ fc' \in Children
        /\ resumes' \in 0..MaxResumes
        BY <1>10 DEF Resume, Children, TypeOK
  <2>4. UNCHANGED <<itemsFrom, diskFlat, listSaved, diskList, diskStatus,
                    crashes>> /\ ran' = {}
        BY <1>10 DEF Resume
  <2>5. TypeOK'
        BY <2>1, <2>2, <2>3, <2>4 DEF TypeOK
  <2>6. (ListInv /\ ErrInv /\ IterInv /\ FlushInv /\ RestInv)'
        BY <2>2, <2>4 DEF ListInv, ErrInv, IterInv, FlushInv, RestInv
  <2> QED BY <2>5, <2>6
<1>11. CASE UNCHANGED vars
       BY <1>11 DEF vars, TypeOK, ListInv, ErrInv, IterInv, FlushInv,
                    RestInv, FlatAgrees, Written
<1> QED BY <1>1, <1>2, <1>3, <1>4, <1>5, <1>6, <1>7, <1>8, <1>9, <1>10,
           <1>11 DEF Next

\* Spec 9: every state a run, a crash and a resume can reach keeps the flat
\* Parent[i].Child statuses of state.json in agreement with its aggregate
\* list once the loop step of execute() has returned.
THEOREM LoopViewsSafety == Spec => []LoopViewsAgree
<1>1. ViewsInv => LoopViewsAgree
      BY DEF ViewsInv, LoopViewsAgree, RestInv, FlatAgrees
<1> QED BY <1>1, InitViewsInv, NextViewsInv, PTL DEF Spec

\* loop_results, the indices of the loop and the flat write loop, and the
\* nested-step state of _execute_for_each always have their types, and
\* loop_results never has more iterations than there are items.
THEOREM ForEachTypeCorrect == Spec => []TypeOK
<1>1. ViewsInv => TypeOK
      BY DEF ViewsInv
<1> QED BY <1>1, InitViewsInv, NextViewsInv, PTL DEF Spec

=============================================================================
