-------------------------- MODULE StateStoreProofs --------------------------
(***************************************************************************)
(* Proofs about the state store, for every number of step names, every    *)
(* backup cap and every bound on writes, copies and crashes.              *)
(***************************************************************************)
EXTENDS StateStore, WellFoundedInduction, TLAPS

USE BoundsAssumption

\* What the proof of AtomicPersist carries: the write counter stays a
\* document id and the corruption counter a natural.
PersistInv ==
    /\ written \in Docs
    /\ corruptions \in Nat
    /\ AtomicPersist

LEMMA InitPersist == Init => PersistInv
BY DEF Init, PersistInv, AtomicPersist, Docs

LEMMA NextPersist == PersistInv /\ [Next]_vars => PersistInv'
<1> SUFFICES ASSUME PersistInv, [Next]_vars PROVE PersistInv'
  OBVIOUS
<1>1. CASE WriteState
  \* the only write of state.json by the program: a whole new document
  BY <1>1 DEF WriteState, PersistInv, AtomicPersist, Docs
<1>2. CASE \E n \in Names : BackupCopy(n) \/ TornCopy(n)
  \* copy2 writes the backup file, never state.json
  BY <1>2 DEF BackupCopy, TornCopy, PersistInv, AtomicPersist
<1>3. CASE Rotate \/ Crash \/ Load
  BY <1>3 DEF Rotate, Crash, Load, PersistInv, AtomicPersist
<1>4. CASE CorruptState
  BY <1>4 DEF CorruptState, PersistInv, AtomicPersist
<1>5. CASE Repair
  \* repair runs only on a damaged state.json, which needs a corruption
  <2>1. stateFile = Corrupt
    BY <1>5 DEF Repair
  <2>2. corruptions # 0
    BY <2>1 DEF PersistInv, AtomicPersist, Docs, Corrupt
  <2>. QED
    BY <1>5, <2>2 DEF Repair, PersistInv, AtomicPersist
<1>6. CASE UNCHANGED vars
  BY <1>6 DEF vars, PersistInv, AtomicPersist
<1>. QED
  BY <1>1, <1>2, <1>3, <1>4, <1>5, <1>6 DEF Next

\* Spec "Atomic persist": whatever crashes happen inside backup_state or
\* between writes, state.json parses unless damaged from outside; this
\* rests on _write_state renaming a complete temp file over it.
THEOREM PersistSafety == Spec => []AtomicPersist
<1>1. PersistInv => AtomicPersist
  BY DEF PersistInv
<1>. QED
  BY <1>1, InitPersist, NextPersist, PTL DEF Spec

----
(* Type correctness                                                        *)

\* A nonempty set of step names has a greatest element (the least-number
\* principle on the distances K - n, from the well-foundedness of <).
LEMMA GreatestExists ==
    ASSUME NEW K \in Nat, NEW S \in SUBSET (1..K), S # {}
    PROVE  \E n \in S : \A m \in S : ~(m > n)
<1> DEFINE T == {K - n : n \in S}
<1>1. \A n \in S : K - n \in Nat
  OBVIOUS
<1>2. T \subseteq Nat
  BY <1>1 DEF T
<1>3. T # {}
  BY DEF T
<1>4. PICK x \in T : \A y \in T : ~(<<y, x>> \in OpToRel(<, Nat))
  BY <1>2, <1>3, WFMin, NatLessThanWellFounded
<1>5. \A y \in T : ~(y < x)
  BY <1>2, <1>4 DEF OpToRel
<1>6. PICK n \in S : x = K - n
  BY DEF T
<1>7. \A m \in S : ~(K - m < K - n)
  BY <1>5, <1>6 DEF T
<1>. QED
  BY <1>7

\* When some backup parses, attempt_repair's reverse-name scan stops at one
\* that parses: the document it restores is one _write_state produced.
LEMMA RepairChoiceParses ==
    ASSUME bak \in [Names -> Docs \cup {Corrupt, Absent}],
           \E n \in Existing : Parses(n)
    PROVE  /\ RepairChoice \in Existing
           /\ bak[RepairChoice] \in Docs
<1> DEFINE S == {n \in Existing : Parses(n)}
<1>1. S \in SUBSET (1..NNames) /\ S # {}
  BY DEF Existing, Names
<1>2. PICK g \in S : \A m \in S : ~(m > g)
  BY <1>1, GreatestExists
<1>3. /\ g \in Existing /\ Parses(g)
      /\ \A m \in Existing : m > g => ~Parses(m)
  BY <1>2
<1>4. /\ RepairChoice \in Existing /\ Parses(RepairChoice)
  BY <1>3 DEF RepairChoice
<1>. QED
  BY <1>4 DEF Parses

LEMMA InitTypeOK == Init => TypeOK
BY DEF Init, TypeOK, Docs, Names, Corrupt, Absent, None

LEMMA NextTypeOK == TypeOK /\ [Next]_vars => TypeOK'
<1> SUFFICES ASSUME TypeOK, [Next]_vars PROVE TypeOK'
  OBVIOUS
<1>1. CASE WriteState
  BY <1>1 DEF WriteState, TypeOK, Docs
<1>2. ASSUME NEW n \in Names, BackupCopy(n) PROVE TypeOK'
  BY <1>2 DEF BackupCopy, TypeOK
<1>3. ASSUME NEW n \in Names, TornCopy(n) PROVE TypeOK'
  BY <1>3 DEF TornCopy, TypeOK, None, Corrupt
<1>4. CASE Rotate
  BY <1>4 DEF Rotate, TypeOK
<1>5. CASE Crash
  BY <1>5 DEF Crash, TypeOK, None
<1>6. CASE CorruptState
  BY <1>6 DEF CorruptState, TypeOK
<1>7. CASE Load
  BY <1>7 DEF Load, TypeOK
<1>8. CASE Repair
  <2>1. bak[RepairChoice] \in Docs
    BY <1>8, RepairChoiceParses DEF Repair, TypeOK
  <2>. QED
    BY <1>8, <2>1 DEF Repair, TypeOK
<1>9. CASE UNCHANGED vars
  BY <1>9 DEF vars, TypeOK
<1>. QED
  BY <1>1, <1>2, <1>3, <1>4, <1>5, <1>6, <1>7, <1>8, <1>9 DEF Next

\* Every file the store touches holds a document some _write_state
\* produced, a torn copy or nothing, and a live process always holds a
\* parsed RunState: in particular resume --repair only ever loads a backup
\* that parses, whatever crashes left the other backups torn.
THEOREM StoreTypeCorrect == Spec => []TypeOK
BY InitTypeOK, NextTypeOK, PTL DEF Spec

----
(* Refinement of StoreDocument.  The store implements the abstract        *)
(* document under the mapping doc <- stateFile, latest <- written.  The   *)
(* argument needs that no file holds a document newer than the last       *)
(* write: then a repair restores a document committed before.            *)
----

\* Every document in state.json or a backup file was committed already.
Committed(x) == x \in 1..written

CommittedInv ==
    /\ TypeOK
    /\ Committed(stateFile) \/ stateFile = Corrupt
    /\ \A n \in Names : Committed(bak[n]) \/ bak[n] \in {Corrupt, Absent}

LEMMA InitCommitted == Init => CommittedInv
BY InitTypeOK DEF Init, CommittedInv, Committed

LEMMA NextCommitted == CommittedInv /\ [Next]_vars => CommittedInv'
<1> SUFFICES ASSUME CommittedInv, [Next]_vars PROVE CommittedInv'
  OBVIOUS
<1>1. TypeOK'
  BY NextTypeOK DEF CommittedInv
<1>2. CASE WriteState
  BY <1>1, <1>2 DEF WriteState, CommittedInv, Committed, TypeOK, Docs
<1>3. ASSUME NEW n \in Names, BackupCopy(n) \/ TornCopy(n) PROVE CommittedInv'
  BY <1>1, <1>3 DEF BackupCopy, TornCopy, CommittedInv, Committed, TypeOK
<1>4. CASE Rotate
  BY <1>1, <1>4 DEF Rotate, CommittedInv, Committed, TypeOK
<1>5. CASE Crash \/ CorruptState \/ Load \/ UNCHANGED vars
  BY <1>1, <1>5 DEF Crash, CorruptState, Load, vars, CommittedInv, Committed
<1>6. CASE Repair
  <2>1. RepairChoice \in Names
    BY <1>6, RepairChoiceParses DEF Repair, CommittedInv, TypeOK, Existing
  <2>2. Committed(bak[RepairChoice])
    BY <1>6, <2>1, RepairChoiceParses DEF Repair, CommittedInv, TypeOK,
       Corrupt, Absent, Docs
  <2>. QED
    BY <1>1, <1>6, <2>2 DEF Repair, CommittedInv, Committed
<1>. QED
  BY <1>2, <1>3, <1>4, <1>5, <1>6 DEF Next

LEMMA InitRefines == Init => Document!Init
BY DEF Init, Document!Init

LEMMA NextRefines ==
    CommittedInv /\ [Next]_vars => [Document!Next]_<<stateFile, written>>
<1> SUFFICES ASSUME CommittedInv, [Next]_vars
             PROVE  [Document!Next]_<<stateFile, written>>
  OBVIOUS
<1>1. CASE WriteState
  \* _write_state renames a whole new document over state.json
  BY <1>1 DEF WriteState, Document!Next, Document!Commit
<1>2. CASE CorruptState
  BY <1>2 DEF CorruptState, Document!Next, Document!Damage, Document!Damaged,
     Corrupt
<1>3. CASE Repair
  \* only a damaged state.json is repaired, from a backup that parses
  <2>1. RepairChoice \in Names
    BY <1>3, RepairChoiceParses DEF Repair, CommittedInv, TypeOK, Existing
  <2>2. Committed(bak[RepairChoice])
    BY <1>3, <2>1, RepairChoiceParses DEF Repair, CommittedInv, TypeOK,
       Corrupt, Absent, Docs
  <2>. QED
    BY <1>3, <2>2 DEF Repair, Committed, Document!Next, Document!Restore,
       Document!Damaged, Corrupt
<1>4. CASE \/ \E n \in Names : BackupCopy(n) \/ TornCopy(n)
           \/ Rotate \/ Crash \/ Load \/ UNCHANGED vars
  \* copies, rotation, crashes and loads leave state.json alone
  BY <1>4 DEF BackupCopy, TornCopy, Rotate, Crash, Load, vars
<1>. QED
  BY <1>1, <1>2, <1>3, <1>4 DEF Next

\* Spec "Atomic persist" and 4.13 for every bound: the store implements
\* StoreDocument, so no crash of the orchestrator ever changes state.json
\* and resume --repair only ever puts back a document committed earlier.
THEOREM DocumentRefinement == Spec => PersistsDocuments
<1>1. Init => CommittedInv
  BY InitCommitted
<1>2. CommittedInv /\ [Next]_vars => CommittedInv'
  BY NextCommitted
<1>3. CommittedInv /\ [Next]_vars => [Document!Next]_<<stateFile, written>>
  BY NextRefines
<1>. QED
  BY <1>1, <1>2, <1>3, InitRefines, PTL
  DEF Spec, PersistsDocuments, Document!Spec

=============================================================================
