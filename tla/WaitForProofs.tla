---------------------------- MODULE WaitForProofs ----------------------------
(***************************************************************************)
(* Proofs about WaitFor, for every timeout, poll interval, set of          *)
(* min_count values and bound.                                             *)
(***************************************************************************)
EXTENDS WaitFor, TLAPS

USE WaitAssumption

\* While the loop runs nothing has been returned yet, and every poll so far
\* (the last one in particular) saw fewer than min_count matches: the fact
\* the timeout return relies on, since it reports the last poll's list.
LoopInv ==
    /\ pc # "done" => exitCode = NoExit /\ ~timedOut
    /\ pc = "start" => pollCount = 0
    /\ pc = "test" /\ pollCount >= 1 => matched < minCount

WaitInv == TypeOK /\ LoopInv /\ WaitOutcomeSound

LEMMA InitWaitInv == Init => WaitInv
<1> SUFFICES ASSUME Init PROVE WaitInv
    OBVIOUS
<1>1. TypeOK
  <2>1. pc \in {"start", "test", "done"} /\ minCount \in MinCounts
        /\ safe \in BOOLEAN /\ timedOut \in BOOLEAN
        BY DEF Init
  <2>2. clock \in Nat /\ files \in 0..MaxFiles /\ pollCount \in 0..MaxPolls
        /\ matched \in 0..MaxFiles /\ duration \in Nat
        BY DEF Init
  <2>3. exitCode \in {NoExit, 0, 2, 124}
        BY DEF Init, NoExit
  <2> QED BY <2>1, <2>2, <2>3 DEF TypeOK
<1>2. LoopInv
      BY DEF Init, LoopInv
<1>3. WaitOutcomeSound
      BY DEF Init, WaitOutcomeSound, NoExit
<1> QED BY <1>1, <1>2, <1>3 DEF WaitInv

LEMMA NextWaitInv == WaitInv /\ [Next]_vars => WaitInv'
<1> SUFFICES ASSUME WaitInv, [Next]_vars PROVE WaitInv'
    OBVIOUS
<1>1. CASE Start
      BY <1>1 DEF WaitInv, Start, TypeOK, LoopInv, WaitOutcomeSound, NoExit
<1>2. CASE TimeOut
      BY <1>2 DEF WaitInv, TimeOut, Deadline, TypeOK, LoopInv,
                  WaitOutcomeSound, NoExit
<1>3. CASE Poll
  <2> PICK d \in 0..1 :
        /\ pollCount' = pollCount + 1
        /\ matched' = files
        /\ IF Enough(files)
           THEN /\ pc' = "done"
                /\ exitCode' = 0
                /\ duration' = IF clock + d = 0 /\ files > 0 THEN 1
                                                            ELSE clock + d
                /\ clock' = clock + d
                /\ UNCHANGED timedOut
           ELSE /\ clock' = IF clock + d + PollTicks < Timeout
                            THEN clock + d + PollTicks ELSE clock + d
                /\ UNCHANGED <<pc, exitCode, duration, timedOut>>
      BY <1>3 DEF Poll
  <2>1. CASE Enough(files)
        BY <1>3, <2>1 DEF WaitInv, Poll, Enough, TypeOK, LoopInv,
                          WaitOutcomeSound, NoExit
  <2>2. CASE ~Enough(files)
        BY <1>3, <2>2 DEF WaitInv, Poll, Enough, TypeOK, LoopInv,
                          WaitOutcomeSound, NoExit
  <2> QED BY <2>1, <2>2
<1>4. CASE Produce
      BY <1>4 DEF WaitInv, Produce, TypeOK, LoopInv, WaitOutcomeSound
<1>5. CASE UNCHANGED vars
      BY <1>5 DEF WaitInv, vars, TypeOK, LoopInv, WaitOutcomeSound
<1> QED BY <1>1, <1>2, <1>3, <1>4, <1>5 DEF Next

\* Whatever the producer does and however long a glob takes, execute()
\* never reports a timeout while a poll had seen min_count matches, nor
\* before the deadline, and never a success without min_count matches.
THEOREM WaitOutcomeSafety == Spec => []WaitOutcomeSound
<1>1. Init => WaitInv
      BY InitWaitInv
<1>2. WaitInv /\ [Next]_vars => WaitInv'
      BY NextWaitInv
<1>3. WaitInv => WaitOutcomeSound
      BY DEF WaitInv
<1> QED BY <1>1, <1>2, <1>3, PTL DEF Spec

\* The same induction gives the type invariant checked by the runs.
THEOREM WaitTypeCorrect == Spec => []TypeOK
<1>1. WaitInv => TypeOK
      BY DEF WaitInv
<1> QED BY InitWaitInv, NextWaitInv, <1>1, PTL DEF Spec
=============================================================================
