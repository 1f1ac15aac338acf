--------------------------- MODULE ExecutorProofs ---------------------------
(***************************************************************************)
(* Proofs about the step loop of Executor, for every number of steps,     *)
(* every validated workflow and every bound on retries and faults.        *)
(***************************************************************************)
EXTENDS Executor, TLAPS

USE NAssumption, WorkflowsAssumption, ExitCodesAssumption, BoundsAssumption

----
(* Lemmas about the helpers                                                *)
----

\* A goto target read from the `on` handlers is a step, `_end` or no goto.
LEMMA GotoTargetType ==
    ASSUME NEW w \in WorkflowType, NEW i \in Steps, NEW code \in Nat
    PROVE  LET h == w.on[i]
           IN  (IF h.always # NoGoto THEN h.always
                ELSE IF code = 0 THEN h.success ELSE h.failure) \in Targets
<1>1. w.on[i] \in Handlers
  BY DEF WorkflowType
<1>. QED
  BY <1>1 DEF Handlers

\* Where _handle_control_flow sends the loop: a cursor of the loop, `_end`
\* or the strict-flow stop.
LEMMA HandleControlFlowType ==
    ASSUME NEW i \in Steps, NEW r \in Result, wf \in WorkflowType
    PROVE  HandleControlFlow(i, r) \in 1..(N + 1) \cup {End, Stop}
<1>1. GotoTarget(i, r.exit) \in Targets
  <2>1. r.exit \in Nat
    BY DEF Result
  <2>. QED
    BY <2>1, GotoTargetType DEF GotoTarget
<1>. QED
  BY <1>1 DEF HandleControlFlow, Targets, Steps, End, NoGoto, Stop

\* A fresh or a loaded result table is well typed.
LEMMA EmptyStepsType == EmptySteps \in [Steps -> Result \cup {NoResult}]
  BY DEF EmptySteps

----
(* Type correctness.  TypeOK alone is not inductive: `orchestrate run`     *)
(* mints run id 1 from the fresh state, so the proof also carries that no  *)
(* run id exists before it.                                                *)
----

FreshRun == proc = "fresh" => runId = 0

----
(* Type correctness                                                        *)
----

LEMMA InitTypeOK == Init => TypeOK
<1> SUFFICES ASSUME Init PROVE TypeOK
  OBVIOUS
<1>1. wf \in WorkflowType
  BY DEF Init
<1>2. mem \in [Steps -> Result \cup {NoResult}]
      /\ diskSteps \in [Steps -> Result \cup {NoResult}]
  BY EmptyStepsType DEF Init
<1>3. /\ runId \in 0..MaxRuns /\ faults \in 0..MaxFaults
      /\ maxRetries \in 0..MaxGlobalRetries \cup {NoneRetries}
      /\ cursor \in 1..(N + 1) /\ attempt \in Nat
  BY DEF Init
<1>4. exitCode \in ProcessExits /\ diskStatus \in RunStatuses
  BY DEF Init, ProcessExits, RunStatuses
<1>. QED
  BY <1>1, <1>2, <1>3, <1>4 DEF Init, TypeOK

\* Starting a run over (run, or resume --force-restart) leaves the loop well
\* typed.
LEMMA StartFreshType ==
    ASSUME TypeOK, NEW c \in {"run", "resume"}, NEW err \in {"stop", "continue"},
           NEW mr \in 0..MaxGlobalRetries \cup {NoneRetries},
           runId + 1 \in 0..MaxRuns, StartFresh(c, err, mr),
           UNCHANGED <<wf, exitCode, faults>>
    PROVE  TypeOK'
<1>1. mem' \in [Steps -> Result \cup {NoResult}]
      /\ diskSteps' \in [Steps -> Result \cup {NoResult}]
  BY EmptyStepsType DEF StartFresh
<1>2. runId' \in 0..MaxRuns
  BY DEF StartFresh
<1>3. /\ proc' \in {"fresh", "running", "idle"} /\ cmd' \in {"run", "resume"}
      /\ phase' \in {"enter", "exec", "break", "closing"}
      /\ phase' = "exec" => cursor' \in Steps
      /\ attempt' \in Nat /\ resumeMode' \in BOOLEAN
      /\ onError' \in {"stop", "continue"} /\ doneAtResume' \subseteq Steps
  BY DEF StartFresh
<1>4. cursor' \in 1..(N + 1)
  BY DEF StartFresh
<1>5. maxRetries' \in 0..MaxGlobalRetries \cup {NoneRetries}
  BY DEF StartFresh
<1>6. diskStatus' \in RunStatuses
  BY DEF StartFresh, RunStatuses
<1>7. wf' \in WorkflowType /\ exitCode' \in ProcessExits /\ faults' \in 0..MaxFaults
  BY DEF TypeOK
<1>. QED
  BY <1>1, <1>2, <1>3, <1>4, <1>5, <1>6, <1>7 DEF TypeOK

LEMMA NextTypeOK == TypeOK /\ FreshRun /\ [Next]_vars => TypeOK'
<1> SUFFICES ASSUME TypeOK, FreshRun, [Next]_vars PROVE TypeOK'
  OBVIOUS
<1>. USE DEF TypeOK
<1>1. CASE Run
  <2>1. PICK err \in {"stop", "continue"}, mr \in 0..MaxGlobalRetries :
          StartFresh("run", err, mr)
    BY <1>1 DEF Run
  <2>2. runId + 1 \in 0..MaxRuns
    BY <1>1 DEF Run, FreshRun
  <2>. QED
    BY <1>1, <2>1, <2>2, StartFreshType DEF Run
<1>2. CASE Resume
  BY <1>2 DEF Resume, NoneRetries
<1>3. CASE ResumeCompleted
  BY <1>3 DEF ResumeCompleted, ProcessExits
<1>4. CASE ForceRestart
  BY <1>4, StartFreshType DEF ForceRestart, NoneRetries
<1>5. CASE ResumeSkip
  BY <1>5 DEF ResumeSkip, Steps
<1>6. CASE WhenFalse
  BY <1>6 DEF WhenFalse, Record, Skipped, Result, Statuses, Steps
<1>7. CASE WhenError
  BY <1>7 DEF WhenError, Record, Result, Statuses, Steps
<1>8. CASE Dispatch
  BY <1>8 DEF Dispatch, Steps
<1>9. CASE Retry
  BY <1>9 DEF Retry
<1>10. CASE Complete
  <2>1. PICK code \in ExitCodes :
          LET r    == ResultOf(code)
              next == HandleControlFlow(cursor, r)
          IN  /\ Record(cursor, r)
              /\ CASE next = End  -> phase' = "break" /\ UNCHANGED cursor
                   [] next = Stop -> phase' = "closing" /\ UNCHANGED cursor
                   [] OTHER       -> phase' = "enter" /\ cursor' = next
    BY <1>10 DEF Complete
  <2> DEFINE r == ResultOf(code)
             next == HandleControlFlow(cursor, r)
  <2>2. r \in Result
    BY DEF ResultOf, Result, Statuses
  <2>3. cursor \in Steps
    BY <1>10 DEF Complete
  <2>4. next \in 1..(N + 1) \cup {End, Stop}
    BY <2>2, <2>3, HandleControlFlowType
  <2>5. mem' \in [Steps -> Result \cup {NoResult}]
        /\ diskSteps' \in [Steps -> Result \cup {NoResult}]
    BY <2>1, <2>2 DEF Record
  <2>6. /\ phase' \in {"enter", "break", "closing"}
        /\ cursor' \in 1..(N + 1)
    <3>1. CASE next = End \/ next = Stop
      BY <2>1, <2>3, <3>1 DEF End, Stop
    <3>2. CASE next # End /\ next # Stop
      BY <2>1, <2>4, <3>2
    <3>. QED
      BY <3>1, <3>2
  <2>. QED
    BY <2>5, <2>6, <1>10 DEF Complete
<1>11. CASE Finish \/ Return
  <2>1. ReturnedExit(diskStatus) \in ProcessExits
    BY DEF ReturnedExit, ProcessExits
  <2>. QED
    BY <1>11, <2>1 DEF Finish, Return, RunStatuses
<1>12. CASE RetryCheckTypeError
  BY <1>12 DEF RetryCheckTypeError, ProcessExits, RunStatuses
<1>13. CASE Crash
  BY <1>13 DEF Crash, ProcessExits, Killed
<1>14. CASE Interrupt
  BY <1>14 DEF Interrupt, ProcessExits, RunStatuses
<1>15. CASE Raise
  BY <1>15 DEF Raise, RaiseExits, ProcessExits, RunStatuses
<1>16. CASE UNCHANGED vars
  BY <1>16 DEF vars
<1>. QED
  BY <1>1, <1>2, <1>3, <1>4, <1>5, <1>6, <1>7, <1>8, <1>9, <1>10, <1>11,
     <1>12, <1>13, <1>14, <1>15, <1>16 DEF Next, ExecutorStep

\* No run id has been minted before the first `orchestrate run`.
LEMMA NextFreshRun == TypeOK /\ FreshRun /\ [Next]_vars => FreshRun'
<1> SUFFICES ASSUME TypeOK, FreshRun, [Next]_vars PROVE FreshRun'
  OBVIOUS
<1>1. CASE proc' = "fresh"
  <2>1. proc = "fresh" /\ runId' = runId
    BY <1>1 DEF Next, ExecutorStep, vars, Run, StartFresh, Resume,
       ResumeCompleted, ForceRestart, ResumeSkip, WhenFalse, WhenError,
       Dispatch, Retry, Complete, Finish, Return, RetryCheckTypeError,
       Crash, Interrupt, Raise
  <2>. QED
    BY <2>1 DEF FreshRun
<1>. QED
  BY <1>1 DEF FreshRun

\* Every reachable state of the step loop is well typed.
THEOREM TypeCorrect == Spec => []TypeOK
<1>1. Init => TypeOK /\ FreshRun
  BY InitTypeOK DEF Init, FreshRun
<1>2. TypeOK /\ FreshRun /\ [Next]_vars => (TypeOK /\ FreshRun)'
  BY NextTypeOK, NextFreshRun
<1>. QED
  BY <1>1, <1>2, PTL DEF Spec

----
(* Resume never re-executes a step it loaded as completed or skipped.     *)
(* The invariant is inductive given the type invariant: the only actions  *)
(* that write a result or enter the retry loop are guarded by             *)
(* ~ResumeDone(cursor), which in a resumed run excludes every step of     *)
(* doneAtResume.                                                           *)
----

\* In a resumed run, a step whose result the loop may write or execute is
\* not one that was done when the state was loaded.
LEMMA NotDoneAtResume ==
    ASSUME TypeOK, ResumeNeverReexecutes, proc = "running", resumeMode,
           cursor \in Steps, ~ResumeDone(cursor)
    PROVE  cursor \notin doneAtResume
BY DEF ResumeNeverReexecutes, ResumeDone

\* Writing the result of a step outside doneAtResume keeps every step of
\* doneAtResume terminal.
LEMMA RecordKeepsDone ==
    ASSUME TypeOK, NEW i \in Steps, NEW r, Record(i, r),
           \A j \in doneAtResume : Terminal(mem[j]),
           i \notin doneAtResume, doneAtResume' = doneAtResume
    PROVE  \A j \in doneAtResume' : Terminal(mem'[j])
BY DEF Record, TypeOK

LEMMA NextResumeSafe ==
    TypeOK /\ ResumeNeverReexecutes /\ [Next]_vars => ResumeNeverReexecutes'
<1> SUFFICES ASSUME TypeOK, ResumeNeverReexecutes, [Next]_vars,
                    proc' = "running", resumeMode'
             PROVE  \A i \in doneAtResume' :
                       /\ Terminal(mem'[i])
                       /\ ~(phase' = "exec" /\ cursor' = i)
  BY DEF ResumeNeverReexecutes
<1>1. CASE Run \/ ForceRestart
  BY <1>1 DEF Run, ForceRestart, StartFresh
<1>2. CASE Resume
  BY <1>2 DEF Resume
<1>3. CASE ResumeCompleted \/ Retry \/ UNCHANGED vars
  BY <1>3 DEF ResumeCompleted, Retry, vars, ResumeNeverReexecutes
<1>4. CASE ResumeSkip
  BY <1>4 DEF ResumeSkip, ResumeNeverReexecutes
<1>5. CASE WhenFalse \/ WhenError
  <2>1. proc = "running" /\ resumeMode /\ cursor \in Steps /\ ~ResumeDone(cursor)
    BY <1>5 DEF WhenFalse, WhenError
  <2>2. cursor \notin doneAtResume
    BY <2>1, NotDoneAtResume
  <2>3. \A j \in doneAtResume' : Terminal(mem'[j])
    BY <1>5, <2>1, <2>2, RecordKeepsDone DEF WhenFalse, WhenError,
       ResumeNeverReexecutes
  <2>. QED
    BY <1>5, <2>3 DEF WhenFalse, WhenError
<1>6. CASE Dispatch
  <2>1. proc = "running" /\ resumeMode /\ cursor \in Steps /\ ~ResumeDone(cursor)
    BY <1>6 DEF Dispatch
  <2>2. cursor \notin doneAtResume
    BY <2>1, NotDoneAtResume
  <2>. QED
    BY <1>6, <2>1, <2>2 DEF Dispatch, ResumeNeverReexecutes
<1>7. CASE Complete
  <2>1. proc = "running" /\ resumeMode /\ phase = "exec" /\ cursor \in Steps
    BY <1>7 DEF Complete, TypeOK
  <2>2. cursor \notin doneAtResume
    BY <2>1 DEF ResumeNeverReexecutes
  <2>3. PICK code \in ExitCodes :
          /\ Record(cursor, ResultOf(code))
          /\ phase' \in {"enter", "break", "closing"}
    <3>1. PICK code \in ExitCodes :
            LET next == HandleControlFlow(cursor, ResultOf(code))
            IN  /\ Record(cursor, ResultOf(code))
                /\ CASE next = End  -> phase' = "break" /\ UNCHANGED cursor
                     [] next = Stop -> phase' = "closing" /\ UNCHANGED cursor
                     [] OTHER       -> phase' = "enter" /\ cursor' = next
      BY <1>7 DEF Complete
    <3>. QED
      BY <3>1
  <2>4. \A j \in doneAtResume' : Terminal(mem'[j])
    BY <1>7, <2>1, <2>2, <2>3, RecordKeepsDone DEF Complete, ResumeNeverReexecutes
  <2>. QED
    BY <2>3, <2>4
<1>8. CASE Finish
  \* the loop is left: neither a result nor the retry loop changes
  BY <1>8 DEF Finish, ResumeNeverReexecutes
<1>9. CASE Return \/ RetryCheckTypeError \/ Crash \/ Interrupt \/ Raise
  BY <1>9 DEF Return, RetryCheckTypeError, Crash, Interrupt, Raise
<1>. QED
  BY <1>1, <1>2, <1>3, <1>4, <1>5, <1>6, <1>7, <1>8, <1>9 DEF Next, ExecutorStep

\* A resumed run neither rewrites nor re-enters the retry loop of a step
\* that state.json recorded as completed or skipped (executor.py:125-146).
THEOREM ResumeSafety == Spec => []ResumeNeverReexecutes
<1>1. Init => ResumeNeverReexecutes
  BY DEF Init, ResumeNeverReexecutes
<1>2. TypeOK /\ ResumeNeverReexecutes /\ [Next]_vars => ResumeNeverReexecutes'
  BY NextResumeSafe
<1>. QED
  BY <1>1, <1>2, TypeCorrect, PTL DEF Spec

----
(* The step results of a completed run are frozen.  CompletedRunFrozen is *)
(* an action property; it follows from an invariant: an execution that    *)
(* has not yet reached update_status('completed') never runs on a run     *)
(* whose status is completed.  Only such an execution writes step         *)
(* results; resume returns early on a completed run and --force-restart   *)
(* mints a new run id.  The invariant leaves the closing phase out: there  *)
(* the status is completed while the process may still be interrupted.    *)
----

\* A step loop in progress (before its closing phase) belongs to a run
\* that is not completed: update_status('completed') is written only as the
\* loop is left, and resume does not start the loop of a completed run.
LoopNotCompleted ==
    proc = "running" /\ phase # "closing" => diskStatus # "completed"

LEMMA NextLoopNotCompleted ==
    LoopNotCompleted /\ [Next]_vars => LoopNotCompleted'
<1> SUFFICES ASSUME LoopNotCompleted, [Next]_vars,
                    proc' = "running", phase' # "closing"
             PROVE  diskStatus' # "completed"
  BY DEF LoopNotCompleted
<1>1. CASE Run \/ ForceRestart
  BY <1>1 DEF Run, ForceRestart, StartFresh
<1>2. CASE Resume
  BY <1>2 DEF Resume
<1>3. CASE ResumeSkip \/ WhenFalse \/ WhenError \/ Dispatch \/ Retry
  BY <1>3 DEF ResumeSkip, WhenFalse, WhenError, Dispatch, Retry, LoopNotCompleted
<1>4. CASE Complete
  \* the status is left alone and the loop was in its "exec" phase
  BY <1>4 DEF Complete, LoopNotCompleted
<1>5. CASE Finish
  BY <1>5 DEF Finish
<1>6. CASE ResumeCompleted \/ Return \/ RetryCheckTypeError \/ Crash
           \/ Interrupt \/ Raise
  BY <1>6 DEF ResumeCompleted, Return, RetryCheckTypeError, Crash, Interrupt,
     Raise
<1>7. CASE UNCHANGED vars
  BY <1>7 DEF vars, LoopNotCompleted
<1>. QED
  BY <1>1, <1>2, <1>3, <1>4, <1>5, <1>6, <1>7 DEF Next, ExecutorStep

\* Every step that writes a step result is taken by a loop before its
\* closing phase, so none happens while the run is completed; the steps
\* that start a run under the same id write no result.
LEMMA FrozenStep ==
    TypeOK /\ LoopNotCompleted /\ [Next]_vars =>
        [diskStatus = "completed" /\ runId' = runId => UNCHANGED diskSteps]_vars
<1> SUFFICES ASSUME TypeOK, LoopNotCompleted, [Next]_vars,
                    diskStatus = "completed", runId' = runId
             PROVE  UNCHANGED diskSteps
  OBVIOUS
<1>1. proc = "running" => phase = "closing"
  BY DEF LoopNotCompleted
<1>2. CASE Run \/ ForceRestart
  <2>1. runId \in Nat
    BY DEF TypeOK
  <2>. QED
    BY <1>2, <2>1 DEF Run, ForceRestart, StartFresh
<1>3. CASE WhenFalse \/ WhenError \/ Complete
  BY <1>1, <1>3 DEF WhenFalse, WhenError, Complete
<1>4. CASE Resume \/ ResumeCompleted \/ ResumeSkip \/ Dispatch \/ Retry
           \/ Finish \/ Return \/ RetryCheckTypeError \/ Crash \/ Interrupt
           \/ Raise \/ UNCHANGED vars
  BY <1>4 DEF Resume, ResumeCompleted, ResumeSkip, Dispatch, Retry, Finish,
     Return, RetryCheckTypeError, Crash, Interrupt, Raise, vars
<1>. QED
  BY <1>2, <1>3, <1>4 DEF Next, ExecutorStep

\* Spec section 8: once state.json says completed, no later step writes a
\* step result of that run (resume's early return on a completed run,
\* resume.py:154; the results are recorded before update_status, at
\* executor.py:272 and 290), unless --force-restart moves to a new run id.
THEOREM CompletedFrozen == Spec => CompletedRunFrozen
<1>1. Init => LoopNotCompleted
  BY DEF Init, LoopNotCompleted
<1>2. LoopNotCompleted /\ [Next]_vars => LoopNotCompleted'
  BY NextLoopNotCompleted
<1>3. TypeOK /\ LoopNotCompleted /\ [Next]_vars =>
        [diskStatus = "completed" /\ runId' = runId => UNCHANGED diskSteps]_vars
  BY FrozenStep
<1>. QED
  BY <1>1, <1>2, <1>3, TypeCorrect, PTL DEF Spec, CompletedRunFrozen

=============================================================================
