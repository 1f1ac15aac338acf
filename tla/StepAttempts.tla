---------------------------- MODULE StepAttempts ----------------------------
(***************************************************************************)
(* What spec.md 4.12 promises of the attempts a run makes, stated without  *)
(* the code: the steps are taken in order; a step runs its process once,  *)
(* and again only after an exit code in {1, 124} while fewer than its      *)
(* attempt limit have run; once it stops it is never attempted again in   *)
(* that pass.  A step may also end without a process (an error before the  *)
(* spawn, or a resume skip), and the orchestrator may die and be resumed   *)
(* at a step it already passed.  A step whose result is recorded as       *)
(* completed is never attempted again, by this process or a resumed one   *)
(* (spec.md 5: resume skips completed steps).                              *)
(*                                                                         *)
(*   step   the step being worked on (NSteps + 1 once the run is done)     *)
(*   tries  processes spawned for it in this pass                          *)
(*   last   the exit code the last of them was judged by                   *)
(*   limit  per step, 1 + the retries spec.md 4.12 allows it               *)
(*   done   the steps whose recorded result is completed                   *)
(***************************************************************************)
EXTENDS Integers

CONSTANT NSteps

VARIABLES step, tries, last, limit, done

StepIds == 1..NSteps

\* spec.md 4.12: the exit codes worth another attempt.
RetryableCodes == {1, 124}

Init ==
    /\ step = 1
    /\ tries = 0
    /\ last = 0
    /\ limit \in [StepIds -> Nat \ {0}]
    /\ done = {}

\* Another process may run: none has yet, or the last one failed with a
\* retryable code and the limit is not reached.
MayAttempt ==
    tries = 0 \/ (last \in RetryableCodes /\ tries < limit[step])

Attempt ==
    /\ step \in StepIds
    /\ step \notin done
    /\ MayAttempt
    /\ tries' = tries + 1
    /\ last' \in Int
    /\ UNCHANGED <<step, limit, done>>

\* The step's outcome is final: at least one process ran and no further
\* attempt is allowed.  The result is recorded, as completed or not.
Settle ==
    /\ step \in StepIds
    /\ tries > 0
    /\ ~MayAttempt
    /\ step' = step + 1
    /\ tries' = 0
    /\ done' \in {done, done \cup {step}}
    /\ UNCHANGED <<last, limit>>

\* The step ends without a process.
Pass ==
    /\ step \in StepIds
    /\ tries = 0
    /\ step' = step + 1
    /\ UNCHANGED <<tries, last, limit, done>>

\* The orchestrator dies; the resumed run goes on at a step no later than
\* the one it was on, with no attempt counted.
Restart ==
    /\ step \in StepIds
    /\ step' \in 1..step
    /\ tries' = 0
    /\ UNCHANGED <<last, limit, done>>

Next == Attempt \/ Settle \/ Pass \/ Restart

Spec == Init /\ [][Next]_<<step, tries, last, limit, done>>

=============================================================================
