------------------------------- MODULE WaitFor -------------------------------
(***************************************************************************)
(* WaitFor.execute() of src/orchestrator/fsq/wait.py against a producer    *)
(* that creates matching files at any moment.  Time is a clock of ticks    *)
(* (one tick is the unit `wait_duration_ms` is measured in); the deadline  *)
(* is Timeout ticks after the start.  A glob is one atomic directory scan  *)
(* that takes 0 or 1 tick; which files it returns is abstracted to their   *)
(* number, as the properties only compare it with min_count.               *)
(***************************************************************************)
EXTENDS Naturals

CONSTANTS
    Timeout,     \* timeout_sec, in ticks
    PollTicks,   \* poll_ms, in ticks
    MinCounts,   \* the min_count values a step may give
    MaxFiles,    \* bound on the files the producer creates
    MaxPolls     \* bound on the polls of the model

ASSUME WaitAssumption ==
    /\ Timeout \in Nat /\ PollTicks \in Nat
    /\ MaxFiles \in Nat /\ MaxPolls \in Nat
    /\ MinCounts \subseteq Nat

NoExit == 1000

VARIABLES
    pc,          \* "start", "test" (the while condition), "done"
    minCount,
    safe,        \* the glob passes _validate_path_safety
    clock,       \* time.time() - start_time
    files,       \* matching files that exist now
    pollCount,
    matched,     \* len(matched_files) of the last poll
    exitCode,
    duration,    \* wait_duration_ms of the result
    timedOut

vars == <<pc, minCount, safe, clock, files, pollCount, matched,
          exitCode, duration, timedOut>>

Init ==
    /\ pc = "start"
    /\ minCount \in MinCounts
    /\ safe \in BOOLEAN
    /\ clock = 0
    /\ files = 0
    /\ pollCount = 0
    /\ matched = 0
    /\ exitCode = NoExit
    /\ duration = 0
    /\ timedOut = FALSE

\* AT-61: an absolute or `..` pattern returns exit 2 before any I/O.
Start ==
    /\ pc = "start"
    /\ pc' = IF safe THEN "test" ELSE "done"
    /\ exitCode' = IF safe THEN NoExit ELSE 2
    /\ UNCHANGED <<minCount, safe, clock, files, pollCount, matched,
                   duration, timedOut>>

\* Mutant of Deadline: the loop gives up as soon as a whole poll interval
\* no longer fits before the deadline.
DeadlineEarly == clock + PollTicks >= Timeout

\* `while time.time() < timeout_deadline` has failed.
Deadline == clock >= Timeout

\* Mutant of TimeOut: the timeout is reported with the generic exit 1.
TimeOutExitOne ==
    /\ pc = "test" /\ Deadline
    /\ pc' = "done" /\ exitCode' = 1 /\ duration' = clock /\ timedOut' = TRUE
    /\ UNCHANGED <<minCount, safe, clock, files, pollCount, matched>>

\* The loop ends: exit 124, timed_out, and whatever the last poll saw.
TimeOut ==
    /\ pc = "test"
    /\ Deadline
    /\ pc' = "done"
    /\ exitCode' = 124
    /\ duration' = clock
    /\ timedOut' = TRUE
    /\ UNCHANGED <<minCount, safe, clock, files, pollCount, matched>>

\* Mutant of Enough: one file more than min_count is required.
EnoughStrict(n) == n > minCount

\* `len(matched_files) >= self.config.min_count`
Enough(n) == n >= minCount

\* One iteration of the loop body: glob (taking d ticks), then return on
\* enough matches (bumping a 0 ms duration to 1 when something matched),
\* else sleep the poll interval unless that would pass the deadline.
Poll ==
    /\ pc = "test"
    /\ ~Deadline
    /\ pollCount < MaxPolls
    /\ \E d \in 0..1 :
         LET after == clock + d
         IN  /\ pollCount' = pollCount + 1
             /\ matched' = files
             /\ IF Enough(files)
                THEN /\ pc' = "done"
                     /\ exitCode' = 0
                     /\ duration' = IF after = 0 /\ files > 0 THEN 1 ELSE after
                     /\ clock' = after
                     /\ UNCHANGED timedOut
                ELSE /\ clock' = IF after + PollTicks < Timeout
                                 THEN after + PollTicks ELSE after
                     /\ UNCHANGED <<pc, exitCode, duration, timedOut>>
    /\ UNCHANGED <<minCount, safe, files>>

\* An external producer creates one more matching file.
Produce ==
    /\ pc # "done"
    /\ files < MaxFiles
    /\ files' = files + 1
    /\ UNCHANGED <<pc, minCount, safe, clock, pollCount, matched,
                   exitCode, duration, timedOut>>

Next == Start \/ TimeOut \/ Poll \/ Produce

Spec == Init /\ [][Next]_vars

----
(* Properties                                                              *)

\* Every variable holds a value execute() can produce; a finished wait has
\* one of the three exit codes of WaitForResult (0, 2, 124).
TypeOK ==
    /\ pc \in {"start", "test", "done"}
    /\ minCount \in MinCounts
    /\ safe \in BOOLEAN
    /\ clock \in Nat
    /\ files \in 0..MaxFiles
    /\ pollCount \in 0..MaxPolls
    /\ matched \in 0..MaxFiles
    /\ exitCode \in {NoExit, 0, 2, 124}
    /\ duration \in Nat
    /\ timedOut \in BOOLEAN

\* AT-17/AT-18: a wait ends in success only with min_count matches seen by
\* its last poll, and in a timeout only after the deadline and only if no
\* poll (in particular the last one) saw min_count matches.
WaitOutcomeSound ==
    /\ exitCode = 0 => ~timedOut /\ pollCount >= 1 /\ matched >= minCount
    /\ exitCode = 124 =>
         /\ timedOut
         /\ duration >= Timeout
         /\ pollCount = 0 \/ matched < minCount

=============================================================================
