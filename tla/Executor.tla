------------------------------ MODULE Executor ------------------------------
(***************************************************************************)
(* The top-level step loop of WorkflowExecutor.execute                     *)
(* (src/orchestrator/workflow/executor.py) together with the CLI commands  *)
(* that start it (cli/commands/run.py, cli/commands/resume.py) and the     *)
(* faults that end a process: a kill, a user interrupt, an exception.      *)
(*                                                                         *)
(* Steps are the indices 1..N of the top-level `steps` list.  The          *)
(* executor's in-memory `state['steps']` is `mem`; the document that       *)
(* StateManager writes atomically to state.json is `diskSteps` and         *)
(* `diskStatus`.  Outputs, names and timing are abstracted away: a step    *)
(* result is its status and exit code.                                     *)
(***************************************************************************)
EXTENDS Integers, FiniteSets, RetryPolicy

CONSTANTS
    N,                 \* number of top-level steps
    Workflows,         \* the validated workflows that may be run
    ExitCodes,         \* exit codes a step execution may end with
    MaxGlobalRetries,  \* largest --max-retries value `run` is given
    MaxFaults,         \* bound on kills, interrupts and exceptions
    MaxRuns            \* bound on run ids minted by --force-restart

Steps == 1..N

\* goto targets: a step index, the reserved `_end`, or no goto at all
End == 0
NoGoto == -1
Targets == Steps \cup {End, NoGoto}
Handlers == [success : Targets, failure : Targets, always : Targets]
Kinds == {"command", "provider", "wait_for"}

\* The shape of a workflow as WorkflowLoader leaves it: each step has one
\* execution kind, maybe a `when`, its `on` handlers and its `retries`.
WorkflowType ==
    [kind : [Steps -> Kinds], when : [Steps -> BOOLEAN],
     on : [Steps -> Handlers], retries : [Steps -> Nat \cup {NoRetries}],
     strict : BOOLEAN]

ASSUME NAssumption == N \in Nat \ {0}
ASSUME WorkflowsAssumption == Workflows \subseteq WorkflowType
ASSUME ExitCodesAssumption == ExitCodes \subseteq Nat /\ 0 \in ExitCodes
ASSUME BoundsAssumption ==
    {MaxGlobalRetries, MaxFaults, MaxRuns} \subseteq Nat /\ MaxRuns >= 1

\* executor.max_retries when the caller passes None (resume.py does).
NoneRetries == -1

\* A step result: StepResult's status and exit_code.
Statuses == {"completed", "failed", "skipped"}
Result == [status : Statuses, exit : Nat]
NoResult == [status |-> "none", exit |-> 0]
Skipped == [status |-> "skipped", exit |-> 0]

\* Process exit codes of the CLI; NoExit before any process has ended.
NoExit == -1
Killed == 137
ProcessExits == {NoExit, 0, 1, 2, 130, Killed}

RunStatuses == {"running", "completed", "failed", "suspended"}

VARIABLES
    wf,            \* the workflow being run (immutable after load)
    proc,          \* "fresh" before `run`, "running" inside execute, "idle" after exit
    cmd,           \* the CLI command of the current process: "run" or "resume"
    runId,         \* run ids minted so far (--force-restart mints a new one)
    phase,         \* "enter": top of the while loop; "exec": inside the retry loop;
                   \* "break": left by `_end`; "closing": execute() and the CLI
                   \* returning (executor.py:290-292, run.py:267-271, resume.py:199-205)
    cursor,        \* step_index + 1
    attempt,       \* attempt counter of the retry loop
    resumeMode,    \* execute(..., resume=...)
    onError,       \* on_error of the current invocation
    maxRetries,    \* self.max_retries of the current invocation
    mem,           \* the executor's state['steps']
    diskSteps,     \* steps of state.json
    diskStatus,    \* status of state.json
    exitCode,      \* exit code of the last CLI process
    faults,        \* kills, interrupts and exceptions so far
    doneAtResume   \* history: steps terminal on disk when this execution resumed

vars == <<wf, proc, cmd, runId, phase, cursor, attempt, resumeMode, onError,
          maxRetries, mem, diskSteps, diskStatus, exitCode, faults, doneAtResume>>

Terminal(r) == r.status \in {"completed", "skipped"}

EmptySteps == [i \in Steps |-> NoResult]

----
(* Helpers of WorkflowExecutor                                             *)
----

\* The retry policy of a step: _execute_provider_with_context uses the
\* run-level max_retries unless the step has `retries`;
\* _execute_command_with_context uses for_command; wait_for never retries.
PolicyOf(i) ==
    CASE wf.kind[i] = "wait_for" -> ForCommand(NoRetries)
      [] wf.kind[i] = "provider" /\ wf.retries[i] = NoRetries -> ForProvider(maxRetries)
      [] OTHER -> ForCommand(wf.retries[i])

\* for_provider(max_retries=None): should_retry compares attempt >= None.
RetryCheckRaises(i) ==
    wf.kind[i] = "provider" /\ wf.retries[i] = NoRetries /\ maxRetries = NoneRetries

\* The StepResult built from an exit code: completed iff exit code 0.
ResultOf(code) ==
    [status |-> IF code = 0 THEN "completed" ELSE "failed", exit |-> code]

\* _handle_control_flow, AT-58/59: on.always overrides the handler matching
\* the exit code.
GotoTarget(i, code) ==
    LET h == wf.on[i]
    IN  IF h.always # NoGoto THEN h.always
        ELSE IF code = 0 THEN h.success ELSE h.failure

\* "stop" (strict_flow with on_error=stop), or the next cursor, or End.
Stop == -2

\* Mutant of HandleControlFlow: the index is advanced twice when no goto
\* applies.
HandleControlFlowDoubleAdvance(i, r) ==
    CASE r.status = "skipped"              -> i + 1
      [] GotoTarget(i, r.exit) # NoGoto    -> GotoTarget(i, r.exit)
      [] r.exit # 0 /\ wf.strict /\ onError = "stop" -> Stop
      [] OTHER                             -> i + 2

HandleControlFlow(i, r) ==
    CASE r.status = "skipped"              -> i + 1
      [] GotoTarget(i, r.exit) # NoGoto    -> GotoTarget(i, r.exit)
      [] r.exit # 0 /\ wf.strict /\ onError = "stop" -> Stop
      [] OTHER                             -> i + 1

\* The exit code the CLI returns after execute() returns its state:
\* run.py returns 0 for any non-empty dict; resume.py reads its status.
ReturnedExit(finalStatus) ==
    IF cmd = "run" THEN 0
    ELSE IF finalStatus = "completed" THEN 0
    ELSE IF finalStatus = "failed" THEN 1 ELSE 0

\* Record a step result in state['steps'] and persist it (update_step).
Record(i, r) ==
    /\ mem' = [mem EXCEPT ![i] = r]
    /\ diskSteps' = [diskSteps EXCEPT ![i] = r]

\* Mutant of ResumeDone: only `completed` counts as done, not `skipped`.
ResumeDoneCompletedOnly(i) == resumeMode /\ mem[i].status = "completed"

\* Resume skips a step whose loaded result is terminal.
ResumeDone(i) == resumeMode /\ Terminal(mem[i])

----
(* Starting a process                                                      *)
----

Init ==
    /\ wf \in Workflows
    /\ proc = "fresh"
    /\ cmd = "run"
    /\ runId = 0
    /\ phase = "enter"
    /\ cursor = 1
    /\ attempt = 0
    /\ resumeMode = FALSE
    /\ onError = "stop"
    /\ maxRetries = 0
    /\ mem = EmptySteps
    /\ diskSteps = EmptySteps
    /\ diskStatus = "running"
    /\ exitCode = NoExit
    /\ faults = 0
    /\ doneAtResume = {}

\* Start an execution of a freshly initialised run document.
StartFresh(c, err, mr) ==
    /\ proc' = "running"
    /\ cmd' = c
    /\ runId' = runId + 1
    /\ phase' = "enter"
    /\ cursor' = 1
    /\ attempt' = 0
    /\ resumeMode' = FALSE
    /\ onError' = err
    /\ maxRetries' = mr
    /\ mem' = EmptySteps
    /\ diskSteps' = EmptySteps
    /\ diskStatus' = "running"
    /\ doneAtResume' = {}

\* run_workflow: StateManager.initialize, then execute(on_error, max_retries).
Run ==
    /\ proc = "fresh"
    /\ \E err \in {"stop", "continue"}, mr \in 0..MaxGlobalRetries :
          StartFresh("run", err, mr)
    /\ UNCHANGED <<wf, exitCode, faults>>

\* resume_workflow on a run whose status is completed: print and exit 0.
ResumeCompleted ==
    /\ proc = "idle"
    /\ diskStatus = "completed"
    /\ exitCode' = 0
    /\ UNCHANGED <<wf, proc, cmd, runId, phase, cursor, attempt, resumeMode,
                   onError, maxRetries, mem, diskSteps, diskStatus, faults,
                   doneAtResume>>

\* Mutant of Resume: the `status == 'completed'` early return is missing.
ResumeIgnoringCompleted ==
    /\ proc = "idle"
    /\ proc' = "running"
    /\ cmd' = "resume"
    /\ phase' = "enter"
    /\ cursor' = 1
    /\ attempt' = 0
    /\ resumeMode' = TRUE
    /\ onError' = "stop"
    /\ maxRetries' = NoneRetries
    /\ mem' = diskSteps
    /\ doneAtResume' = {i \in Steps : Terminal(diskSteps[i])}
    /\ UNCHANGED <<wf, runId, diskSteps, diskStatus, exitCode, faults>>

\* resume_workflow: load state.json, then execute(resume=True) with the
\* defaults of the resume parser (on_error='stop', max_retries=None).
Resume ==
    /\ proc = "idle"
    /\ diskStatus # "completed"
    /\ proc' = "running"
    /\ cmd' = "resume"
    /\ phase' = "enter"
    /\ cursor' = 1
    /\ attempt' = 0
    /\ resumeMode' = TRUE
    /\ onError' = "stop"
    /\ maxRetries' = NoneRetries
    /\ mem' = diskSteps
    /\ doneAtResume' = {i \in Steps : Terminal(diskSteps[i])}
    /\ UNCHANGED <<wf, runId, diskSteps, diskStatus, exitCode, faults>>

\* resume --force-restart: a new run id and a new state document; the old
\* run directory is left as it is and no longer read.
ForceRestart ==
    /\ proc = "idle"
    /\ runId < MaxRuns
    /\ StartFresh("resume", "stop", NoneRetries)
    /\ UNCHANGED <<wf, exitCode, faults>>

----
(* One iteration of the while loop of execute()                            *)
----

\* Mutant of ResumeSkip: `step_index += 1` before `continue` is missing.
ResumeSkipNoAdvance ==
    /\ proc = "running" /\ phase = "enter" /\ cursor \in Steps
    /\ ResumeDone(cursor)
    /\ UNCHANGED <<wf, proc, cmd, runId, phase, cursor, attempt, resumeMode,
                   onError, maxRetries, mem, diskSteps, diskStatus, exitCode,
                   faults, doneAtResume>>

\* Resume skip (executor.py:125-146): advance past a terminal step without
\* running its control flow.
ResumeSkip ==
    /\ proc = "running" /\ phase = "enter" /\ cursor \in Steps
    /\ ResumeDone(cursor)
    /\ cursor' = cursor + 1
    /\ UNCHANGED <<wf, proc, cmd, runId, phase, attempt, resumeMode, onError,
                   maxRetries, mem, diskSteps, diskStatus, exitCode, faults,
                   doneAtResume>>

\* `when` evaluates to false: record skipped, exit 0, and advance.
WhenFalse ==
    /\ proc = "running" /\ phase = "enter" /\ cursor \in Steps
    /\ ~ResumeDone(cursor)
    /\ wf.when[cursor]
    /\ Record(cursor, Skipped)
    /\ cursor' = cursor + 1
    /\ UNCHANGED <<wf, proc, cmd, runId, phase, attempt, resumeMode, onError,
                   maxRetries, diskStatus, exitCode, faults, doneAtResume>>

\* `when` evaluation raises: record failed with exit 2, and advance
\* (`continue` before _handle_control_flow).
WhenError ==
    /\ proc = "running" /\ phase = "enter" /\ cursor \in Steps
    /\ ~ResumeDone(cursor)
    /\ wf.when[cursor]
    /\ Record(cursor, [status |-> "failed", exit |-> 2])
    /\ cursor' = cursor + 1
    /\ UNCHANGED <<wf, proc, cmd, runId, phase, attempt, resumeMode, onError,
                   maxRetries, diskStatus, exitCode, faults, doneAtResume>>

\* No `when`, or it holds: dispatch on the step kind and enter the retry loop.
Dispatch ==
    /\ proc = "running" /\ phase = "enter" /\ cursor \in Steps
    /\ ~ResumeDone(cursor)
    /\ phase' = "exec"
    /\ attempt' = 0
    /\ UNCHANGED <<wf, proc, cmd, runId, cursor, resumeMode, onError,
                   maxRetries, mem, diskSteps, diskStatus, exitCode, faults,
                   doneAtResume>>

\* An attempt ends with a retryable code and attempts are left: wait, retry.
Retry ==
    /\ proc = "running" /\ phase = "exec"
    /\ ~RetryCheckRaises(cursor)
    /\ \E code \in ExitCodes : ShouldRetry(PolicyOf(cursor), code, attempt)
    /\ attempt' = attempt + 1
    /\ UNCHANGED <<wf, proc, cmd, runId, phase, cursor, resumeMode, onError,
                   maxRetries, mem, diskSteps, diskStatus, exitCode, faults,
                   doneAtResume>>

\* The last attempt: record and persist the result, then
\* _handle_control_flow decides where the loop goes.
Complete ==
    /\ proc = "running" /\ phase = "exec"
    /\ ~RetryCheckRaises(cursor)
    /\ \E code \in ExitCodes :
          LET r    == ResultOf(code)
              next == HandleControlFlow(cursor, r)
          IN  /\ ~ShouldRetry(PolicyOf(cursor), code, attempt)
              /\ Record(cursor, r)
              /\ CASE next = End  -> phase' = "break" /\ UNCHANGED cursor
                   [] next = Stop -> phase' = "closing" /\ UNCHANGED cursor
                   [] OTHER       -> phase' = "enter" /\ cursor' = next
    /\ UNCHANGED <<wf, proc, cmd, runId, attempt, resumeMode, onError,
                   maxRetries, diskStatus, exitCode, faults, doneAtResume>>

\* The while loop exits, at its end or by `_end`: update_status('completed').
\* execute() has still to load() and return, and the CLI to read the result.
Finish ==
    /\ proc = "running"
    /\ (phase = "enter" /\ cursor = N + 1) \/ phase = "break"
    /\ diskStatus' = "completed"
    /\ phase' = "closing"
    /\ UNCHANGED <<wf, proc, cmd, runId, cursor, attempt, resumeMode, onError,
                   maxRetries, mem, diskSteps, exitCode, faults, doneAtResume>>

\* execute() has returned: the CLI derives its exit code from the state and
\* the process ends.
Return ==
    /\ proc = "running" /\ phase = "closing"
    /\ proc' = "idle"
    /\ exitCode' = ReturnedExit(diskStatus)
    /\ UNCHANGED <<wf, cmd, runId, phase, cursor, attempt, resumeMode, onError,
                   maxRetries, mem, diskSteps, diskStatus, faults, doneAtResume>>

----
(* Ends of a process other than a normal return                            *)
----

\* The process is killed: nothing more is written.
Crash ==
    /\ proc = "running" /\ faults < MaxFaults
    /\ proc' = "idle"
    /\ exitCode' = Killed
    /\ faults' = faults + 1
    /\ UNCHANGED <<wf, cmd, runId, phase, cursor, attempt, resumeMode, onError,
                   maxRetries, mem, diskSteps, diskStatus, doneAtResume>>

\* KeyboardInterrupt: resume.py marks the run suspended and exits 130;
\* run.py has no handler, so the status stays as it is.
Interrupt ==
    /\ proc = "running" /\ faults < MaxFaults
    /\ proc' = "idle"
    /\ exitCode' = 130
    /\ faults' = faults + 1
    /\ diskStatus' = IF cmd = "resume" THEN "suspended" ELSE diskStatus
    /\ UNCHANGED <<wf, cmd, runId, phase, cursor, attempt, resumeMode, onError,
                   maxRetries, mem, diskSteps, doneAtResume>>

\* An exception escapes execute() or the CLI code after it: resume.py marks
\* the run failed and exits 1; run.py only logs it and exits 2 for a
\* ValueError, 1 for any other exception.
RaiseExits == IF cmd = "run" THEN {1, 2} ELSE {1}

Raise ==
    /\ proc = "running" /\ faults < MaxFaults
    /\ proc' = "idle"
    /\ exitCode' \in RaiseExits
    /\ faults' = faults + 1
    /\ diskStatus' = IF cmd = "resume" THEN "failed" ELSE diskStatus
    /\ UNCHANGED <<wf, cmd, runId, phase, cursor, attempt, resumeMode, onError,
                   maxRetries, mem, diskSteps, doneAtResume>>

\* The TypeError of should_retry under max_retries=None (retry.py:79): it
\* is raised after every attempt of such a step and ends the process as
\* an exception does.
RetryCheckTypeError ==
    /\ proc = "running" /\ phase = "exec"
    /\ RetryCheckRaises(cursor)
    /\ proc' = "idle"
    /\ exitCode' = 1
    /\ diskStatus' = IF cmd = "resume" THEN "failed" ELSE diskStatus
    /\ UNCHANGED <<wf, cmd, runId, phase, cursor, attempt, resumeMode, onError,
                   maxRetries, mem, diskSteps, faults, doneAtResume>>

ExecutorStep ==
    \/ ResumeSkip \/ WhenFalse \/ WhenError \/ Dispatch
    \/ Retry \/ Complete \/ Finish \/ Return \/ RetryCheckTypeError

Next ==
    \/ Run \/ Resume \/ ResumeCompleted \/ ForceRestart
    \/ ExecutorStep
    \/ Crash \/ Interrupt \/ Raise

\* The executor is a single thread that runs until its loop returns: its
\* next loop step is weakly fair; crashes, interrupts and restarts are not.
Spec ==
    /\ Init
    /\ [][Next]_vars
    /\ WF_vars(ExecutorStep)

----
(* Properties                                                              *)
----

TypeOK ==
    /\ wf \in WorkflowType
    /\ proc \in {"fresh", "running", "idle"}
    /\ cmd \in {"run", "resume"}
    /\ runId \in 0..MaxRuns
    /\ phase \in {"enter", "exec", "break", "closing"}
    /\ cursor \in 1..(N + 1)
    /\ (phase = "exec" => cursor \in Steps)
    /\ attempt \in Nat
    /\ resumeMode \in BOOLEAN
    /\ onError \in {"stop", "continue"}
    /\ maxRetries \in 0..MaxGlobalRetries \cup {NoneRetries}
    /\ mem \in [Steps -> Result \cup {NoResult}]
    /\ diskSteps \in [Steps -> Result \cup {NoResult}]
    /\ diskStatus \in RunStatuses
    /\ exitCode \in ProcessExits
    /\ faults \in 0..MaxFaults
    /\ doneAtResume \subseteq Steps

\* Spec section 5 ("resume guarantees at-most-once retry of an already-
\* terminal step"): while a resumed execution runs, every step whose result
\* in state.json was completed or skipped when it resumed still has a
\* terminal result and is not being executed again, whatever gotos,
\* retries and earlier crashes led there.
ResumeNeverReexecutes ==
    proc = "running" /\ resumeMode =>
        \A i \in doneAtResume :
            /\ Terminal(mem[i])
            /\ ~(phase = "exec" /\ cursor = i)

\* Spec section 8 ("running a completed workflow via resume is a no-op"):
\* once state.json says completed, no step result of that run is written
\* again under the same run id, whatever interrupts, exceptions and resumes
\* follow: resume returns early on it (resume.py:154) and only
\* --force-restart moves on, under a new run id.  The status alone may
\* still change: an interrupt or exception after update_status('completed')
\* (executor.py:290) is caught by resume.py:207-215, which rewrites it.
CompletedRunFrozen ==
    [][diskStatus = "completed" /\ runId' = runId => UNCHANGED diskSteps]_vars

\* Every execution that has started eventually returns or ends: the retry
\* loop is bounded and, without backward gotos, so is the step loop.
RunTerminates == proc = "running" ~> proc = "idle"

\* Spec sections 4.15 and 7: control flow applies after every step.
\* Whenever the loop leaves a step, it goes where _handle_control_flow
\* sends that step's recorded result (a goto target or the next step).
ControlFlowFollowsResult ==
    [][proc = "running" /\ proc' = "running" /\ cursor \in Steps
         /\ cursor' # cursor
         => cursor' = HandleControlFlow(cursor, mem'[cursor])]_vars

\* Spec section 6.1 (exit 0 is success, 1 a runtime failure): a CLI process
\* that exits 0 leaves a run whose status is completed.
ZeroExitMeansCompleted ==
    proc = "idle" /\ exitCode = 0 => diskStatus = "completed"

=============================================================================
