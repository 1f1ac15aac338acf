# TLA+ models of the agent orchestrator

This directory holds TLA+ specifications of `src/orchestrator/`. It has the TLC
configurations that model-check them and the TLAPS proofs of their main invariants.
Every definition is translated from the Python source. `PROJECT.json` has a "map"
that gives the source lines of each definition.

## 1. The system

`orchestrate run WORKFLOW` loads and validates a YAML workflow (`loader.py`). It
creates `.orchestrate/runs/<run_id>/state.json` (`state.py`) and hands the steps to
`WorkflowExecutor.execute()` (`workflow/executor.py`). That method is a single
`while step_index < len(steps)` loop. For each top-level step it does the following,
in this order:

1. **Resume skip.** When the run was resumed, a step already recorded as
   `completed` or `skipped` is passed over (`step_index += 1; continue`). A
   `for_each` whose iterations are all complete is passed over the same way.
2. **`when`.** If the condition is false, the step is recorded as `skipped`
   (exit 0) and the loop continues. If evaluating it raises, the step is recorded
   as `failed` with exit 2 and the loop continues. Neither case reaches the
   control flow of step 5.
3. **Dispatch on the kind.** The kinds are `for_each`, `wait_for`, `provider` and
   `command`. Commands and providers run inside a retry loop (`exec/retry.py`):
   - Commands retry only when `retries` is set.
   - Providers without `retries` use the CLI's `--max-retries`.
   - Only exit codes 1 and 124 are retried.
4. **Record.** The result goes into the in-memory state and into
   `state.json` through `StateManager.update_step`. That call writes a temp
   file and then renames it, so the write is atomic.
5. **`_handle_control_flow`.** The possible outcomes are:
   - the `on.success`/`on.failure` goto chosen by the exit code, which `on.always`
     overrides;
   - otherwise, with a non-zero exit, `strict_flow` and `on_error=stop`, the
     result `_stop`;
   - otherwise the next index.
   `_end` breaks the loop and `_stop` returns the in-memory state at once.

When the loop ends normally, or by `_end`, it writes `status: completed`, then
reloads the state and returns it. The reload and the CLI's handling of the
result still run inside the CLI's `try`, so an interrupt or exception there
is handled like one during the loop.

`orchestrate resume RUN_ID` (`cli/commands/resume.py`) has these outcomes:
- A completed run is reported and the command exits 0.
- Otherwise it loads `state.json` and calls `execute(resume=True)`.
  - The resume parser has no `--on-error` and no `--max-retries`, so `on_error`
    is `stop` and `max_retries` is `None`.
  - KeyboardInterrupt writes `suspended` and exits 130.
  - Any other exception writes `failed` and exits 1.
  - After a `_stop`, it exits 1 if the loaded status was `failed` and 0
    otherwise.
- `--force-restart` starts a new run with a new run id.

`orchestrate run` has no KeyboardInterrupt handler. It returns `0 if result else 1`,
2 for a ValueError and 1 for any other exception, and never writes a status.

The other parts are the following:
- `fsq/wait.py` (wait_for polling) and `fsq/queue.py` (task files written via
  temp file and rename).
- `security/secrets.py` (environment resolution and masking).
- `exec/output_capture.py` (size caps, JSON parsing).
- `deps/` (globs, prompt injection).
- `variables/` and `workflow/conditions.py` (templating).
- the provider registry and executor (argv templates and subprocesses).

### Inventory

| component | state | operations | hard behaviour |
|---|---|---|---|
| step loop (executor.py) | step_index, in-memory `state`, resume flag, on_error, max_retries | resume skip, when false/error, dispatch, retry, record, control flow, finish | crash between a subprocess and `update_step`; resume by index; `when` errors bypass the control flow; goto cycles |
| retry policy (retry.py) | max_retries, retryable codes | for_provider, for_command, should_retry | 0-based attempt, `None` max on resume |
| CLI run/resume | process, exit code, run id | run, resume, resume of completed, force restart, interrupt, exception | exit code vs recorded status; status never written on a failure of `run` |
| state store (state.py) | state.json, backups | initialize, update_step, update_status, backup, rotate, repair | atomic rename; rotation and repair order by file name |
| for_each (executor.py) | loop_results in memory; flat `Parent[i].Child` keys and the aggregate list on disk | resolve items, run children, flat writes, list write, resume of the complete prefix | results written only after the whole loop; error not persisted; resume re-runs completed children |
| wait_for (fsq/wait.py) | poll count, elapsed time, last match count | path check, poll, sleep, timeout | busy polling in the final interval; producers racing the polls |
| step execution (step_executor.py, providers/executor.py, the two retry loops) | attempt, the last result | prepare, spawn, capture, mask, exit override, should_retry, record | the exit code the retry judges is not always the one recorded; a crash between the last attempt and `update_step` |
| secrets (secrets.py) | the process's registry of values | resolve_secrets, mask_text, mask_dict | command steps never receive their secrets; provider output never masked; dicts in lists not masked; the registry dies with the process |
| output capture (output_capture.py) | none (a function of stdout) | text, lines, json with overflow and allow_parse_error | a parse failure turns a failed process into exit 0 |

The properties that matter for each component:
- For the step loop and the CLI, there are three:
  - A resume never redoes finished work.
  - The step results of a completed run are never rewritten.
  - The process exit code agrees with the recorded run status.
- For the retry policy, the number of attempts must match `retries`.
- For the state store, repair must restore the newest backup.
- For for_each, a resumed loop must neither skip nor repeat an iteration.
- For step execution, the attempts must follow spec.md 4.12 for both step kinds.
- For secrets, no registered secret value may appear in a recorded output.

## 2. Modules

| module | models | state (VARIABLES) ↔ code |
|---|---|---|
| `RetryPolicy` | `exec/retry.py` | pure operators: `ForProvider`, `ForCommand`, `ShouldRetry` |
| `Executor` | `execute()`, `_handle_control_flow`, the retry loops, the `run` and `resume` commands, and `update_step`/`update_status` | listed below the table |
| `MC_Executor` | TLC instances | workflows of 3 steps |
| `ExecutorProofs` | TLAPS proofs | — |
| `StateStore` | `state.py`: `_write_state`, `backup_state`, `_rotate_backups`, `load`, `attempt_repair`, and `resume --repair` | listed below the Executor table |
| `StoreDocument` | spec.md "Atomic persist" and 4.13, not code: what state.json promises | `doc` (state.json: a committed document or damaged), `latest` (the newest committed document) |
| `MC_StateStore` | TLC instances | 4 step names, cap 3 |
| `StateStoreProofs` | TLAPS proofs | — |
| `WaitFor` | `WaitFor.execute` of `fsq/wait.py` against an external producer | listed below the StateStore table |
| `MC_WaitFor` | TLC instances | deadline 4 ticks, interval 2 |
| `WaitForProofs` | TLAPS proofs | — |
| `ForEach` | `_execute_for_each` and the for_each branch of `execute()`, with crashes and `resume` | listed below the WaitFor table |
| `MC_ForEach` | TLC instances | 2 items of 2 children, 2 crashes, 3 resumes |
| `ForEachProofs` | TLAPS proofs | — |
| `StepAttempts` | spec.md 4.12 and 5, not code: the attempts a run may make | `step`, `tries`, `last`, `limit`, `done` (steps recorded completed) |
| `StepRun` | one process running command and provider steps: `_execute_command`, `execute_command`, the provider loop of `_execute_provider_with_context`, `prepare_invocation`, `execute`, `OutputCapture.capture`, `resolve_secrets`, `mask_text`, `mask_dict`, the recording in `execute()`, with deaths and resumes | listed below the ForEach table |
| `MC_StepRun` | TLC instances | 3 steps, 1 secret name, 7 step configurations |
| `StepRunProofs` | TLAPS proofs | — |

The VARIABLES of `Executor` correspond to the code as follows:

| variable | code it models |
|---|---|
| `wf` | the validated workflow |
| `proc` | the CLI process |
| `cmd` | the command that started it |
| `runId` | the run ids minted so far |
| `phase`, `cursor`, `attempt` | `step_index` and the retry loop's `attempt` |
| `resumeMode`, `onError`, `maxRetries` | the `execute()` arguments |
| `mem` | the in-memory `state['steps']` |
| `diskSteps`, `diskStatus` | `state.json` |
| `exitCode` | the process exit code |
| `faults` | a bound on the crashes, interrupts and exceptions injected |
| `doneAtResume` | a history variable: the steps that were terminal when the state was loaded |

The VARIABLES of `StateStore` correspond to the code as follows. A document is
the id of the `_write_state` call that produced it, so a larger id is newer.

| variable | code it models |
|---|---|
| `stateFile` | the content of state.json: a document id, or `Corrupt` |
| `written` | the id of the last document written |
| `mem` | `StateManager.state` of the live process |
| `pc` | where the process is: between steps, between `copy2` and `_rotate_backups`, or dead |
| `bak`, `bakTime` | each `state.json.step_<name>.bak` file and when it was last written |
| `now` | the number of `backup_state` calls: the write order |
| `crashes`, `corruptions` | fault budgets |

The model assumes `--debug`. Without it, the executor never calls
`backup_state` and the store is just `_write_state`. Step names are `1..NNames`,
and their numeric order is the order `sorted()` gives the file names. The
environment can do three things:
- crash the process between two file operations;
- crash it inside `copy2`, which leaves a torn backup;
- damage state.json from outside (the case `--repair` exists for).

The VARIABLES of `WaitFor` correspond to `WaitFor.execute` as follows. Time
is a clock of ticks from `start_time`, and one tick is the unit of
`wait_duration_ms`. The deadline is `Timeout` ticks.

| variable | code it models |
|---|---|
| `pc` | before the path check, at the `while` test, or returned |
| `minCount`, `safe` | `config.min_count`, and whether `_validate_path_safety` accepts the glob |
| `clock` | `time.time() - start_time` |
| `files` | the matching files that exist now (created by the producer) |
| `pollCount`, `matched` | `poll_count` and `len(matched_files)` of the last poll |
| `exitCode`, `duration`, `timedOut` | the `WaitForResult` fields |

`Poll` is one whole loop body:
- the glob, which takes 0 or 1 tick;
- the `>= min_count` test, with a successful return that bumps a 0 ms duration
  to 1 only when something matched;
- otherwise the sleep, which is skipped when it would reach the deadline.

A glob is one atomic directory scan. File names, symlink filtering and sorting
are abstracted to the match count, because every property compares only that
with `min_count`. `Produce` is an external producer creating a file at any
moment.

The VARIABLES of `ForEach` correspond to the code as follows. The loop is
the first step of the workflow, and `Rest` stands for the steps after it.

| variable | code it models |
|---|---|
| `proc`, `resumed`, `onError` | the process, whether it is `resume` (`execute(resume=True)`), and `--on-error` |
| `itemsFrom` | whether the loop uses `items_from`, which can fail to resolve |
| `pc`, `idx`, `child` | the position: the resume check of `execute()`, item resolution, the iterations, the flat writes, the rest of the workflow |
| `cur`, `memRes` | `iteration_state` and `loop_results`, as the exit codes of the children |
| `memErr` | `_record_step_error` stored an error dict for the loop (memory only) |
| `flushPos` | the next `update_loop_step` of the flat write loop |
| `diskFlat`, `listSaved`, `diskList`, `diskStatus` | state.json: the `Parent[i].Child` statuses, the aggregate list, and the run status |
| `ran`, `doneAtLoad` | history: the children this process ran, and the flat statuses it loaded |

A child's result is its exit code: 0 for success or a false `when`, and 1 for
a failure or a `when` that raised. `update_loop_step` turns it into `completed`
or `failed`. Each flat write and the list write is one `_write_state`, and a
crash can fall between any two of them.

The VARIABLES of `StepRun` correspond to the code as follows. A secret value
is a pair `<<name, source>>` (from os.environ or from the step's `env`), and a
process's stdout is abstracted to the secret values that survive truncation and,
in json mode, to the document's shape: parsed with the values at top level,
parsed with them in a dict inside a list, unparseable, or over 1 MiB.

| variable | code it models |
|---|---|
| `steps`, `present` | the workflow's step configurations and the secret names set in os.environ |
| `cur`, `attempt` | `step_index` and the retry loop's `attempt` |
| `phase` | inside the loop, or past its `break` with a result not yet written |
| `decided` | the exit code the last `should_retry` call was given |
| `pending` | the result dict of the last attempt |
| `registry` | `SecretsManager._masked_values` of this process |
| `seen` | history: every value any process of the run registered |
| `rec` | state.json's StepResults: exit code and the secret values in output, lines or json |
| `restarts` | a bound on deaths followed by `resume` |

`CommandAttempt` and `ProviderAttempt` are one pass of each retry loop. They
differ where the code differs:
- The command loop calls `execute_command` with no `secrets`, so nothing is
  registered or checked. Its output is masked with the registry. A non-zero
  capture code replaces the process's, and `should_retry` sees that code.
- The provider loop registers the declared values in `prepare_invocation`.
  Its result takes the capture's exit code, is never masked, and
  `should_retry` sees the process's code.

`Refuse` is an error before any process, recorded with exit 2:
- for a command, an undefined variable;
- for a provider, a template error or a missing secret.

`Record` is the write of `update_step`. `Skip` is the resume skip of a
completed step. `Restart` is a death followed by `resume`, which gets a new
SecretsManager and starts again at the first step. The steps run in order, as
with `on_error continue`, because goto and `when` belong to `Executor`.

The abstractions in `Executor` are these:
- **The workflow.** It is the constant `Workflows`, a set of records with these
  fields:
  - `kind`: command, provider or wait_for;
  - `when`: whether a `when` is present;
  - `on`: the success, failure and always targets, each a step index, `End` or
    `NoGoto`;
  - `retries`;
  - `strict`.

  The loader guarantees that goto targets exist. `WorkflowType` encodes that.
  Step names are unique top-level names, so `_resolve_goto_target` is the index.
- **A step attempt.** It produces any exit code of `ExitCodes`. Output, files
  and templating do not affect the control flow and are left out. A `wait_for`
  step has no retry loop.
- **Crashes.** `Crash` is a SIGKILL at any point of a running process. Because
  `_write_state` renames a temp file, state.json is always either the old
  document or the new one, so each `update_step` is one atomic step of the model.
  A crash between a subprocess's end and its `update_step` loses that attempt.
  This is why `Record` and the end of the retry loop are one action: the result
  exists only once it is written.
- **Leaving the loop.** `_end` and the loop test leave the loop; `_stop`
  returns at once. The model keeps the points between them as phases:
  - `break`: the `_end` result is written and the status not yet.
  - `closing`: execute() and the CLI are returning. `Finish` writes
    `completed` and enters `closing`; a `_stop` enters it directly.
  - `Return` ends the process with the exit code the CLI derives. Until then
    `Crash`, `Interrupt` and `Raise` may still end it. For `resume`, they turn
    a just-written `completed` into `suspended` or `failed`.
- **The resume constructor call.** `resume.py:179` passes `workspace_dir=` to
  `WorkflowExecutor`, whose parameter is `workspace`. As written, every resume
  that reaches that line fails with a TypeError. The model assumes that call is
  corrected, and models what the rest of the resume path does.

## 3. Runs

| run | cfg | result | what it shows |
|---|---|---|---|
| executor_safety | MC_Executor.cfg | pass (3.0M states) | `TypeOK`, `ResumeNeverReexecutes`, `CompletedRunFrozen` (no step result of a completed run is rewritten under its run id, even when the status is rewritten after `completed`), across every goto shape and up to 2 crashes/interrupts/exceptions and 2 run ids |
| executor_termination | MC_Executor_live.cfg | pass | `RunTerminates` with forward gotos only |
| resume_ignores_goto | MC_Executor_resume_goto.cfg | violation | resume jumps to the next index, not the goto target (finding) |
| stop_exit_code | MC_Executor_exit.cfg | violation | `run` exits 0 after a strict-flow stop (finding) |
| store_safety | MC_StateStore.cfg | pass (650k states) | `TypeOK` (a live process holds a parsed document), `AtomicPersist`, and `PersistsDocuments`: the store implements `StoreDocument` under the mapping doc = state.json, latest = the last write |
| repair_by_name | MC_StateStore_repair.cfg | violation | repair restores an older document while a newer valid backup exists (finding) |
| wait_outcome | MC_WaitFor.cfg | pass (383 states) | `TypeOK` and `WaitOutcomeSound`: a success saw `min_count` matches on its last poll; a timeout comes after the deadline and no poll saw enough |
| foreach_views | MC_ForEach.cfg | pass (599k states) | `TypeOK` and `LoopViewsAgree`: after any crashes and resumes, a loop that returns leaves one aggregate entry per item, agreeing with every flat status |
| foreach_rerun | MC_ForEach_rerun.cfg | violation | a resume re-runs children that state.json records as completed (finding) |
| foreach_items_error | MC_ForEach_persist.cfg | violation | an `items_from` error is never persisted, yet the run moves on (finding) |
| step_attempts | MC_StepRun.cfg | pass (655k states) | `TypeOK` and `AttemptsFollowPolicy`: `StepRun` implements `StepAttempts` under the mapping tries = attempts made, last = the judged code, limit = 1 + the retries spec.md 4.12 gives, done = the steps state.json records completed |
| provider_output_unmasked | MC_StepRun_mask.cfg | violation | a provider's output holds the secret it declared (finding) |

The StateStore runs use 4 step names against the code's cap of 3, so rotation
has a file to remove. The other bounds are:
- 3 writes and 5 backup copies;
- 2 crashes;
- 1 external corruption.

`CHECK_DEADLOCK FALSE` is set for them. A run really stops once its budgets are
spent, or when state.json is damaged and no backup parses, where
`resume --repair` exits 1.

The WaitFor runs use a deadline of 4 ticks and an interval of 2. The first
sleep fits before the deadline and the second does not, so both branches of the
sleep test run. The other bounds are:
- `min_count` in {0, 1, 2}, which covers zero, the default and a count the
  producer must reach;
- up to 3 files from the producer;
- up to 6 polls.

A glob may take no time, so without the poll bound the busy loop of the last
interval would poll forever at a fixed clock. `CHECK_DEADLOCK FALSE` is set,
because a finished wait takes no more steps.

The ForEach runs use 2 items of 2 children. That is the smallest loop with a
complete iteration before an incomplete one, and a half-done iteration. They
allow 2 crashes and 3 resumes, which is enough for a crash inside a resumed
loop's writes followed by another resume. `CHECK_DEADLOCK FALSE` is set,
because a completed run, or one whose resume budget is spent, takes no more
steps.

**Bounds.** The Executor runs use three steps:
- step 1 is a command with `retries: 1`;
- step 2 is a provider without `retries`;
- step 3 is a wait_for.

Every single handler on steps 1 and 2 is tried, to every target. This covers
forward, backward and self gotos, `_end`, and no handler, with strict_flow true
and false. The other bounds are:
- the exit codes {0, 1, 2}, which are success, retryable and non-retryable;
- `--max-retries` in {0, 1};
- at most 2 faults and 2 run ids.

So a run can crash, be resumed, crash again, and be force-restarted. Each
disagreement found needs at most three steps and one fault.

The StepRun runs use 3 steps, one secret name and 7 step configurations, in
every order:
- a command with `retries: 1` and a timeout;
- a json command without `retries`;
- a command that declares the secret;
- a command with an undefined variable;
- a json provider with `allow_parse_error` and no `retries`;
- a lines provider with `retries: 0`, a timeout, and a step `env` that
  overrides its declared secret;
- a provider with a template error.

The secret is present in os.environ or missing. The exit codes are {0, 1, 2},
plus 124 when a timeout is set. `--max-retries` is 1, and one death and
resume is allowed. So a step can be retried to its limit, settled, lost to a
death between its last attempt and `update_step`, and skipped on resume. With
3 steps, a provider can register a secret before a command prints it.
`CHECK_DEADLOCK FALSE` is set, because the run takes no step after its last
step is recorded.

**Fairness.** `WF_vars(ExecutorStep)` is assumed. The executor is a single
thread, and once a process is running its next loop step is always enabled, so
the only assumption is that subprocesses return. A timeout (exit 124) justifies
that. Crashes, interrupts and restarts are not fair: they may happen or not. The
liveness run allows forward gotos only. With a backward goto the code really can
loop forever (hazard at executor.py:284).

**Mutants.** Each property of a passing run has a plausible code bug that breaks
it (`PROJECT.json` "mutants"):
- `_handle_control_flow` advancing twice breaks `TypeOK`.
- A resume skip for `completed` only, not `skipped`, breaks
  `ResumeNeverReexecutes`.
- Resume without the completed-run early return breaks `CompletedRunFrozen`:
  the re-entered loop writes a result for a step the completed run left
  unfinished.
- A skip that forgets `step_index += 1` breaks `RunTerminates`.
- A load that does not catch the JSON error breaks the StateStore `TypeOK`.
- A `_write_state` that dumps into state.json in place, without the temp file,
  breaks `AtomicPersist`.
- `resume --repair` restoring a backup even when state.json loads breaks
  `PersistsDocuments`: a valid document is replaced by an older one.
- A timeout reported with the generic exit 1 breaks the WaitFor `TypeOK`.
- A loop that gives up once a whole interval no longer fits before the
  deadline breaks `WaitOutcomeSound`.
- A resume that keeps the whole saved list breaks the ForEach `TypeOK`
  (`loop_results` grows past the items).
- A resume that forgets to append the kept iterations breaks
  `LoopViewsAgree`.
- A registry that tracks the secret names instead of their values breaks the
  StepRun `TypeOK`.
- `should_retry` with `attempt <= max_retries` (one retry too many) breaks
  `AttemptsFollowPolicy`. So does dropping the completed-step check from the
  command loop (the abstract `done`), though that mutant is not listed.

## 4. Findings

1. **Resume ignores gotos** (executor.py:143). A run in which step 1 jumps
   with `on.always: goto: C` over step B can crash after step 1. On resume, step
   1 is skipped by index and B is executed. The original run never took B.
2. **`run` exits 0 after a strict-flow stop** (run.py:271). `execute()`
   returns the non-empty state dict, and `0 if result else 1` is then 0. The
   status in state.json stays `running`.

3. **Repair is by reverse name, not newest-first** (state.py:413). Take two
   backups, `step_B` (document 2) and, written later, `step_A` (document 3).
   When state.json is damaged, `--repair` restores document 2. The resumed run
   then re-executes the step that document 3 had recorded.

4. **Resume re-runs completed loop children** (executor.py:532). Resume
   keeps only the complete prefix of the saved list. It re-runs every child of
   the first incomplete iteration and of every later one, including children
   that state.json records as completed. This happens without any crash: a loop
   with one failed child, followed by a step that stops the run, then a resume.
   If the crash came between the flat writes and the list write, every child is
   re-run. spec.md §5 and §9 say a completed child is not re-run.
5. **An `items_from` error is never persisted** (executor.py:461).
   `_record_step_error` changes only the in-memory state. With
   `--on-error continue` the run goes on and can complete with no entry for the
   loop step. spec.md §5 and §7 say a step's state is persisted before the next
   step starts, and that every error produces a StepResult.
6. **Provider output is never masked** (executor.py:1023). The provider loop
   stores `capture_result.to_state_dict()` as it is. Only `execute_command`
   calls `mask_text`/`mask_dict`. A provider that declares a secret and prints
   it has the value written to state.json, although `resolve_secrets`
   registered it. spec.md section 8 (mask completeness) forbids this.

More disagreements were confirmed by TLC while the models were built. They have
cfg files but are not listed runs, because the project keeps 12 runs:
- **A provider failure recorded as success** (executor.py:1023), with
  `MC_StepRun_exit.cfg` and `RecordedExitJudged`. `result.update(...)` replaces
  the provider's exit code by the capture's. With `allow_parse_error` and
  output that is not json, the capture reports 0. So a provider that exited 1,
  2 or 124, after its retries, is recorded `completed` with exit 0. Its
  `on.success` handler then fires.
- **`when` errors bypass control flow** (executor.py:186), with
  `MC_Executor_when_error.cfg` and `ControlFlowFollowsResult`. The step is
  recorded as failed with exit 2. The run continues even with
  `strict_flow: true` and `on_error: stop`.
- **Backup rotation is by name** (state.py:288), with
  `MC_StateStore_rotation.cfg` and `RotationKeepsNewest`. `_rotate_backups`
  keeps the last three of `sorted(glob(...))`, which is file-name order.
  Backups of steps named in decreasing order make it delete the backup it has
  just written. spec.md says the three kept are the most recent by write order.

The StepRun model also exhibits these, and no property singles them out:
- A command that times out in json mode without `allow_parse_error` is
  recorded and judged with the capture's exit 2 (step_executor.py:198). It is
  neither retried nor reported as a timeout.
- `mask_dict` leaves dicts inside lists alone (secrets.py:141).
- The registry of secret values dies with the process (secrets.py:42). After a
  resume, skipped provider steps do not register their values again.

The last two can break `MaskComplete` too, but TLC reports the shorter
provider trace first.

A smaller difference in `fsq/wait.py` was confirmed by TLC while the
WaitFor model was built. It is not kept as a run, because it affects CPU
use, not what a run does:
- **The final interval is a busy poll** (wait.py:111). When a sleep would
  reach the deadline it is skipped, but the loop goes on and globs the
  workspace back to back until the deadline. spec.md 4.7 says the poller sleeps
  the poll interval between scans.

In addition, the resume CLI passes an argument `WorkflowExecutor` does not
accept (resume.py:181, described in §2).

## 5. Proofs

### ExecutorProofs.tla

The proofs assume only the constant assumptions of `Executor`:
- `N` is positive;
- every workflow has `WorkflowType`;
- the exit codes are naturals and include 0;
- the bounds are naturals.

They hold for every workflow size and every bound.

- **`TypeCorrect: Spec => []TypeOK`.** `TypeOK` is not inductive on its own.
  `Run` mints run id `runId + 1` from the fresh state, so the proof carries
  `FreshRun` (no run id exists before the first `run`). The lemmas it rests on
  are these:
  - `GotoTargetType`: a handler's target is a step, `End` or no goto.
  - `HandleControlFlowType`: the next cursor is in `1..N+1`, `End` or `Stop`.
  - `StartFreshType`.
- **`CompletedFrozen: Spec => CompletedRunFrozen`.** This is an action
  property: once state.json says completed, no step of the same run id writes
  a step result. It is proved from the invariant `LoopNotCompleted`: a
  running execution that has not reached its closing phase never belongs
  to a completed run. `Finish` (`update_status('completed')`) moves the
  loop into its closing phase in the same step. `Resume` refuses a completed
  run. Only `WhenFalse`, `WhenError` and `Complete` write a result, and all
  three run before the closing phase (lemmas `NextLoopNotCompleted` and
  `FrozenStep`). The invariant says nothing of the closing phase itself. There
  the status is completed while an interrupt or exception can still rewrite
  it (resume.py:207-215), and the proof does not assume otherwise. TLC checked
  `LoopNotCompleted` as an invariant (3.0M states) before it was proved.
- **`ResumeSafety: Spec => []ResumeNeverReexecutes`.** Given `TypeOK`, the
  invariant is inductive. The only actions that write a result or enter the
  retry loop are `WhenFalse`, `WhenError`, `Dispatch` and `Complete`. The first
  three are guarded by `~ResumeDone(cursor)`. `Complete` runs on a cursor that
  `Dispatch` admitted. In a resumed run, both exclude every step of
  `doneAtResume` (lemmas `NotDoneAtResume` and `RecordKeepsDone`).

### StateStoreProofs.tla

- **`PersistSafety: Spec => []AtomicPersist`.** This is the spec's "Atomic
  persist", for every bound. The invariant carries the write counter's range
  and the corruption counter's type (`PersistInv`). The argument is this:
  - `_write_state` only ever puts a whole new document in place.
  - `copy2` writes backups, never state.json.
  - `Repair` runs only on a damaged state.json, which takes an external
    corruption.

- **`StoreTypeCorrect: Spec => []TypeOK`.** `TypeOK` is inductive as it
  stands. The one hard case is `Repair`: the backup that `attempt_repair`
  picks must parse. The lemma `RepairChoiceParses` shows that the `CHOOSE` of
  `RepairChoice` is satisfiable. It takes the greatest name among the backups
  that parse, and that greatest name exists by `GreatestExists`.
  `GreatestExists` gets the least-number principle from `WFMin` and
  `NatLessThanWellFounded` of `WellFoundedInduction`, with the fixed
  relation `<` rather than an operator parameter.
- **`DocumentRefinement: Spec => PersistsDocuments`.** The store implements
  `StoreDocument` under the mapping doc = `stateFile`, latest = `written`.
  The steps map as follows:
  - `WriteState` is `Commit`;
  - `CorruptState` is `Damage`;
  - `Repair` is `Restore`;
  - copies, rotation, crashes and loads leave both mapped variables alone.

  The invariant `CommittedInv` says that state.json and every backup hold a
  document no newer than the last write, a torn copy or nothing. With it, a
  repaired document is one committed earlier. TLC checked `CommittedInv` as
  an invariant before it was proved.

### WaitForProofs.tla

These proofs assume only `WaitAssumption`: the timeout, the interval and the
bounds are naturals, and so is every `min_count`.

- **`WaitOutcomeSafety: Spec => []WaitOutcomeSound`.** The invariant is not
  inductive by itself. A timeout reports the last poll, so the proof carries
  `LoopInv`, which says three things:
  - while the loop runs, nothing has been returned;
  - before the path check, no poll has happened;
  - at the `while` test, any poll so far saw fewer than `min_count` matches.

  A failed poll sets that count below `min_count`, and the producer never
  changes it. `TimeOut` needs `clock >= Timeout`, which is the loop condition
  failing.
- **`WaitTypeCorrect: Spec => []TypeOK`**, by the same induction.

Some things are only model-checked:
- `RunTerminates`, because liveness is out of TLAPS's reach;
- the violations.

Every other property of a passing run is stated by a theorem.

### ForEachProofs.tla

These proofs assume only `ForEachAssumption`. There is at least one item and
at least one nested step, and the crash and resume bounds are naturals.

- **`LoopViewsSafety: Spec => []LoopViewsAgree`.** It holds for every number
  of items, nested steps, crashes and resumes. The inductive invariant
  `ViewsInv` has one conjunct per phase of the loop step:
  - `ListInv`: a saved aggregate list has one entry per item. A resume reads
    it, and `SaveList` writes `loop_results`.
  - `ErrInv`: no error is recorded while the step is still running. Only
    `ItemsError` sets one, and it leaves the loop.
  - `IterInv`: in the `for index` loop, `loop_results` has `idx - 1` entries.
  - `FlushInv`: during the flat write loop, every `(i, c)` key already
    written holds the status of `loop_results[i][c]`. Each `Flush` step adds
    one key, `(fi, fc)`, and leaves the others alone.
  - `RestInv`: once the loop step has returned without an error, both views
    hold `loop_results`. When the list is written, `fi` is past the last
    item, so every key has been written.

  `LoopViewsAgree` itself is not inductive. It says nothing about the steps
  before `rest`, and those steps are what make it true there.
- **`ForEachTypeCorrect: Spec => []TypeOK`**, from the same invariant.
  `loop_results` never has more entries than there are items.

Two lemmas support them:
- `KeptCountType`: the complete prefix that a resume keeps exists, lies in
  `0..Len(diskList)`, and consists of complete iterations. Its `CHOOSE` is
  shown to be satisfiable by taking the least element, with `WFMin` and
  `NatLessThanWellFounded` of `WellFoundedInduction`.
- `LenBelow`: a length bound stated for any sequence. It exists because the
  SMT backend does not prove arithmetic facts about `Len` of a primed
  sequence directly, but does prove them through an instance of this lemma.

The two ForEach violations, `ChildNotRerun` and `StepPersistedBeforeNext`,
are only model-checked. They are findings, and there is nothing to prove.

### StepRunProofs.tla

These proofs assume only `StepRunAssumption`:
- there is at least one step;
- every workflow maps the steps to `StepConfig`;
- the exit codes, `--max-retries` and the restart bound are naturals.

They hold for every number of steps, secret names, exit codes,
`--max-retries` value and number of restarts.

- **`AttemptsRefinement: Spec => AttemptsFollowPolicy`.** `StepRun` implements
  `StepAttempts` under the refinement mapping `triesBar`, `decided`,
  `limitBar` and `doneBar`. The abstract `done` makes the resume guarantee
  part of the refinement: no process attempts a step that state.json records
  completed, and only `Settle` (the write of a result) adds to that set.
  `RecWriteDone` shows that writing one step's result changes `doneBar` at
  that step only. The proof follows the usual pattern: `InitRefines`, then
  `NextRefines` with one case per action, then PTL. Each loop pass is an
  abstract `Attempt`, `Record` is `Settle`, `Refuse` and `Skip` are `Pass`, and
  `Restart` is `Restart`. It needs the invariant `StepInv` (theorem
  `StepInvariant`), which has three parts:
  - `StepTypes`.
  - `SettleInv`: a result past the `break` is final under the step's policy,
    and belongs to a step that is not recorded completed.
  - `RetryInv`: inside the loop after a retry, the step is open, prepares
    without error, and the previous attempt was one the policy retries.
  Without `RetryInv`, an abstract `Pass` could follow a retry.
  `PolicyLimit` ties the code's policies to spec.md's limit:
  `AttemptLimit(c) = 1 + PolicyOf(c).max_retries`, and the retryable codes are
  a subset of {1, 124}.
- **`StepRunTypeCorrect: Spec => []TypeOK`**, inducted together with
  `StepInv`. A `Record` past the last step is ruled out only by `SettleInv`.
  It rests on `ValuesOfStep` and `CaptureOut`: what a capture keeps, masked or
  not, is among the printed values.

`MaskComplete` and `RecordedExitJudged` are false, and TLC shows how.

## 6. Not modelled yet, and the plan

The next modules, in order:
1. **Compose `ForEach` with `Executor`** as the `for_each` kind, so that loop
   steps meet gotos and the other steps.
2. **An abstract `WorkflowRun`.** The sequence of step outcomes a run promises.
   `Executor` would be shown to refine it with a refinement mapping.
3. **Compose `StepRun` with `Executor`**, so that the recorded exit code of
   `StepRun` drives `_handle_control_flow`. The provider-failure-as-success
   divergence would then reach the goto decision.

These parts are left out, for the reasons given:
- **The file queue** (`fsq/queue.py`). `QueueManager` writes, moves, lists and
  archives task files with a temp file and a rename. No part of the engine or
  the CLI calls it, so no run of the orchestrator reaches it.
- **Output capture's files.** The stderr log, the `output_file` tee and the
  spill of truncated output are writes whose content no property reads.
  Truncation is abstracted to which secret values survive it.
- **A json document that is not an object.** `mask_dict` calls `.items()`,
  so a top-level json array or string raises once any secret is registered
  (secrets.py:137). The exception leaves the executor and ends the process.
  `StepRun` keeps only object documents.
- **The debug prompt audit** (`_write_prompt_audit`). It also resolves secrets,
  but only under `--debug`.
- **Dependency injection, templating and the provider registry.** These are
  string and file-system work. They reach the models only as a template error
  (exit 2 before any process) or through the exit code of a step.
- **The CLI entry point** (`cli/main.py`). It is argument parsing that
  dispatches to `run` and `resume`, which are modelled.
