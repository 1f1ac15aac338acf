------------------------------ MODULE StepRun ------------------------------
(***************************************************************************)
(* One orchestrator process executing command and provider steps, from    *)
(* the step's preparation to the StepResult written to state.json:        *)
(*   workflow/executor.py       _execute_command, the provider retry loop  *)
(*                              of _execute_provider_with_context, and the *)
(*                              recording in _execute_steps;              *)
(*   exec/step_executor.py      execute_command;                           *)
(*   providers/executor.py      prepare_invocation and execute;            *)
(*   exec/output_capture.py     capture in the text, lines and json modes; *)
(*   security/secrets.py        resolve_secrets, mask_text, mask_dict.     *)
(* The SecretsManager is one object per executor, shared by both paths.   *)
(*                                                                         *)
(* Data is abstracted to what masking and the exit code depend on: a      *)
(* secret value is a pair <<name, source>>; a process's stdout is the set  *)
(* of secret values that survive truncation and, in json mode, the shape  *)
(* of the document.  The steps run in order (as with on_error continue);  *)
(* goto and `when` are Executor's.  The process may die between any two   *)
(* steps and be resumed; resume skips completed steps.                    *)
(***************************************************************************)
EXTENDS Integers, RetryPolicy

CONSTANTS
    NSteps,       \* number of steps
    Secrets,      \* names a step may declare under `secrets`
    Workflows,    \* the workflows: a step configuration per index
    ExitCodes,    \* exit codes a process may return
    MaxRetries,   \* the run's --max-retries
    MaxRestarts   \* bound on deaths followed by a resume

StepIds == 1..NSteps

\* A secret's value: from the orchestrator's environment or the step's env.
Values == Secrets \X {"env", "step"}

\* What a step is, as the loader leaves it: its kind, output_capture,
\* allow_parse_error, declared secrets, the secret names its env sets,
\* retries, whether timeout_sec is set and whether the provider template
\* (or the command's variables) substitute without error.
StepConfig ==
    [kind : {"command", "provider"}, mode : {"text", "lines", "json"},
     allowParse : BOOLEAN, declared : SUBSET Secrets,
     override : SUBSET Secrets, retries : Nat \cup {NoRetries},
     timeout : BOOLEAN, templateOk : BOOLEAN]

ASSUME StepRunAssumption ==
    /\ NSteps \in Nat \ {0}
    /\ Workflows \subseteq [StepIds -> StepConfig]
    /\ ExitCodes \subseteq Nat
    /\ MaxRetries \in Nat
    /\ MaxRestarts \in Nat

\* json documents: parsed with the secrets at top level or in nested dicts
\* ("object"), parsed with them inside a dict that sits in a list
\* ("nested"), not parseable, or over the 1 MiB buffer.
Forms == {"object", "nested", "invalid", "huge"}

\* A captured result as persisted: its exit code and the secret values
\* its output, lines or json leaves contain.
Recorded == [exit : Nat \cup {-1}, out : SUBSET Values, seen : SUBSET Values]
NoRec == [exit |-> -1, out |-> {}, seen |-> {}]

VARIABLES
    steps,     \* the workflow being run
    present,   \* secret names set in the orchestrator's environment
    cur,       \* step_index (NSteps + 1: the loop has ended)
    attempt,   \* the retry loop's `attempt`
    phase,     \* "run": in the retry loop; "settle": result built, unsaved
    decided,   \* the exit code the last should_retry call was given
    pending,   \* the result built by the last attempt
    registry,  \* SecretsManager._masked_values of this process
    seen,      \* every value registered by any process of the run
    rec,       \* state.json's steps: the StepResult of each step
    restarts   \* deaths so far

vars == <<steps, present, cur, attempt, phase, decided, pending, registry,
          seen, rec, restarts>>

\* The retry policy _execute_command / _execute_provider_with_context build.
PolicyOf(c) ==
    IF c.kind = "provider" /\ c.retries = NoRetries
    THEN ForProvider(MaxRetries)
    ELSE ForCommand(c.retries)

\* The child's view of a secret name: the step env wins over os.environ.
ValueOf(c, s) == IF s \in c.override THEN <<s, "step">> ELSE <<s, "env">>

\* The secret values in the child's environment.
Visible(c) == {ValueOf(c, s) : s \in present \cup c.override}

\* resolve_secrets: declared names missing from os.environ, and the values
\* it adds to _masked_values (a declared name the step env sets is
\* tracked with the step env's value, which replaces the inherited one).
Missing(c) == c.declared \ present

\* Mutant of Registered: the secret names, not their values, are tracked.
RegisteredNames(c) == c.declared \cap (present \cup c.override)

\* The values resolve_secrets adds to the registry.
Registered(c) == {ValueOf(c, s) : s \in c.declared \cap (present \cup c.override)}

\* Errors that end a step with exit 2 before any process: undefined
\* variables (command); provider not found, substitution or placeholder
\* errors, or a missing secret (provider).
PrepareFails(c) ==
    \/ ~c.templateOk
    \/ c.kind = "provider" /\ Missing(c) # {}

\* Outcomes of subprocess.run: a return code, or 124 on TimeoutExpired
\* (only with timeout_sec); an OSError gives 1 and empty stdout, which is
\* one of the return-code outcomes.
Outcomes(c) ==
    [code : ExitCodes \cup (IF c.timeout THEN {124} ELSE {}),
     shown : SUBSET Visible(c),
     form : IF c.mode = "json" THEN Forms ELSE {"object"}]

\* CaptureResult: exit code, values in `output`/`lines`, in json
\* leaves outside lists of dicts, and in dicts inside lists.
Cap(e, t, f, d) == [exit |-> e, text |-> t, flat |-> f, deep |-> d]

\* _capture_json: over 1 MiB or unparseable, the raw text with exit 0 when
\* allow_parse_error is set and exit 2 otherwise; parsed, the document with
\* the process's exit code.
CaptureJson(c, o) ==
    CASE o.form \in {"invalid", "huge"} /\ c.allowParse -> Cap(0, o.shown, {}, {})
      [] o.form \in {"invalid", "huge"}                -> Cap(2, {}, {}, {})
      [] o.form = "object"                             -> Cap(o.code, {}, o.shown, {})
      [] o.form = "nested"                             -> Cap(o.code, {}, {}, o.shown)

\* capture: text and lines keep the (truncated) output with the process's
\* exit code; json goes to _capture_json.
Capture(c, o) ==
    IF c.mode = "json" THEN CaptureJson(c, o) ELSE Cap(o.code, o.shown, {}, {})

\* mask_text over output and lines, mask_dict over json: mask_dict rewrites
\* strings, nested dicts and lists of strings, but not dicts in lists.
Mask(cp, reg) == [cp EXCEPT !.text = @ \ reg, !.flat = @ \ reg]

\* to_state_dict: the values persisted under output, lines or json.
Out(cp) == cp.text \cup cp.flat \cup cp.deep

\* Completed in state.json: the resume skip applies.
Done(i) == rec[i] # NoRec /\ rec[i].exit = 0

Init ==
    /\ steps \in Workflows
    /\ present \in SUBSET Secrets
    /\ cur = 1
    /\ attempt = 0
    /\ phase = "run"
    /\ decided = 0
    /\ pending = [exit |-> 0, out |-> {}]
    /\ registry = {}
    /\ seen = {}
    /\ rec = [i \in StepIds |-> NoRec]
    /\ restarts = 0

\* The loop's tail: should_retry on the judged code; a retry counts the
\* attempt, otherwise the loop breaks with the attempt's result.
Iterate(c, judged, result) ==
    /\ decided' = judged
    /\ \/ /\ ShouldRetry(PolicyOf(c), judged, attempt)
          /\ attempt' = attempt + 1
          /\ UNCHANGED <<phase, pending>>
       \/ /\ ~ShouldRetry(PolicyOf(c), judged, attempt)
          /\ phase' = "settle"
          /\ pending' = result
          /\ UNCHANGED attempt

\* One pass of _execute_command's loop: execute_command resolves secrets
\* with no declared names (the loop passes none), runs the process,
\* captures, masks with the registry, and replaces the exit code by the
\* capture's when that is non-zero; should_retry sees that code.
CommandAttempt ==
    /\ phase = "run"
    /\ cur \in StepIds
    /\ steps[cur].kind = "command"
    /\ ~Done(cur)
    /\ ~PrepareFails(steps[cur])
    /\ \E o \in Outcomes(steps[cur]) :
          LET c    == steps[cur]
              cp   == Capture(c, o)
              code == IF cp.exit # 0 THEN cp.exit ELSE o.code
          IN  Iterate(c, code, [exit |-> code, out |-> Out(Mask(cp, registry))])
    /\ UNCHANGED <<steps, present, cur, registry, seen, rec, restarts>>

\* One pass of the provider loop: prepare_invocation (resolve_secrets adds
\* the declared values to the registry), execute, capture with the process
\* exit code; the result dict takes the capture's exit_code, is not
\* masked, and should_retry sees the process exit code.
ProviderAttempt ==
    /\ phase = "run"
    /\ cur \in StepIds
    /\ steps[cur].kind = "provider"
    /\ ~Done(cur)
    /\ ~PrepareFails(steps[cur])
    /\ registry' = registry \cup Registered(steps[cur])
    /\ seen' = seen \cup registry'
    /\ \E o \in Outcomes(steps[cur]) :
          LET cp == Capture(steps[cur], o)
          IN  Iterate(steps[cur], o.code, [exit |-> cp.exit, out |-> Out(cp)])
    /\ UNCHANGED <<steps, present, cur, rec, restarts>>

\* An error before any process: the step is recorded failed with exit 2.
\* A provider's resolve_secrets has already registered the present values
\* when it reports a missing one.
Refuse ==
    /\ phase = "run"
    /\ cur \in StepIds
    /\ ~Done(cur)
    /\ PrepareFails(steps[cur])
    /\ registry' = IF steps[cur].kind = "provider" /\ steps[cur].templateOk
                   THEN registry \cup Registered(steps[cur])
                   ELSE registry
    /\ seen' = seen \cup registry'
    /\ rec' = [rec EXCEPT ![cur] = [exit |-> 2, out |-> {}, seen |-> seen']]
    /\ cur' = cur + 1
    /\ UNCHANGED <<steps, present, attempt, phase, decided, pending, restarts>>

\* _execute_steps stores the result and update_step writes it: status
\* completed iff exit_code is 0.
Record ==
    /\ phase = "settle"
    /\ rec' = [rec EXCEPT ![cur] = [exit |-> pending.exit, out |-> pending.out,
                                    seen |-> seen]]
    /\ cur' = cur + 1
    /\ attempt' = 0
    /\ phase' = "run"
    /\ pending' = [exit |-> 0, out |-> {}]
    /\ UNCHANGED <<steps, present, decided, registry, seen, restarts>>

\* Resume skips a step whose status is completed without spawning.
Skip ==
    /\ phase = "run"
    /\ cur \in StepIds
    /\ Done(cur)
    /\ cur' = cur + 1
    /\ UNCHANGED <<steps, present, attempt, phase, decided, pending, registry,
                   seen, rec, restarts>>

\* The process dies before the run ends; `resume` starts a new process (a
\* new SecretsManager) at the first step with the saved state.json.
Restart ==
    /\ cur \in StepIds
    /\ restarts < MaxRestarts
    /\ cur' = 1
    /\ attempt' = 0
    /\ phase' = "run"
    /\ pending' = [exit |-> 0, out |-> {}]
    /\ registry' = {}
    /\ restarts' = restarts + 1
    /\ UNCHANGED <<steps, present, decided, seen, rec>>

Next ==
    \/ CommandAttempt \/ ProviderAttempt \/ Refuse \/ Record \/ Skip
    \/ Restart

Spec == Init /\ [][Next]_vars

-----------------------------------------------------------------------------

\* Every variable holds a value of its type, and the registry of the
\* running process holds only values the run has registered.
TypeOK ==
    /\ steps \in Workflows
    /\ present \in SUBSET Secrets
    /\ cur \in 1..NSteps + 1
    /\ attempt \in Nat
    /\ phase \in {"run", "settle"}
    /\ decided \in Nat
    /\ pending \in [exit : Nat, out : SUBSET Values]
    /\ registry \subseteq seen
    /\ seen \subseteq Values
    /\ rec \in [StepIds -> Recorded]
    /\ restarts \in 0..MaxRestarts

\* spec.md 4.12: at most 1 + retries processes per step, where a provider
\* without `retries` takes the run's --max-retries and a command without
\* one is run once.
AttemptLimit(c) ==
    1 + (IF c.retries # NoRetries THEN c.retries
         ELSE IF c.kind = "provider" THEN MaxRetries ELSE 0)

\* The refinement mapping: the processes spawned for the current step (the
\* settled attempt included) and each step's limit.
triesBar == IF phase = "settle" THEN attempt + 1 ELSE attempt
limitBar == [i \in StepIds |-> AttemptLimit(steps[i])]
doneBar == {i \in StepIds : Done(i)}

Abstract == INSTANCE StepAttempts WITH
    step <- cur, tries <- triesBar, last <- decided, limit <- limitBar,
    done <- doneBar

\* The retry loops of both step kinds, with the policies the executor
\* builds, make the attempts spec.md 4.12 allows: a step is retried only
\* after exit 1 or 124, never past its limit, never stopped while a retry
\* is due, never attempted again once its result is final, and never
\* attempted by a resumed process once state.json records it completed.
AttemptsFollowPolicy == Abstract!Spec

\* spec.md 8 (mask completeness): no recorded output, lines entry or json
\* leaf contains a secret value the run's SecretsManager had registered.
MaskComplete ==
    \A i \in StepIds : rec[i].out \cap rec[i].seen = {}

\* spec.md 4.12/7: the exit code recorded for a step is the one its final
\* attempt was judged by (a timeout is 124, a failed process is failed).
RecordedExitJudged ==
    phase = "settle" => pending.exit = decided

=============================================================================
