----------------------------- MODULE StepRunProofs -----------------------------
(***************************************************************************)
(* Proofs about StepRun for every number of steps, secret names, exit     *)
(* codes, --max-retries value and number of restarts: the two retry loops *)
(* implement the attempt protocol of StepAttempts.                        *)
(***************************************************************************)
EXTENDS StepRun, TLAPS

USE StepRunAssumption

\* The policy either loop builds allows 1 + max_retries attempts, the
\* limit spec.md 4.12 gives, and retries only the default codes.
LEMMA PolicyLimit ==
    ASSUME NEW c \in StepConfig
    PROVE  /\ PolicyOf(c).max_retries \in Nat
           /\ AttemptLimit(c) = 1 + PolicyOf(c).max_retries
           /\ PolicyOf(c).retryable_codes \subseteq DefaultRetryable
BY DEF PolicyOf, ForProvider, ForCommand, AttemptLimit, NoRetries,
       DefaultRetryable, StepConfig

\* A process's exit code and the code its capture reports are numbers.
LEMMA CaptureExit ==
    ASSUME NEW c \in StepConfig, NEW o \in Outcomes(c)
    PROVE  /\ o.code \in Nat
           /\ Capture(c, o).exit \in Nat
BY DEF Outcomes, Capture, CaptureJson, Cap, Forms

\* The types the argument needs.
StepTypes ==
    /\ steps \in [StepIds -> StepConfig]
    /\ cur \in 1..NSteps + 1
    /\ attempt \in Nat
    /\ phase \in {"run", "settle"}
    /\ decided \in Nat
    /\ DOMAIN rec = StepIds

\* A settled result is final under the step's policy, and belongs to a
\* step not recorded completed.
SettleInv ==
    phase = "settle" =>
        /\ cur \in StepIds
        /\ ~Done(cur)
        /\ ~ShouldRetry(PolicyOf(steps[cur]), decided, attempt)

\* Inside the loop after a retry: the step is open, prepares without error,
\* and the attempt before was one the policy retries.
RetryInv ==
    phase = "run" /\ attempt > 0 =>
        /\ cur \in StepIds
        /\ ~Done(cur)
        /\ ~PrepareFails(steps[cur])
        /\ ShouldRetry(PolicyOf(steps[cur]), decided, attempt - 1)

StepInv == StepTypes /\ SettleInv /\ RetryInv

LEMMA InitStepInv == Init => StepInv
BY DEF Init, StepInv, StepTypes, SettleInv, RetryInv

\* One pass of either loop, from an open step, keeps the invariant.
LEMMA IterateStepInv ==
    ASSUME StepInv, phase = "run", cur \in StepIds, ~Done(cur),
           ~PrepareFails(steps[cur]), NEW j \in Nat, NEW r,
           Iterate(steps[cur], j, r),
           UNCHANGED <<steps, present, cur, rec>>
    PROVE  StepInv'
<1>1. CASE /\ ShouldRetry(PolicyOf(steps[cur]), j, attempt)
           /\ attempt' = attempt + 1
           /\ UNCHANGED <<phase, pending>>
  <2>1. decided' = j
        BY DEF Iterate
  <2>2. StepTypes'
        BY <1>1, <2>1 DEF StepInv, StepTypes
  <2>3. RetryInv'
        BY <1>1, <2>1 DEF StepInv, StepTypes, RetryInv, Done, PrepareFails,
                          Missing
  <2>4. SettleInv'
        BY <1>1 DEF SettleInv
  <2> QED BY <2>2, <2>3, <2>4 DEF StepInv
<1>2. CASE /\ ~ShouldRetry(PolicyOf(steps[cur]), j, attempt)
           /\ phase' = "settle"
           /\ pending' = r
           /\ UNCHANGED attempt
  <2>1. decided' = j
        BY DEF Iterate
  <2>2. StepTypes'
        BY <1>2, <2>1 DEF StepInv, StepTypes
  <2>3. SettleInv'
        BY <1>2, <2>1 DEF SettleInv, Done
  <2>4. RetryInv'
        BY <1>2 DEF RetryInv
  <2> QED BY <2>2, <2>3, <2>4 DEF StepInv
<1> QED BY <1>1, <1>2 DEF Iterate

\* An attempt of a command step is one pass of the loop with a numeric code.
LEMMA CommandIterates ==
    ASSUME StepTypes, CommandAttempt
    PROVE  /\ phase = "run" /\ cur \in StepIds /\ ~Done(cur)
           /\ ~PrepareFails(steps[cur])
           /\ \E j \in Nat : \E r : Iterate(steps[cur], j, r)
           /\ UNCHANGED <<steps, present, cur, rec>>
<1>1. cur \in StepIds /\ steps[cur] \in StepConfig
      BY DEF CommandAttempt, StepTypes
<1>2. PICK o \in Outcomes(steps[cur]) :
        LET cp   == Capture(steps[cur], o)
            code == IF cp.exit # 0 THEN cp.exit ELSE o.code
        IN  Iterate(steps[cur], code, [exit |-> code, out |-> Out(Mask(cp, registry))])
      BY DEF CommandAttempt
<1>3. /\ o.code \in Nat
      /\ Capture(steps[cur], o).exit \in Nat
      BY <1>1, CaptureExit
<1> QED BY <1>1, <1>2, <1>3 DEF CommandAttempt

\* An attempt of a provider step is one pass of the loop with a numeric code.
LEMMA ProviderIterates ==
    ASSUME StepTypes, ProviderAttempt
    PROVE  /\ phase = "run" /\ cur \in StepIds /\ ~Done(cur)
           /\ ~PrepareFails(steps[cur])
           /\ \E j \in Nat : \E r : Iterate(steps[cur], j, r)
           /\ UNCHANGED <<steps, present, cur, rec>>
<1>1. cur \in StepIds /\ steps[cur] \in StepConfig
      BY DEF ProviderAttempt, StepTypes
<1>2. PICK o \in Outcomes(steps[cur]) :
        Iterate(steps[cur], o.code,
                [exit |-> Capture(steps[cur], o).exit,
                 out |-> Out(Capture(steps[cur], o))])
      BY DEF ProviderAttempt
<1>3. o.code \in Nat
      BY <1>1, CaptureExit
<1> QED BY <1>1, <1>2, <1>3 DEF ProviderAttempt

\* Every step keeps the invariant.
LEMMA NextStepInv == StepInv /\ [Next]_vars => StepInv'
<1> SUFFICES ASSUME StepInv, [Next]_vars PROVE StepInv'
    OBVIOUS
<1>1. CASE CommandAttempt
      BY <1>1, CommandIterates, IterateStepInv DEF StepInv
<1>2. CASE ProviderAttempt
      BY <1>2, ProviderIterates, IterateStepInv DEF StepInv
<1>3. CASE Refuse
  <2>1. attempt = 0
        BY <1>3 DEF Refuse, StepInv, StepTypes, RetryInv
  <2> QED BY <1>3, <2>1 DEF Refuse, StepInv, StepTypes, SettleInv, RetryInv, StepIds
<1>4. CASE Record
      BY <1>4 DEF Record, StepInv, StepTypes, SettleInv, RetryInv, StepIds
<1>5. CASE Skip
  <2>1. attempt = 0
        BY <1>5 DEF Skip, StepInv, StepTypes, RetryInv
  <2> QED BY <1>5, <2>1 DEF Skip, StepInv, StepTypes, SettleInv, RetryInv, StepIds
<1>6. CASE Restart
      BY <1>6 DEF Restart, StepInv, StepTypes, SettleInv, RetryInv
<1>7. CASE UNCHANGED vars
      BY <1>7 DEF vars, StepInv, StepTypes, SettleInv, RetryInv, Done,
                  PrepareFails, Missing
<1> QED BY <1>1, <1>2, <1>3, <1>4, <1>5, <1>6, <1>7 DEF Next

\* The invariant holds in every state of every behaviour.
THEOREM StepInvariant == Spec => []StepInv
BY InitStepInv, NextStepInv, PTL DEF Spec

\* The abstract module's operators, with the refinement mapping applied.
AbsVars == <<cur, triesBar, decided, limitBar, doneBar>>

LEMMA InitRefines == Init => Abstract!Init
<1> SUFFICES ASSUME Init PROVE Abstract!Init
    OBVIOUS
<1>1. steps \in [StepIds -> StepConfig]
      BY DEF Init
<1>2. \A i \in StepIds : AttemptLimit(steps[i]) \in Nat \ {0}
      BY <1>1, PolicyLimit
<1>3. doneBar = {}
      BY DEF Init, doneBar, Done
<1> QED BY <1>2, <1>3 DEF Init, Abstract!Init, triesBar, limitBar,
                         Abstract!StepIds, StepIds

\* Writing the result of a step not recorded completed adds at most that
\* step to the completed ones.
LEMMA RecWriteDone ==
    ASSUME NEW i \in StepIds, ~Done(i), DOMAIN rec = StepIds, NEW x,
           rec' = [rec EXCEPT ![i] = x]
    PROVE  doneBar' \in {doneBar, doneBar \cup {i}}
<1>1. \A k \in StepIds \ {i} : rec'[k] = rec[k]
      OBVIOUS
<1>2. \A k \in StepIds \ {i} : (k \in doneBar') <=> (k \in doneBar)
      BY <1>1 DEF doneBar, Done
<1>3. i \notin doneBar
      BY DEF doneBar
<1>4. doneBar \subseteq StepIds /\ doneBar' \subseteq StepIds
      BY DEF doneBar
<1>5. CASE i \in doneBar'
  <2>1. doneBar' = doneBar \cup {i}
        BY <1>2, <1>3, <1>4, <1>5
  <2> QED BY <2>1
<1>6. CASE i \notin doneBar'
  <2>1. doneBar' = doneBar
        BY <1>2, <1>3, <1>4, <1>6
  <2> QED BY <2>1
<1> QED BY <1>5, <1>6

\* Before a pass of either loop the abstract protocol allows an attempt.
LEMMA MayAttemptHolds ==
    ASSUME StepInv, phase = "run", cur \in StepIds
    PROVE  Abstract!MayAttempt
<1>1. steps[cur] \in StepConfig
      BY DEF StepInv, StepTypes
<1>2. CASE attempt > 0
  <2>1. ShouldRetry(PolicyOf(steps[cur]), decided, attempt - 1)
        BY <1>2 DEF StepInv, RetryInv
  <2>2. /\ decided \in DefaultRetryable
        /\ attempt < AttemptLimit(steps[cur])
        BY <1>1, <2>1, PolicyLimit DEF ShouldRetry, StepInv, StepTypes
  <2> QED BY <2>2 DEF Abstract!MayAttempt, Abstract!RetryableCodes,
                      DefaultRetryable, triesBar, limitBar
<1>3. CASE attempt = 0
      BY <1>3 DEF Abstract!MayAttempt, triesBar
<1> QED BY <1>2, <1>3 DEF StepInv, StepTypes

\* A pass of either loop is an abstract Attempt.
LEMMA IterateRefines ==
    ASSUME StepInv, phase = "run", cur \in StepIds, ~Done(cur), NEW j \in Nat,
           NEW r, Iterate(steps[cur], j, r), UNCHANGED <<steps, cur, rec>>
    PROVE  Abstract!Attempt
<1>1. Abstract!MayAttempt
      BY MayAttemptHolds
<1>2. triesBar' = triesBar + 1
      BY DEF Iterate, triesBar, StepInv, StepTypes
<1>3. decided' \in Int
      BY DEF Iterate
<1>4. limitBar' = limitBar
      BY DEF limitBar
<1>5. cur \notin doneBar /\ doneBar' = doneBar
      BY DEF doneBar, Done
<1> QED BY <1>1, <1>2, <1>3, <1>4, <1>5 DEF Abstract!Attempt, Abstract!StepIds,
                                           StepIds

\* Writing a settled result is an abstract Settle.
LEMMA RecordRefines ==
    ASSUME StepInv, Record
    PROVE  Abstract!Settle
<1>1. /\ cur \in StepIds
      /\ ~ShouldRetry(PolicyOf(steps[cur]), decided, attempt)
      /\ steps[cur] \in StepConfig
      /\ attempt \in Nat
      BY DEF Record, StepInv, SettleInv, StepTypes
<1>2. triesBar = attempt + 1
      BY DEF Record, triesBar
<1>3. ~Abstract!MayAttempt
  <2>1. PolicyOf(steps[cur]).max_retries \in Nat
        BY <1>1, PolicyLimit
  <2>2. ~(decided \in DefaultRetryable /\ attempt < PolicyOf(steps[cur]).max_retries)
    <3>1. CASE PolicyOf(steps[cur]).max_retries = 0
          BY <1>1, <3>1
    <3>2. CASE PolicyOf(steps[cur]).max_retries > 0
          BY <1>1, <3>2, PolicyLimit DEF ShouldRetry, PolicyOf, ForProvider,
             ForCommand, NoRetries, StepConfig
    <3> QED BY <2>1, <3>1, <3>2
  <2> QED BY <1>1, <1>2, <2>1, <2>2, PolicyLimit
          DEF Abstract!MayAttempt, Abstract!RetryableCodes, DefaultRetryable,
              limitBar
<1>4. triesBar' = 0 /\ cur' = cur + 1 /\ UNCHANGED <<decided, limitBar>>
      BY DEF Record, triesBar, limitBar
<1>5. doneBar' \in {doneBar, doneBar \cup {cur}}
  <2>1. ~Done(cur) /\ DOMAIN rec = StepIds
        BY <1>1 DEF Record, StepInv, SettleInv, StepTypes
  <2> QED BY <1>1, <2>1, RecWriteDone DEF Record
<1> QED BY <1>1, <1>2, <1>3, <1>4, <1>5 DEF Abstract!Settle, Abstract!StepIds,
                                           StepIds

\* Every step of StepRun is a step of the abstract protocol or leaves the
\* mapped state unchanged.
LEMMA NextRefines == StepInv /\ [Next]_vars => [Abstract!Next]_AbsVars
<1> SUFFICES ASSUME StepInv, [Next]_vars PROVE [Abstract!Next]_AbsVars
    OBVIOUS
<1>1. CASE CommandAttempt
  <2>1. PICK j \in Nat : \E r : Iterate(steps[cur], j, r)
        BY <1>1, CommandIterates DEF StepInv
  <2>2. PICK r : Iterate(steps[cur], j, r)
        BY <2>1
  <2> QED BY <1>1, <2>2, CommandIterates, IterateRefines
          DEF StepInv, Abstract!Next
<1>2. CASE ProviderAttempt
  <2>1. PICK j \in Nat : \E r : Iterate(steps[cur], j, r)
        BY <1>2, ProviderIterates DEF StepInv
  <2>2. PICK r : Iterate(steps[cur], j, r)
        BY <2>1
  <2> QED BY <1>2, <2>2, ProviderIterates, IterateRefines
          DEF StepInv, Abstract!Next
<1>3. CASE Refuse
  <2>1. attempt = 0 /\ phase = "run"
        BY <1>3 DEF Refuse, StepInv, StepTypes, RetryInv
  <2>3. doneBar' = doneBar
    <3>1. cur \in StepIds /\ ~Done(cur) /\ DOMAIN rec = StepIds
          BY <1>3 DEF Refuse, StepInv, StepTypes
    <3>2. doneBar' \in {doneBar, doneBar \cup {cur}}
          BY <1>3, <3>1, RecWriteDone DEF Refuse
    <3>3. cur \notin doneBar' /\ cur \notin doneBar
          \* the refused step is recorded with exit 2
          BY <1>3, <3>1 DEF Refuse, doneBar, Done
    <3> QED BY <3>2, <3>3
  <2>2. Abstract!Pass
        BY <1>3, <2>1, <2>3 DEF Refuse, triesBar, limitBar, Abstract!Pass,
                          Abstract!StepIds, StepIds
  <2> QED BY <2>2 DEF Abstract!Next
<1>4. CASE Record
      BY <1>4, RecordRefines DEF Abstract!Next
<1>5. CASE Skip
  <2>1. attempt = 0 /\ phase = "run"
        BY <1>5 DEF Skip, StepInv, StepTypes, RetryInv
  <2>2. Abstract!Pass
        BY <1>5, <2>1 DEF Skip, triesBar, limitBar, doneBar, Done,
                          Abstract!Pass, Abstract!StepIds, StepIds
  <2> QED BY <2>2 DEF Abstract!Next
<1>6. CASE Restart
  <2>1. Abstract!Restart
        BY <1>6 DEF Restart, triesBar, limitBar, doneBar, Done,
                    Abstract!Restart, Abstract!StepIds, StepIds
  <2> QED BY <2>1 DEF Abstract!Next
<1>7. CASE UNCHANGED vars
      BY <1>7 DEF vars, AbsVars, triesBar, limitBar, doneBar, Done
<1> QED BY <1>1, <1>2, <1>3, <1>4, <1>5, <1>6, <1>7 DEF Next

\* Both retry loops (executor.py's _execute_command and the provider loop
\* of _execute_provider_with_context, with the policies they build) make
\* exactly the attempts spec.md 4.12 allows, through any number of
\* restarts and resumes.
THEOREM AttemptsRefinement == Spec => AttemptsFollowPolicy
<1>1. Spec => []StepInv
      BY StepInvariant
<1> QED BY <1>1, InitRefines, NextRefines, PTL
        DEF Spec, AttemptsFollowPolicy, Abstract!Spec, AbsVars

\* Secret values a step can see, register or print are values.
LEMMA ValuesOfStep ==
    ASSUME NEW c \in StepConfig, present \subseteq Secrets
    PROVE  /\ Visible(c) \subseteq Values
           /\ Registered(c) \subseteq Values
BY DEF Visible, Registered, ValueOf, Values, StepConfig

\* What a capture keeps, masked or not, is among the values printed.
LEMMA CaptureOut ==
    ASSUME NEW c \in StepConfig, NEW o \in Outcomes(c), NEW reg
    PROVE  /\ Out(Capture(c, o)) \subseteq o.shown
           /\ Out(Mask(Capture(c, o), reg)) \subseteq o.shown
<1>1. o.form \in Forms
      BY DEF Outcomes, Forms
<1> QED BY <1>1 DEF Capture, CaptureJson, Cap, Mask, Out, Forms

\* One pass of either loop with a typed result keeps the types.
LEMMA IterateType ==
    ASSUME TypeOK, NEW c, NEW j \in Nat,
           NEW r \in [exit : Nat, out : SUBSET Values],
           Iterate(c, j, r), UNCHANGED <<steps, present, cur, rec, restarts>>,
           registry' \subseteq seen', seen' \subseteq Values
    PROVE  TypeOK'
BY DEF Iterate, TypeOK

LEMMA NextType == TypeOK /\ StepInv /\ [Next]_vars => TypeOK'
<1> SUFFICES ASSUME TypeOK, StepInv, [Next]_vars PROVE TypeOK'
    OBVIOUS
<1>0. /\ steps \in [StepIds -> StepConfig]
      /\ present \subseteq Secrets
      BY DEF TypeOK
<1>1. CASE CommandAttempt
  <2>1. cur \in StepIds
        BY <1>1 DEF CommandAttempt
  <2>2. PICK o \in Outcomes(steps[cur]) :
          LET cp   == Capture(steps[cur], o)
              code == IF cp.exit # 0 THEN cp.exit ELSE o.code
          IN  Iterate(steps[cur], code,
                      [exit |-> code, out |-> Out(Mask(cp, registry))])
        BY <1>1 DEF CommandAttempt
  <2>3. /\ o.code \in Nat
        /\ Capture(steps[cur], o).exit \in Nat
        /\ Out(Mask(Capture(steps[cur], o), registry)) \subseteq Values
        BY <1>0, <2>1, CaptureExit, CaptureOut, ValuesOfStep DEF Outcomes
  <2>4. registry' \subseteq seen' /\ seen' \subseteq Values
        BY <1>1 DEF CommandAttempt, TypeOK
  <2> QED BY <1>1, <2>2, <2>3, <2>4, IterateType DEF CommandAttempt
<1>2. CASE ProviderAttempt
  <2>1. cur \in StepIds
        BY <1>2 DEF ProviderAttempt
  <2>2. PICK o \in Outcomes(steps[cur]) :
          Iterate(steps[cur], o.code,
                  [exit |-> Capture(steps[cur], o).exit,
                   out |-> Out(Capture(steps[cur], o))])
        BY <1>2 DEF ProviderAttempt
  <2>3. /\ o.code \in Nat
        /\ Capture(steps[cur], o).exit \in Nat
        /\ Out(Capture(steps[cur], o)) \subseteq Values
        BY <1>0, <2>1, <2>2, CaptureExit, CaptureOut, ValuesOfStep DEF Outcomes
  <2>4. registry' \subseteq seen' /\ seen' \subseteq Values
        BY <1>0, <1>2, <2>1, ValuesOfStep DEF ProviderAttempt, TypeOK
  <2> QED BY <1>2, <2>2, <2>3, <2>4, IterateType DEF ProviderAttempt
<1>3. CASE Refuse
  <2>1. cur \in StepIds /\ registry' \subseteq seen' /\ seen' \subseteq Values
        BY <1>0, <1>3, ValuesOfStep DEF Refuse, TypeOK
  <2> QED BY <1>3, <2>1 DEF Refuse, TypeOK, Recorded, StepIds
<1>4. CASE Record
  <2>1. cur \in StepIds
        BY <1>4 DEF Record, StepInv, SettleInv
  <2> QED BY <1>4, <2>1 DEF Record, TypeOK, Recorded, StepIds
<1>5. CASE Skip
      BY <1>5 DEF Skip, TypeOK, StepIds
<1>6. CASE Restart
      BY <1>6 DEF Restart, TypeOK, StepIds
<1>7. CASE UNCHANGED vars
      BY <1>7 DEF vars, TypeOK
<1> QED BY <1>1, <1>2, <1>3, <1>4, <1>5, <1>6, <1>7 DEF Next

\* StepRun's TypeOK holds in every state: in particular the SecretsManager
\* of a running process never holds a value the run did not register, and
\* a recorded result has a numeric exit code.
THEOREM StepRunTypeCorrect == Spec => []TypeOK
<1>1. Init => TypeOK /\ StepInv
      BY InitStepInv DEF Init, TypeOK, Recorded, NoRec
<1>2. TypeOK /\ StepInv /\ [Next]_vars => TypeOK' /\ StepInv'
      BY NextType, NextStepInv
<1> QED BY <1>1, <1>2, PTL DEF Spec

=============================================================================
