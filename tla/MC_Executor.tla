---------------------------- MODULE MC_Executor ----------------------------
(***************************************************************************)
(* Instances of Executor for TLC: three top-level steps, a command with    *)
(* `retries: 1`, a provider without `retries` and a wait_for, with every   *)
(* choice of a single `on` handler on the first two steps.                 *)
(***************************************************************************)
EXTENDS Executor

MCN == 3

\* No handler, or exactly one of on.success / on.failure / on.always.
NoHandlers == [success |-> NoGoto, failure |-> NoGoto, always |-> NoGoto]
OneHandler(t) ==
    {[NoHandlers EXCEPT !.success = t], [NoHandlers EXCEPT !.failure = t],
     [NoHandlers EXCEPT !.always = t]}
HandlerChoices(targets) ==
    {NoHandlers} \cup UNION {OneHandler(t) : t \in targets}

MCKind == [i \in 1..MCN |-> CASE i = 1 -> "command"
                              [] i = 2 -> "provider"
                              [] OTHER -> "wait_for"]
MCRetries == [i \in 1..MCN |-> IF i = 1 THEN 1 ELSE NoRetries]

WorkflowsWith(whenOn, targets, stricts) ==
    {[kind |-> MCKind,
      when |-> [i \in 1..MCN |-> i \in whenOn],
      on |-> [i \in 1..MCN |-> IF i \in 1..2 THEN h[i] ELSE NoHandlers],
      retries |-> MCRetries,
      strict |-> s] :
        h \in [1..2 -> HandlerChoices(targets)], s \in stricts}

\* All gotos, a `when` on step 2: the safety runs.
MCWorkflows == WorkflowsWith({2}, {End} \cup 1..MCN, BOOLEAN)

\* The workflows of ws whose gotos all jump forward.
Forward(ws) ==
    {w \in ws :
        \A i \in 1..2 : \A t \in {w.on[i].success, w.on[i].failure, w.on[i].always} :
            t \in {End, NoGoto} \/ t > i}

\* Forward gotos only: the liveness run.
MCForwardWorkflows == Forward(MCWorkflows)

\* Forward gotos, no `when`, strict flow: the run that isolates the resume skip.
MCGotoWorkflows == Forward(WorkflowsWith({}, {End} \cup 1..MCN, {TRUE}))

\* A `when`, no goto, strict flow: the run that isolates the when error.
MCWhenWorkflows == WorkflowsWith({2}, {}, {TRUE})

=============================================================================
