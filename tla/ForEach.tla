------------------------------- MODULE ForEach -------------------------------
(***************************************************************************)
(* A workflow whose loop step is a for_each over NItems items with         *)
(* NChildren nested steps (WorkflowExecutor._execute_for_each and the      *)
(* for_each branch of execute(), src/orchestrator/workflow/executor.py),   *)
(* followed by the rest of the workflow, under crashes and resumes.        *)
(*                                                                         *)
(* The iterations run in memory; only when all of them are done does the   *)
(* loop write each child result under Parent[i].Child (one _write_state   *)
(* each) and then the aggregate list under Parent.  A child result is its *)
(* exit code: 0 (success, or a `when` that was false) or 1 (a failure, or *)
(* a `when` that raised).                                                  *)
(***************************************************************************)
EXTENDS Naturals, Sequences

CONSTANTS
    NItems,      \* len(items)
    NChildren,   \* len(for_each.steps)
    MaxCrashes,  \* bound on SIGKILLs
    MaxResumes   \* bound on `orchestrate resume` calls

ASSUME ForEachAssumption ==
    /\ NItems \in Nat \ {0}
    /\ NChildren \in Nat \ {0}
    /\ MaxCrashes \in Nat /\ MaxResumes \in Nat

Items == 1..NItems
Children == 1..NChildren
Exits == {0, 1}
Absent == "absent"

\* StepResult.status written by update_loop_step for a child's exit code.
StatusOf(e) == IF e = 0 THEN "completed" ELSE "failed"

VARIABLES
    proc,        \* "running", "down" (killed) or "finished" (returned)
    resumed,     \* the process is `resume` (execute(resume=True))
    onError,     \* --on-error of the process
    itemsFrom,   \* the loop uses items_from (which can fail to resolve)
    pc,          \* "check", "items", "iter", "flush", "list", "rest"
    idx,         \* the loop index (1-based)
    child,       \* the next nested step of the iteration
    cur,         \* iteration_state: exit codes of the iteration so far
    memRes,      \* loop_results
    memErr,      \* _record_step_error put an error dict under Parent
    fi, fc,      \* the next (iteration, child) pair the flat write loop writes
    diskFlat,    \* state.json: steps["Parent[i].Child"].status
    listSaved,   \* state.json has steps["Parent"]
    diskList,    \* and its content
    diskStatus,  \* state.json: status
    crashes,
    resumes,
    ran,         \* history: children this process executed
    doneAtLoad   \* history: diskFlat when this process loaded state.json

vars == <<proc, resumed, onError, itemsFrom, pc, idx, child, cur, memRes,
          memErr, fi, fc, diskFlat, listSaved, diskList, diskStatus,
          crashes, resumes, ran, doneAtLoad>>

NoFlat == [i \in Items |-> [c \in Children |-> Absent]]

\* Iteration i has every child `completed` in state.json: the test of
\* _execute_for_each for keeping an existing iteration.
IterationComplete(i) ==
    \A c \in Children : diskFlat[i][c] \in {"completed", "skipped"}

\* The number of existing iterations resume keeps: the complete prefix.
KeptCount ==
    CHOOSE k \in 0..Len(diskList) :
        /\ \A j \in 1..k : IterationComplete(j)
        /\ k < Len(diskList) => ~IterationComplete(k + 1)

----
(* `orchestrate run`: the loop is the first step of a fresh run.           *)

Init ==
    /\ proc = "running"
    /\ resumed = FALSE
    /\ onError \in {"stop", "continue"}
    /\ itemsFrom \in BOOLEAN
    /\ pc = "check"
    /\ idx = 1
    /\ child = 1
    /\ cur = [c \in Children |-> 0]
    /\ memRes = <<>>
    /\ memErr = FALSE
    /\ fi = 1
    /\ fc = 1
    /\ diskFlat = NoFlat
    /\ listSaved = FALSE
    /\ diskList = <<>>
    /\ diskStatus = "running"
    /\ crashes = 0
    /\ resumes = 0
    /\ ran = {}
    /\ doneAtLoad = NoFlat

\* The resume check of execute(): a list result is skipped when all of its
\* entries have status completed or skipped.  The entries are iteration
\* maps, which have no `status` key, so only an empty list passes.
Check ==
    /\ proc = "running" /\ pc = "check"
    /\ pc' = IF resumed /\ listSaved /\ diskList = <<>> THEN "rest" ELSE "items"
    /\ UNCHANGED <<proc, resumed, onError, itemsFrom, idx, child, cur, memRes,
                   memErr, fi, fc, diskFlat, listSaved, diskList, diskStatus,
                   crashes, resumes, ran, doneAtLoad>>

\* items_from fails to resolve: _record_step_error stores an exit-2 dict in
\* memory only, and _handle_control_flow stops (on_error stop, strict_flow)
\* or continues with the rest of the workflow.
ItemsError ==
    /\ proc = "running" /\ pc = "items" /\ itemsFrom
    /\ memErr' = TRUE
    /\ IF onError = "stop"
       THEN proc' = "finished" /\ UNCHANGED pc
       ELSE pc' = "rest" /\ UNCHANGED proc
    /\ UNCHANGED <<resumed, onError, itemsFrom, idx, child, cur, memRes,
                   fi, fc, diskFlat, listSaved, diskList, diskStatus,
                   crashes, resumes, ran, doneAtLoad>>

\* Mutant of ResolveItems: resume keeps the whole existing list, not only its
\* complete prefix, and still starts at the first incomplete iteration.
ResolveItemsKeepAll ==
    /\ proc = "running" /\ pc = "items"
    /\ IF resumed /\ listSaved
       THEN memRes' = diskList /\ idx' = KeptCount + 1
       ELSE memRes' = <<>> /\ idx' = 1
    /\ pc' = "iter" /\ child' = 1 /\ memErr' = FALSE
    /\ UNCHANGED <<proc, resumed, onError, itemsFrom, cur, fi, fc, diskFlat,
                   listSaved, diskList, diskStatus, crashes, resumes, ran,
                   doneAtLoad>>

\* Mutant of ResolveItems: resume starts after the complete prefix but forgets to
\* append the kept iterations to loop_results.
ResolveItemsNoKeep ==
    /\ proc = "running" /\ pc = "items"
    /\ memRes' = <<>>
    /\ idx' = IF resumed /\ listSaved THEN KeptCount + 1 ELSE 1
    /\ pc' = "iter" /\ child' = 1 /\ memErr' = FALSE
    /\ UNCHANGED <<proc, resumed, onError, itemsFrom, cur, fi, fc, diskFlat,
                   listSaved, diskList, diskStatus, crashes, resumes, ran,
                   doneAtLoad>>

\* The items resolve; on resume the complete prefix of the existing list is
\* kept and the loop starts at the first iteration not complete in state.
ResolveItems ==
    /\ proc = "running" /\ pc = "items"
    /\ IF resumed /\ listSaved
       THEN /\ memRes' = SubSeq(diskList, 1, KeptCount)
            /\ idx' = KeptCount + 1
       ELSE memRes' = <<>> /\ idx' = 1
    /\ pc' = "iter" /\ child' = 1 /\ memErr' = FALSE
    /\ UNCHANGED <<proc, resumed, onError, itemsFrom, cur, fi, fc, diskFlat,
                   listSaved, diskList, diskStatus, crashes, resumes, ran,
                   doneAtLoad>>

\* One nested step of iteration idx runs (or its `when` is evaluated) and
\* its result goes into iteration_state; after the last child the
\* iteration is appended to loop_results.  Nothing is written to disk.
RunChild ==
    /\ proc = "running" /\ pc = "iter" /\ idx <= NItems
    /\ \E e \in Exits :
         LET it == [cur EXCEPT ![child] = e]
         IN  IF child = NChildren
             THEN /\ memRes' = Append(memRes, it)
                  /\ idx' = idx + 1 /\ child' = 1
                  /\ cur' = [c \in Children |-> 0]
             ELSE /\ cur' = it /\ child' = child + 1
                  /\ UNCHANGED <<memRes, idx>>
    /\ ran' = ran \cup {<<idx, child>>}
    /\ UNCHANGED <<proc, resumed, onError, itemsFrom, pc, memErr, fi, fc,
                   diskFlat, listSaved, diskList, diskStatus, crashes,
                   resumes, doneAtLoad>>

\* The `for index in range(start_index, len(items))` loop is over.
LoopDone ==
    /\ proc = "running" /\ pc = "iter" /\ idx > NItems
    /\ pc' = "flush" /\ fi' = 1 /\ fc' = 1
    /\ UNCHANGED <<proc, resumed, onError, itemsFrom, idx, child, cur, memRes,
                   memErr, diskFlat, listSaved, diskList, diskStatus, crashes,
                   resumes, ran, doneAtLoad>>

\* update_loop_step for child fc of iteration fi of loop_results (the
\* loops over enumerate(loop_results) and iteration.items()): one write.
Flush ==
    /\ proc = "running" /\ pc = "flush"
    /\ fi <= Len(memRes)
    /\ diskFlat' = [diskFlat EXCEPT ![fi][fc] = StatusOf(memRes[fi][fc])]
    /\ IF fc = NChildren THEN fi' = fi + 1 /\ fc' = 1
                         ELSE fc' = fc + 1 /\ UNCHANGED fi
    /\ UNCHANGED <<proc, resumed, onError, itemsFrom, pc, idx, child, cur,
                   memRes, memErr, listSaved, diskList, diskStatus, crashes,
                   resumes, ran, doneAtLoad>>

\* Back in execute(): update_loop_results writes the aggregate list.
SaveList ==
    /\ proc = "running" /\ pc = "flush"
    /\ fi > Len(memRes)
    /\ listSaved' = TRUE
    /\ diskList' = memRes
    /\ pc' = "rest"
    /\ UNCHANGED <<proc, resumed, onError, itemsFrom, idx, child, cur, memRes,
                   memErr, fi, fc, diskFlat, diskStatus, crashes, resumes,
                   ran, doneAtLoad>>

\* The steps after the loop: the run ends with update_status('completed'),
\* or a later step stops it under strict_flow (status stays running).
Rest ==
    /\ proc = "running" /\ pc = "rest"
    /\ proc' = "finished"
    /\ diskStatus' \in {diskStatus, "completed"}
    /\ UNCHANGED <<resumed, onError, itemsFrom, pc, idx, child, cur, memRes,
                   memErr, fi, fc, diskFlat, listSaved, diskList, crashes,
                   resumes, ran, doneAtLoad>>

\* SIGKILL at any point: the in-memory state is lost, state.json is not.
Crash ==
    /\ proc = "running"
    /\ crashes < MaxCrashes
    /\ proc' = "down"
    /\ crashes' = crashes + 1
    /\ UNCHANGED <<resumed, onError, itemsFrom, pc, idx, child, cur, memRes,
                   memErr, fi, fc, diskFlat, listSaved, diskList, diskStatus,
                   resumes, ran, doneAtLoad>>

\* `orchestrate resume` of a run that is not completed: load state.json and
\* execute(resume=True) from the first step.
Resume ==
    /\ proc # "running"
    /\ diskStatus # "completed"
    /\ resumes < MaxResumes
    /\ proc' = "running"
    /\ resumed' = TRUE
    /\ onError' \in {"stop", "continue"}
    /\ pc' = "check"
    /\ idx' = 1 /\ child' = 1
    /\ cur' = [c \in Children |-> 0]
    /\ memRes' = <<>> /\ memErr' = FALSE /\ fi' = 1 /\ fc' = 1
    /\ resumes' = resumes + 1
    /\ ran' = {}
    /\ doneAtLoad' = diskFlat
    /\ UNCHANGED <<itemsFrom, diskFlat, listSaved, diskList, diskStatus,
                   crashes>>

Next ==
    \/ Check \/ ItemsError \/ ResolveItems \/ RunChild \/ LoopDone
    \/ Flush \/ SaveList \/ Rest \/ Crash \/ Resume

Spec == Init /\ [][Next]_vars

----
(* Properties                                                              *)

\* Every variable holds a value the loop can produce; loop_results never
\* has more entries than there are items.
TypeOK ==
    /\ proc \in {"running", "down", "finished"}
    /\ resumed \in BOOLEAN /\ itemsFrom \in BOOLEAN
    /\ onError \in {"stop", "continue"}
    /\ pc \in {"check", "items", "iter", "flush", "rest"}
    /\ idx \in 1..NItems + 1 /\ child \in Children
    /\ cur \in [Children -> Exits]
    /\ memRes \in Seq([Children -> Exits]) /\ Len(memRes) <= NItems
    /\ memErr \in BOOLEAN
    /\ fi \in 1..NItems + 1 /\ fc \in Children
    /\ diskFlat \in [Items -> [Children -> {Absent, "completed", "failed"}]]
    /\ listSaved \in BOOLEAN
    /\ diskList \in Seq([Children -> Exits])
    /\ diskStatus \in {"running", "completed"}
    /\ crashes \in 0..MaxCrashes /\ resumes \in 0..MaxResumes
    /\ ran \subseteq Items \X Children

\* Spec 9 ("two views of the same underlying entries"): whenever the loop
\* step has returned normally, however many crashes and resumes it took,
\* state.json holds one aggregate entry per item and every flat
\* Parent[i].Child status agrees with the aggregate's exit code.
LoopViewsAgree ==
    pc = "rest" /\ ~memErr =>
        /\ listSaved
        /\ Len(diskList) = NItems
        /\ \A i \in Items, c \in Children :
               diskFlat[i][c] = StatusOf(diskList[i][c])

\* Spec 5 and 9 (resume of an already-terminal step, for-each resume): a child whose status is completed in the state
\* a resume loaded is not run again by that resume.
ChildNotRerun ==
    resumed => \A p \in ran : doneAtLoad[p[1]][p[2]] # "completed"

\* Spec 5 ("a step's state is persisted before the next step starts") and
\* 7 ("every error produces a StepResult"): when execution moves on past the
\* loop step, state.json holds a result for it.
StepPersistedBeforeNext == pc = "rest" => listSaved

=============================================================================
