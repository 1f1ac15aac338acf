----------------------------- MODULE StateStore -----------------------------
(***************************************************************************)
(* The run-state document of src/orchestrator/state.py with --debug (or    *)
(* --backup-state), the mode in which the executor calls backup_state     *)
(* before every step (executor.py:213-214, 594-596).                       *)
(*                                                                         *)
(* A state document is the id of the write that produced it: the n-th     *)
(* _write_state writes document n, so a larger id is a newer document.    *)
(* Backup files are keyed by the name of the step about to run; step names *)
(* are 1..NNames and their numeric order is the order sorted() puts the   *)
(* file names in.                                                          *)
(***************************************************************************)
EXTENDS Integers, FiniteSets

CONSTANTS
    NNames,        \* step names that backups are keyed by
    MaxBackups,    \* StateManager.max_backups
    MaxWrites,     \* bound on the _write_state calls of the model
    MaxCopies,     \* bound on the backup_state calls of the model
    MaxCrashes,    \* bound on process crashes
    MaxCorruptions \* bound on external corruptions of state.json

ASSUME BoundsAssumption ==
    /\ NNames \in Nat \ {0}
    /\ MaxBackups \in Nat \ {0}
    /\ {MaxWrites, MaxCopies, MaxCrashes, MaxCorruptions} \subseteq Nat
    /\ MaxWrites >= 1

Names == 1..NNames
Docs == 1..MaxWrites

\* Content of a file that json.load rejects (a torn copy, a damaged file).
Corrupt == -1
\* A backup file that does not exist; the in-memory state of no process.
Absent == 0
None == 0

VARIABLES
    stateFile,    \* the content of state.json
    written,      \* the id of the last document _write_state wrote
    mem,          \* StateManager.state of the running process, or None
    pc,           \* "idle" between steps, "rotate" inside backup_state, "down"
    bak,          \* content of state.json.step_<n>.bak
    bakTime,      \* when that file was last written (0: never)
    now,          \* backup_state calls so far: the write order of backups
    crashes,
    corruptions

vars == <<stateFile, written, mem, pc, bak, bakTime, now, crashes, corruptions>>

Existing == {n \in Names : bak[n] # Absent}
\* json.load of the backup file succeeds.
Parses(n) == bak[n] \in Docs

\* The MaxBackups greatest names of a set of backup names: what
\* `sorted(...)[-max_backups:]` keeps.
LastByName(S) == {n \in S : Cardinality({m \in S : m > n}) < MaxBackups}

\* attempt_repair tries the backups in reverse name order and takes the
\* first that parses.
RepairChoice == CHOOSE n \in Existing :
                    /\ Parses(n)
                    /\ \A m \in Existing : m > n => ~Parses(m)

----
(* StateManager.initialize: the first _write_state of a new run.           *)

Init ==
    /\ stateFile = 1
    /\ written = 1
    /\ mem = 1
    /\ pc = "idle"
    /\ bak = [n \in Names |-> Absent]
    /\ bakTime = [n \in Names |-> 0]
    /\ now = 0
    /\ crashes = 0
    /\ corruptions = 0

\* Mutant of WriteState: json.dump straight into state.json, without the
\* temp file; a crash during the dump leaves it torn.
WriteStateInPlace ==
    \/ /\ pc = "idle"
       /\ written < MaxWrites
       /\ written' = written + 1
       /\ stateFile' = written + 1
       /\ mem' = written + 1
       /\ UNCHANGED <<pc, bak, bakTime, now, crashes, corruptions>>
    \/ /\ pc = "idle"
       /\ written < MaxWrites /\ crashes < MaxCrashes
       /\ written' = written + 1
       /\ stateFile' = Corrupt
       /\ pc' = "down"
       /\ mem' = None
       /\ crashes' = crashes + 1
       /\ UNCHANGED <<bak, bakTime, now, corruptions>>

\* update_step / update_status / update_loop_*: change StateManager.state
\* and _write_state it (temp file, then rename over state.json).
WriteState ==
    /\ pc = "idle"
    /\ written < MaxWrites
    /\ written' = written + 1
    /\ stateFile' = written + 1
    /\ mem' = written + 1
    /\ UNCHANGED <<pc, bak, bakTime, now, crashes, corruptions>>

\* backup_state(n), first half: shutil.copy2 of state.json over the backup
\* file of step n.
BackupCopy(n) ==
    /\ pc = "idle"
    /\ now < MaxCopies
    /\ bak' = [bak EXCEPT ![n] = stateFile]
    /\ bakTime' = [bakTime EXCEPT ![n] = now + 1]
    /\ now' = now + 1
    /\ pc' = "rotate"
    /\ UNCHANGED <<stateFile, written, mem, crashes, corruptions>>

\* backup_state(n), second half: _rotate_backups unlinks every backup but
\* the last MaxBackups in name order.
Rotate ==
    /\ pc = "rotate"
    /\ bak' = [n \in Names |-> IF n \in LastByName(Existing) THEN bak[n]
                                                              ELSE Absent]
    /\ pc' = "idle"
    /\ UNCHANGED <<stateFile, written, mem, bakTime, now, crashes, corruptions>>

\* The process dies inside copy2: the backup file is left torn.
TornCopy(n) ==
    /\ pc = "idle"
    /\ now < MaxCopies /\ crashes < MaxCrashes
    /\ bak' = [bak EXCEPT ![n] = Corrupt]
    /\ bakTime' = [bakTime EXCEPT ![n] = now + 1]
    /\ now' = now + 1
    /\ pc' = "down"
    /\ mem' = None
    /\ crashes' = crashes + 1
    /\ UNCHANGED <<stateFile, written, corruptions>>

\* The process dies between two file operations.
Crash ==
    /\ pc \in {"idle", "rotate"}
    /\ crashes < MaxCrashes
    /\ pc' = "down"
    /\ mem' = None
    /\ crashes' = crashes + 1
    /\ UNCHANGED <<stateFile, written, bak, bakTime, now, corruptions>>

\* Something outside the orchestrator damages state.json (the case
\* `resume --repair` exists for).
CorruptState ==
    /\ stateFile # Corrupt
    /\ corruptions < MaxCorruptions
    /\ stateFile' = Corrupt
    /\ corruptions' = corruptions + 1
    /\ UNCHANGED <<written, mem, pc, bak, bakTime, now, crashes>>

\* Mutant of Load: the JSONDecodeError of json.load is not caught.
LoadIgnoringParseError ==
    /\ pc = "down"
    /\ pc' = "idle"
    /\ mem' = stateFile
    /\ UNCHANGED <<stateFile, written, bak, bakTime, now, crashes, corruptions>>

\* resume: StateManager.load() parses state.json.
Load ==
    /\ pc = "down"
    /\ stateFile # Corrupt
    /\ pc' = "idle"
    /\ mem' = stateFile
    /\ UNCHANGED <<stateFile, written, bak, bakTime, now, crashes, corruptions>>

\* Mutant of Repair: --repair restores a backup even when state.json loads.
RepairAlways ==
    /\ pc = "down"
    /\ \E n \in Existing : Parses(n)
    /\ stateFile' = bak[RepairChoice]
    /\ mem' = bak[RepairChoice]
    /\ pc' = "idle"
    /\ UNCHANGED <<written, bak, bakTime, now, crashes, corruptions>>

\* resume --repair after load() failed: attempt_repair copies the chosen
\* backup over state.json, and resume loads it.  When no backup parses,
\* resume exits 1 and nothing changes.
Repair ==
    /\ pc = "down"
    /\ stateFile = Corrupt
    /\ \E n \in Existing : Parses(n)
    /\ stateFile' = bak[RepairChoice]
    /\ mem' = bak[RepairChoice]
    /\ pc' = "idle"
    /\ UNCHANGED <<written, bak, bakTime, now, crashes, corruptions>>

Next ==
    \/ WriteState
    \/ \E n \in Names : BackupCopy(n) \/ TornCopy(n)
    \/ Rotate
    \/ Crash
    \/ CorruptState
    \/ Load
    \/ Repair

Spec == Init /\ [][Next]_vars

----
(* Properties                                                              *)

\* Every file holds a document some _write_state produced, a torn copy or
\* nothing; a live process holds a parsed RunState.
TypeOK ==
    /\ stateFile \in Docs \cup {Corrupt}
    /\ written \in Docs
    /\ pc \in {"idle", "rotate", "down"}
    /\ mem \in IF pc = "down" THEN {None} ELSE Docs
    /\ bak \in [Names -> Docs \cup {Corrupt, Absent}]
    /\ bakTime \in [Names -> 0..MaxCopies]
    /\ now \in 0..MaxCopies
    /\ crashes \in 0..MaxCrashes
    /\ corruptions \in 0..MaxCorruptions

\* Spec "Atomic persist": whatever the crashes (inside backup_state, between
\* writes), state.json parses unless something outside the program damaged
\* it; the temp-file-and-rename of _write_state is what makes this hold.
AtomicPersist == corruptions = 0 => stateFile \in Docs

\* Spec "Backup rotation": once backup_state returns, the backups left are
\* the most recent by write order: no backup that rotation removed was
\* written after one it kept.
RotationKeepsNewest ==
    pc = "idle" =>
        \A n \in Existing, m \in Names \ Existing :
            bakTime[m] <= bakTime[n]

\* Spec 4.13 attempt_repair: the backups are tried newest-first, so the
\* document restored is that of the most recently written backup that
\* parses: no backup written later holds a different parsable document.
RepairRestoresNewest ==
    [][Repair =>
        \A n \in Existing :
            Parses(n) /\ bakTime[n] > bakTime[RepairChoice]
                => bak[n] = bak[RepairChoice]]_vars

\* The abstract document: state.json and the id of the last _write_state.
Document == INSTANCE StoreDocument WITH doc <- stateFile, latest <- written

\* Spec "Atomic persist" and 4.13, as a refinement: every step of the store
\* either commits a whole new document, is a damage from outside, restores
\* a damaged state.json from a document committed earlier, or leaves
\* state.json and the commit count alone; in particular no crash inside
\* backup_state or between writes touches state.json, and repair never
\* restores a torn backup.
PersistsDocuments == Document!Spec

=============================================================================
