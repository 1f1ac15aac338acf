--------------------------- MODULE StoreDocument ---------------------------
(***************************************************************************)
(* What spec.md promises of state.json ("Atomic persist", 4.13 repair),    *)
(* stated without files, temp files or backups: the document is replaced  *)
(* only as a whole by a newer committed one; only something outside the    *)
(* orchestrator damages it; and a repair replaces a damaged document by    *)
(* one that was committed before.  Crashes of the orchestrator are not    *)
(* steps of this specification: they leave the document as it is.         *)
(*                                                                         *)
(*   doc     state.json: the id of a committed document, or Damaged        *)
(*   latest  the id of the newest committed document                       *)
(***************************************************************************)
EXTENDS Integers

Damaged == -1

VARIABLES doc, latest

Init ==
    /\ latest = 1
    /\ doc = 1

\* A new document is committed and replaces whatever state.json held.
Commit ==
    /\ latest' = latest + 1
    /\ doc' = latest + 1

\* Damage from outside the program.
Damage ==
    /\ doc # Damaged
    /\ doc' = Damaged
    /\ UNCHANGED latest

\* A damaged document is replaced by one committed earlier.
Restore ==
    /\ doc = Damaged
    /\ doc' \in 1..latest
    /\ UNCHANGED latest

Next == Commit \/ Damage \/ Restore

Spec == Init /\ [][Next]_<<doc, latest>>

=============================================================================
