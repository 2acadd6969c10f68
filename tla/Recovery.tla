------------------------------ MODULE Recovery ------------------------------
(***************************************************************************)
(* The power-loss rules of src/internal/recovery/validator.go over an      *)
(* operation log, a sequence of operations whose sequence numbers are      *)
(* their positions.                                                        *)
(***************************************************************************)
EXTENDS Integers, Sequences, SequencesExt

\* Fault: the next operation makes the last checkpoint forgotten.
ScanStepForgets(scan, op) ==
  LET last == IF op.type = "checkpoint" THEN scan.at + 1 ELSE -1
  IN  [at |-> scan.at + 1, last |-> last,
       found |-> IF scan.found = 0 /\ op.type = "powerloss" /\ last < 0 THEN scan.at + 1
                 ELSE scan.found]

\* One pass of Validate's loop: the operation reached, the last checkpoint
\* operation (-1: none yet) and the first power loss without one (0: none).
ScanStep(scan, op) ==
  LET last == IF op.type = "checkpoint" THEN scan.at + 1 ELSE scan.last
  IN  [at |-> scan.at + 1, last |-> last,
       found |-> IF scan.found = 0 /\ op.type = "powerloss" /\ last < 0 THEN scan.at + 1
                 ELSE scan.found]

Scan(ops) == FoldLeft(ScanStep, [at |-> 0, last |-> -1, found |-> 0], ops)

\* Fault: power losses are not looked at.
ValidateCursors(ops, cursors) == {c \in cursors : c > Len(ops)}

\* Validate: the step of the violation it reports, none if the log passes.  A
\* cursor past the log is reported first (which one, map order decides).
Validate(ops, cursors) ==
  LET dangling == {c \in cursors : c > Len(ops)}
  IN  IF dangling # {} THEN dangling ELSE {Scan(ops).found} \ {0}

\* Recoverable: the last checkpoint operation of the log, wherever it is, if any.
LastCheckpoint(ops) == SelectLastInSeq(ops, LAMBDA op : op.type = "checkpoint")
Recoverable(ops)    == LastCheckpoint(ops) > 0

\* Fault: the power loss itself is replayed.
ReplayStepThrough(run, op) ==
  IF run.lost THEN run
  ELSE [replayed |-> run.replayed + 1, lost |-> op.type = "powerloss"]

\* One pass of Replay's loop: it stops at a power loss.
ReplayStep(run, op) ==
  IF run.lost \/ op.type = "powerloss" THEN [run EXCEPT !.lost = TRUE]
  ELSE [run EXCEPT !.replayed = @ + 1]

\* Replay from an operation of the log.  Integrity is reported as good in every case.
Replay(ops, from) ==
  FoldLeft(ReplayStep, [replayed |-> 0, lost |-> FALSE], SubSeq(ops, from + 1, Len(ops))).replayed
=============================================================================
