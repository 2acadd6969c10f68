----------------------------- MODULE Simulation -----------------------------
(***************************************************************************)
(* The verdict of PlanService.Simulate as a function of what it read: the  *)
(* block rows, the operation log and the checkpoint cursors.               *)
(***************************************************************************)
EXTENDS Budget, Recovery

\* Fault: a refused operation does not end the run.
RunStepOn(run, op) ==
  IF Verdict(run.eng, op) = "ok"
  THEN [eng |-> Effect(run.eng, op), stop |-> run.stop, done |-> run.done + 1]
  ELSE [run EXCEPT !.stop = Verdict(run.eng, op)]

\* Runner.Run from operation start+1 on a freshly booted engine: it stops at the
\* first operation that is refused; done counts the accepted ones.
RunStep(run, op) ==
  IF run.stop # "ok" THEN run
  ELSE IF Verdict(run.eng, op) = "ok"
       THEN [eng |-> Effect(run.eng, op), stop |-> "ok", done |-> run.done + 1]
       ELSE [run EXCEPT !.stop = Verdict(run.eng, op)]

Run(ops, start, rows) ==
  FoldLeft(RunStep, [eng |-> Boot(rows), stop |-> "ok", done |-> 0],
           SubSeq(ops, start + 1, Len(ops)))

\* The run resumes after the checkpoint with the highest cursor.
ResumeAt(cursors) == IF cursors = {} THEN 0 ELSE Max(cursors)

NoWear   == << >>
Wear(rows) == [b \in {c \in Block : rows[c].status # "absent"} |-> WearEntry(rows[b])]

\* status "error" stands for an error answer, which leaves the plan as it was.
\* saved is the wear curve to store, one or none: a run that is refused or a log
\* that is rejected for recovery has none.
Outcome(ops, cursors, rows) ==
  LET start == ResumeAt(cursors)
      run   == Run(ops, start, rows)
      late  == Validate(ops, cursors)
      check == Check(run.eng.blocks)
      End(status, step, saved) ==
        [status |-> status, cursor |-> run.done, step |-> step, saved |-> saved]
  IN  IF start > Len(ops) \/ run.stop = "error" THEN End("error", 0, {})
      ELSE IF run.stop # "ok" THEN End("budget_exceeded", start + run.done + 1, {})
      ELSE IF late # {} THEN End("recovery_incomplete", Max(late), {})
      ELSE IF check # "ok" THEN End("budget_exceeded", run.done, {Wear(run.eng.blocks)})
      ELSE End("publishable", 0, {Wear(run.eng.blocks)})
=============================================================================
