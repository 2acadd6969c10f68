------------------------------- MODULE Verdicts -------------------------------
(***************************************************************************)
(* What recovery, budget and the simulation's fold answer about the runs   *)
(* of Engine, whose state is one a simulation can really end in.           *)
(***************************************************************************)
EXTENDS Engine, Simulation

\* Simulate's run is the engine's: the fold over a log of accepted operations
\* ends in the engine the step by step run has reached, and where that run was
\* stopped by an operation the fold stops with the same answer, whatever follows
\* in the log (runner.go:29-54).
RunAgrees ==
  LET Ends(log, answer) == Run(log, 0, loaded) = [eng |-> eng, stop |-> answer, done |-> Len(steps)]
  IN  IF stop = "running" THEN Ends(steps, "ok")
      ELSE \E op \in OpInput : Ends(steps \o <<op, Checkpoint>>, stop)

Losses      == {i \in DOMAIN steps : steps[i].type = "powerloss"}
Checkpoints == {i \in DOMAIN steps : steps[i].type = "checkpoint"}

\* Validate names the first power loss that no checkpoint operation precedes and
\* nothing else, unless a cursor points past the log (validator.go:25-47).
RejectionExact ==
  LET unguarded == {i \in Losses : \A j \in Checkpoints : j > i} IN
  /\ Validate(steps, {}) = {i \in unguarded : \A j \in unguarded : i <= j}
  /\ \A c \in 1 .. MaxSteps + 1 :
       Validate(steps, {c}) = IF c > Len(steps) THEN {c} ELSE Validate(steps, {})

\* What passes Validate and loses power is recoverable; a replay runs from the
\* last checkpoint operation to the next power loss and never past it
\* (validator.go:49-82).
ReplayStopsAtLoss ==
  /\ Validate(steps, {}) = {} /\ Losses # {} => Recoverable(steps)
  /\ Recoverable(steps) =>
       LET from == LastCheckpoint(steps)
           end  == from + Replay(steps, from)
       IN  /\ end <= Len(steps)
           /\ \A i \in from + 1 .. end : steps[i].type \notin Marker
           /\ end < Len(steps) => end + 1 \in Losses

\* The two accounts of wear agree: Check finds a hot block exactly when the
\* highest wear Balance reports reaches the threshold.  That wear never is 100
\* percent, for the engine turns such a block bad and both pass over it
\* (evaluator.go:56-106, engine.go:104-108).
BalanceExplainsCheck ==
  LET balance == Balance(eng.blocks) IN
  /\ HotBlocks(eng.blocks) # {} <=> balance.ok /\ balance.max >= HotBlockPct
  /\ balance.min <= balance.avg /\ balance.avg <= balance.max /\ balance.max < 100
===============================================================================
