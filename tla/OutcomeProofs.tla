----------------------------- MODULE OutcomeProofs -----------------------------
(***************************************************************************)
(* What the operators of the model compute, for every chip, operation log, *)
(* set of checkpoints and block table: the layout, Validate, Recoverable,  *)
(* Replay, Run, Outcome and Balance.                                       *)
(***************************************************************************)
EXTENDS Simulation, FiniteSetTheorems, SequenceTheorems, TLAPS

\* The chip has at least one block, and usable and reserved blocks add up.
LEMMA CapacityPositive ==
  /\ TotalBlocks \in Nat \ {0} /\ TotalPages \in Nat \ {0}
  /\ UsableBlocks \in Nat \ {0}
PROOF
<1>1. \A m, n \in Nat \ {0} : m * n \in Nat \ {0}
  OBVIOUS
<1>2. TotalBlocks \in Nat \ {0}
  BY <1>1, LayoutAssumption DEF TotalBlocks
<1>3. TotalPages \in Nat \ {0}
  BY <1>1, <1>2, LayoutAssumption DEF TotalPages
<1>4. UsableBlocks \in Nat \ {0}
  BY <1>2, LayoutAssumption DEF UsableBlocks
<1>5. QED BY <1>2, <1>3, <1>4

\* PageToBlock names a block of the chip and a page of that block, and
\* BlockToPage leads back: the two numbers determine the page.
THEOREM PageAddress ==
  ASSUME NEW ppn \in Page
  PROVE  /\ BlockOf(ppn) \in Block
         /\ PageIn(ppn) \in 0 .. PagesPerBlock - 1
         /\ ppn = FirstPage(BlockOf(ppn)) + PageIn(ppn)
PROOF
<1> DEFINE b == BlockOf(ppn)
           i == PageIn(ppn)
<1>1. ppn \in Nat /\ ppn < TotalBlocks * PagesPerBlock
  BY CapacityPositive DEF Page, TotalPages
<1>2. b \in Int /\ i \in 0 .. PagesPerBlock - 1 /\ ppn = PagesPerBlock * b + i
  BY <1>1, LayoutAssumption DEF BlockOf, PageIn
<1>3. b >= 0
  BY <1>1, <1>2, LayoutAssumption
<1>4. b < TotalBlocks
  BY <1>1, <1>2, <1>3, LayoutAssumption, CapacityPositive
<1>5. QED BY <1>2, <1>3, <1>4, LayoutAssumption, CapacityPositive DEF Block, FirstPage

\* A block number splits into die, plane and block in range, and the three
\* numbers compose to it again (IndexToLocation, LocationToIndex).
THEOREM BlockLocation ==
  ASSUME NEW b \in Block
  PROVE  LET loc == IndexToLocation(b) IN
         /\ loc.die \in 0 .. DieCount - 1
         /\ loc.plane \in 0 .. PlanesPerDie - 1
         /\ loc.block \in 0 .. BlocksPerPlane - 1
         /\ LocationToIndex(loc) = b
PROOF
<1> DEFINE stride == PlanesPerDie * BlocksPerPlane
           rest   == b % stride
           die    == b \div stride
           plane  == rest \div BlocksPerPlane
           block  == rest % BlocksPerPlane
<1>1. stride \in Nat \ {0} /\ TotalBlocks = DieCount * stride
  BY LayoutAssumption DEF TotalBlocks
<1>2. b \in Nat /\ b < DieCount * stride
  BY <1>1, LayoutAssumption DEF Block
<1> HIDE DEF stride
<1>3. die \in Int /\ rest \in 0 .. stride - 1 /\ b = stride * die + rest
  BY <1>1, <1>2
<1>4. die \in 0 .. DieCount - 1
  <2>1. die >= 0
    BY <1>1, <1>2, <1>3
  <2>2. die < DieCount
    BY <1>1, <1>2, <1>3, <2>1, LayoutAssumption
  <2>3. QED BY <1>3, <2>1, <2>2, LayoutAssumption
<1> HIDE DEF die, rest
<1>5. plane \in Int /\ block \in 0 .. BlocksPerPlane - 1 /\ rest = BlocksPerPlane * plane + block
  BY <1>3, LayoutAssumption
<1>6. plane \in 0 .. PlanesPerDie - 1
  <2>1. rest \in Nat /\ rest < PlanesPerDie * BlocksPerPlane
    BY <1>1, <1>3 DEF stride
  <2>2. plane >= 0
    BY <1>5, <2>1, LayoutAssumption
  <2>3. plane < PlanesPerDie
    BY <1>5, <2>1, <2>2, LayoutAssumption
  <2>4. QED BY <1>5, <2>2, <2>3, LayoutAssumption
<1> HIDE DEF plane, block
<1>7. die * PlanesPerDie * BlocksPerPlane + plane * BlocksPerPlane + block = b
  BY <1>3, <1>4, <1>5, <1>6, LayoutAssumption DEF stride
<1>8. IndexToLocation(b) = [die |-> die, plane |-> plane, block |-> block]
  BY DEF IndexToLocation, die, plane, block, rest, stride
<1>9. QED BY <1>4, <1>5, <1>6, <1>7, <1>8 DEF LocationToIndex
------------------------------------------------------------------------------
Scans   == INSTANCE FoldProofs WITH Op <- ScanStep
Replays == INSTANCE FoldProofs WITH Op <- ReplayStep
Runs    == INSTANCE FoldProofs WITH Op <- RunStep

\* A power loss that no checkpoint operation precedes.
Unguarded(log) ==
  {i \in DOMAIN log : /\ log[i].type = "powerloss"
                      /\ \A j \in DOMAIN log : log[j].type = "checkpoint" => j > i}
First(s) == {i \in s : \A j \in s : i <= j}

\* What the scan of a log has found.
Scanned(log, scan) ==
  /\ scan.at = Len(log)
  /\ scan.last \in {-1} \cup 1 .. Len(log)
  /\ scan.last = -1 <=> \A j \in DOMAIN log : log[j].type # "checkpoint"
  /\ scan.found = 0 <=> Unguarded(log) = {}
  /\ scan.found # 0 => First(Unguarded(log)) = {scan.found}

\* One more element.
LEMMA Appended ==
  ASSUME NEW S, NEW log \in Seq(S), NEW op \in S, NEW more, more = Append(log, op)
  PROVE  /\ more \in Seq(S) /\ Len(log) \in Nat /\ Len(more) = Len(log) + 1
         /\ DOMAIN log = 1 .. Len(log) /\ DOMAIN more = 1 .. Len(log) + 1
         /\ more[Len(log) + 1] = op
         /\ \A i \in DOMAIN log : more[i] = log[i]
  OBVIOUS

\* The scan of a log is the fold of its step.
LEMMA ScanFolded ==
  ASSUME NEW log
  PROVE  Scan(log) = Scans!Folded([at |-> 0, last |-> -1, found |-> 0], log)
  BY DEF Scan, Scans!Folded, FoldLeft, Scans!FoldLeft, MapThenFoldSet, Scans!MapThenFoldSet,
     Max, Scans!Max

\* One more operation scanned, what has been found stays true.
LEMMA ScanStepScans ==
  ASSUME NEW S, NEW log \in Seq(S), NEW op \in S, NEW scan, Scanned(log, scan)
  PROVE  Scanned(Append(log, op), ScanStep(scan, op))
PROOF
<1>1. PICK more, n, next : more = Append(log, op) /\ n = Len(log) /\ next = ScanStep(scan, op)
  OBVIOUS
<1>2. /\ n \in Nat /\ Len(more) = n + 1 /\ DOMAIN log = 1 .. n /\ DOMAIN more = 1 .. n + 1
      /\ more[n + 1] = op /\ \A i \in 1 .. n : more[i] = log[i]
  BY <1>1, Appended
<1>3. /\ next.at = n + 1
      /\ next.last = IF op.type = "checkpoint" THEN n + 1 ELSE scan.last
      /\ next.found = IF scan.found = 0 /\ op.type = "powerloss" /\ next.last < 0 THEN n + 1
                      ELSE scan.found
  BY <1>1 DEF Scanned, ScanStep
<1>4. next.last \in {-1} \cup 1 .. n + 1
  BY <1>1, <1>2, <1>3 DEF Scanned
<1>5. next.last = -1 <=> \A j \in DOMAIN more : more[j].type # "checkpoint"
  BY <1>1, <1>2, <1>3 DEF Scanned
<1>6. Unguarded(more) = Unguarded(log) \cup (IF op.type = "powerloss" /\ next.last = -1 THEN {n + 1} ELSE {})
  BY <1>2, <1>5 DEF Unguarded
<1>7. Unguarded(log) \subseteq 1 .. n
  BY <1>2 DEF Unguarded
<1>8. CASE scan.found # 0
  <2>1. next.found = scan.found
    BY <1>3, <1>8
  <2>2. First(Unguarded(log)) = {scan.found} /\ Unguarded(log) # {}
    BY <1>8 DEF Scanned
  <2>3. First(Unguarded(more)) = First(Unguarded(log))
    <3>1. PICK f \in Unguarded(log) : \A j \in Unguarded(log) : f <= j
      BY <2>2 DEF First
    <3>2. QED BY <1>2, <1>6, <1>7, <3>1 DEF First
  <2>4. QED BY <1>1, <1>2, <1>3, <1>4, <1>5, <1>6, <1>8, <2>1, <2>2, <2>3 DEF Scanned
<1>9. CASE scan.found = 0
  <2>1. Unguarded(log) = {}
    BY <1>9 DEF Scanned
  <2>2. next.last < 0 <=> next.last = -1
    BY <1>2, <1>4
  <2>3. Unguarded(more) = IF next.found = 0 THEN {} ELSE {n + 1}
    BY <1>2, <1>3, <1>6, <1>9, <2>1, <2>2
  <2>4. next.found # 0 => next.found = n + 1
    BY <1>3, <1>9
  <2>5. First({n + 1}) = {n + 1}
    BY <1>2 DEF First
  <2>6. QED BY <1>1, <1>2, <1>3, <1>4, <1>5, <2>3, <2>4, <2>5 DEF Scanned
<1>10. QED BY <1>8, <1>9

\* The scan of a whole log.
LEMMA ScanIs ==
  ASSUME NEW S, NEW log \in Seq(S)
  PROVE  Scanned(log, Scan(log))
PROOF
<1> DEFINE T == {l \in Seq(S) : Scanned(l, Scan(l))}
<1>1. << >> \in T
  <2>1. Scan(<< >>) = [at |-> 0, last |-> -1, found |-> 0]
    BY ScanFolded, Scans!FoldEmpty
  <2>2. Unguarded(<< >>) = {}
    BY DEF Unguarded
  <2>3. QED BY <2>1, <2>2 DEF Scanned
<1>2. ASSUME NEW l \in Seq(S), NEW op \in S, l \in T
      PROVE  Append(l, op) \in T
  <2>1. Scan(Append(l, op)) = ScanStep(Scan(l), op)
    BY ScanFolded, Scans!FoldAppend
  <2>2. Append(l, op) \in Seq(S)
    OBVIOUS
  <2>3. QED BY <1>2, <2>1, <2>2, ScanStepScans
<1>3. Seq(S) \subseteq T
  <2> HIDE DEF T
  <2>1. QED BY <1>1, <1>2, Scans!SequenceInduction
<1>4. QED BY <1>3
\* A log with such a power loss has a first one.
LEMMA FirstExists ==
  ASSUME NEW S, NEW log \in Seq(S), First(Unguarded(log)) = {}
  PROVE  Unguarded(log) = {}
PROOF
<1>1. PICK scan : scan = Scan(log) /\ Scanned(log, scan)
  BY ScanIs
<1>2. QED BY <1>1 DEF Scanned

\* A cursor past the log is all Validate reports; otherwise it is the first power
\* loss no checkpoint operation precedes.
LEMMA ValidateIs ==
  ASSUME NEW S, NEW log \in Seq(S), NEW cursors
  PROVE  LET dangling == {c \in cursors : c > Len(log)}
         IN  Validate(log, cursors) = IF dangling # {} THEN dangling ELSE First(Unguarded(log))
PROOF
<1>1. PICK scan : scan = Scan(log) /\ Scanned(log, scan)
  BY ScanIs
<1>2. {scan.found} \ {0} = First(Unguarded(log))
  BY <1>1 DEF Scanned, First
<1>3. QED BY <1>1, <1>2 DEF Validate

\* When every recorded cursor lies in the log, Validate passes the log just in case
\* a checkpoint operation comes before each power loss, and otherwise names the
\* first power loss that has none.  The cursors themselves make no difference: a
\* recorded checkpoint guards nothing (validator.go:26-47).
THEOREM ValidateExact ==
  ASSUME NEW S, NEW log \in Seq(S), NEW cursors, \A c \in cursors : ~(c > Len(log))
  PROVE  LET Guarded(i) == \E j \in 1 .. i - 1 : log[j].type = "checkpoint"
             Passes(i)  == log[i].type = "powerloss" => Guarded(i)
         IN  /\ Validate(log, cursors) = {} <=> \A i \in DOMAIN log : Passes(i)
             /\ \A i \in Validate(log, cursors) :
                  i \in DOMAIN log /\ ~Passes(i) /\ \A j \in 1 .. i - 1 : Passes(j)
             /\ Validate(log, cursors) = Validate(log, {})
PROOF
<1> DEFINE Guarded(i) == \E j \in 1 .. i - 1 : log[j].type = "checkpoint"
           Passes(i)  == log[i].type = "powerloss" => Guarded(i)
<1>1. PICK n : n = Len(log) /\ n \in Nat /\ DOMAIN log = 1 .. n
  BY LenProperties
<1>2. {c \in cursors : c > Len(log)} = {}
  OBVIOUS
<1>3. {c \in {} : c > Len(log)} = {}
  OBVIOUS
<1>4. PICK first : /\ first = First(Unguarded(log))
                   /\ first = Validate(log, cursors) /\ first = Validate(log, {})
  BY <1>2, <1>3, ValidateIs
<1>5. \A i \in DOMAIN log : i \in Unguarded(log) <=> ~Passes(i)
  BY <1>1 DEF Unguarded
<1>6. Unguarded(log) \subseteq DOMAIN log
  BY DEF Unguarded
<1>7. first = {} <=> Unguarded(log) = {}
  BY <1>4, FirstExists DEF First
<1> HIDE DEF Passes
<1>8. first = {} <=> \A i \in DOMAIN log : Passes(i)
  BY <1>5, <1>6, <1>7
<1>9. ASSUME NEW i \in first
      PROVE  i \in DOMAIN log /\ ~Passes(i) /\ \A j \in 1 .. i - 1 : Passes(j)
  <2>1. i \in Unguarded(log) /\ \A j \in Unguarded(log) : i <= j
    BY <1>4 DEF First
  <2>2. i \in 1 .. n /\ ~Passes(i)
    BY <1>1, <1>5, <1>6, <2>1
  <2>3. ASSUME NEW j \in 1 .. i - 1 PROVE Passes(j)
    <3>1. j \in 1 .. n /\ ~(i <= j)
      BY <1>1, <2>2
    <3>2. QED BY <1>1, <1>5, <2>1, <3>1
  <2>4. QED BY <1>1, <2>2, <2>3
<1>10. QED BY <1>4, <1>8, <1>9 DEF Passes
-----------------------------------------------------------------------------
\* The maximum is what it is called.
LEMMA MaxIs ==
  ASSUME NEW s, NEW n \in s, \A x \in s : x \in Int /\ x <= n
  PROVE  Max(s) = n
PROOF
<1>1. Scans!Max(s) = n
  BY Scans!MaxIs
<1>2. QED BY <1>1 DEF Max, Scans!Max

\* The run resumes at the highest cursor, or from the beginning.
LEMMA ResumesThere ==
  ASSUME NEW n \in Nat, NEW cursors, cursors \subseteq 1 .. n
  PROVE  /\ ResumeAt(cursors) \in 0 .. n
         /\ ResumeAt(cursors) \in {0} \cup cursors
         /\ \A c \in cursors : c <= ResumeAt(cursors)
PROOF
<1>1. CASE cursors # {}
  <2>1. /\ Scans!Max(cursors) \in cursors
        /\ \A c \in cursors : c <= Scans!Max(cursors)
    BY <1>1, Scans!HasMax
  <2>2. ResumeAt(cursors) = Scans!Max(cursors)
    BY <1>1 DEF ResumeAt, Max, Scans!Max
  <2>3. Scans!Max(cursors) \in 1 .. n
    BY <2>1
  <2>4. QED BY <2>1, <2>2, <2>3
<1>2. CASE cursors = {}
  BY <1>2 DEF ResumeAt
<1>3. QED BY <1>1, <1>2

\* A block's row after one more cycle.
LEMMA CycledType ==
  ASSUME NEW row \in BlockRow
  PROVE  Cycled(row) \in BlockRow
PROOF
<1>1. row.erase + 1 \in Nat /\ row.status \in BlockStatus /\ "bad" \in BlockStatus
  BY DEF BlockRow, BlockStatus
<1>2. QED BY <1>1 DEF Cycled, BlockRow

\* The run of the simulator is the fold of its step.
Booted(rows) == [eng |-> Boot(rows), stop |-> "ok", done |-> 0]
\* Cut of the log before start, it folds the rest.
LEMMA RunFolded ==
  ASSUME NEW log, NEW start, NEW rows
  PROVE  Run(log, start, rows) = Runs!Folded(Booted(rows), SubSeq(log, start + 1, Len(log)))
  BY DEF Run, Booted, Runs!Folded, FoldLeft, Runs!FoldLeft, MapThenFoldSet, Runs!MapThenFoldSet,
     Max, Runs!Max

\* A run has applied all operations or was stopped at one of them.
Ran(log, run) ==
  /\ run = [eng |-> run.eng, stop |-> run.stop, done |-> run.done]
  /\ run.done \in 0 .. Len(log)
  /\ run.stop # "ok" => run.done < Len(log)
  /\ run.stop = "ok" => run.done = Len(log)

\* Whatever the operations are, by induction over the log.
LEMMA RunCounts ==
  ASSUME NEW S, NEW log \in Seq(S), NEW rows
  PROVE  Ran(log, Runs!Folded(Booted(rows), log))
PROOF
<1> DEFINE R(l) == Runs!Folded(Booted(rows), l)
           T    == {l \in Seq(S) : Ran(l, R(l))}
<1>1. << >> \in T
  BY Runs!FoldEmpty DEF Booted, Ran
<1>2. ASSUME NEW l \in Seq(S), NEW op \in S, l \in T
      PROVE  Append(l, op) \in T
  <2>1. R(Append(l, op)) = RunStep(R(l), op)
    BY Runs!FoldAppend
  <2>2. PICK more, n, run, next :
          more = Append(l, op) /\ n = Len(l) /\ run = R(l) /\ next = RunStep(run, op)
    OBVIOUS
  <2>3. more \in Seq(S) /\ n \in Nat /\ Len(more) = n + 1
    BY <2>2, Appended
  <2>4. Ran(l, run)
    BY <1>2, <2>2
  <2>5. \/ next = run /\ run.stop # "ok"
        \/ run.stop = "ok" /\ next.stop = "ok" /\ next.done = run.done + 1
        \/ run.stop = "ok" /\ next.stop # "ok" /\ next.done = run.done
    BY <2>2, <2>4 DEF RunStep, Ran
  <2>6. next = [eng |-> next.eng, stop |-> next.stop, done |-> next.done]
    BY <2>2, <2>4 DEF RunStep, Ran
  <2>7. Ran(more, next)
    BY <2>2, <2>3, <2>4, <2>5, <2>6 DEF Ran
  <2>8. QED BY <2>1, <2>2, <2>3, <2>7
<1>3. Seq(S) \subseteq T
  <2> HIDE DEF T
  <2>1. QED BY <1>1, <1>2, Runs!SequenceInduction
<1>4. QED BY <1>3

\* What an outcome refers to lies in the log: the number of operations that were
\* applied and the step of the violation.  A log refused for recovery is refused
\* for its first power loss without a checkpoint, a publishable one has none.
THEOREM OutcomeInLog ==
  ASSUME NEW S, NEW log \in Seq(S), NEW m \in Nat, NEW cursors, cursors \subseteq 1 .. m, NEW rows,
         NEW end, end = Outcome(log, cursors, rows)
  PROVE  /\ end.status \in {"error", "budget_exceeded", "recovery_incomplete", "publishable"}
         /\ end.status # "error" => end.cursor \in 0 .. Len(log) /\ end.step \in 0 .. Len(log)
         /\ end.status = "recovery_incomplete" => First(Unguarded(log)) = {end.step}
         /\ end.status = "publishable" => Unguarded(log) = {}
PROOF
<1>1. PICK n, start, run, late :
        /\ n = Len(log) /\ start = ResumeAt(cursors) /\ run = Run(log, start, rows)
        /\ late = Validate(log, cursors)
  OBVIOUS
<1>2. n \in Nat /\ DOMAIN log = 1 .. n /\ \A c \in cursors : c \in 1 .. m
  BY <1>1, LenProperties
<1>3. /\ start \in 0 .. m
      /\ \A c \in cursors : c <= start
  BY <1>1, <1>2, ResumesThere
<1>4. CASE start > n
  <2>1. end.status = "error"
    BY <1>1, <1>4 DEF Outcome
  <2>2. QED BY <1>1, <2>1
<1>5. CASE start <= n
  <2>1. start \in 0 .. n
    BY <1>2, <1>3, <1>5
  <2>2. SubSeq(log, start + 1, n) \in Seq(S) /\ Len(SubSeq(log, start + 1, n)) = n - start
    BY <1>1, <1>2, <2>1
  <2>3. Ran(SubSeq(log, start + 1, n), run)
    BY <1>1, <2>2, RunFolded, RunCounts
  <2>4. /\ run.done \in 0 .. n /\ start + run.done <= n
        /\ run.stop # "ok" => start + run.done + 1 <= n
    BY <1>2, <2>1, <2>2, <2>3 DEF Ran
  <2>5. late = First(Unguarded(log))
    <3>1. \A c \in cursors : ~(c > n)
      BY <1>2, <1>3, <1>5
    <3>2. {c \in cursors : c > Len(log)} = {}
      BY <1>1, <3>1
    <3>3. QED BY <1>1, <3>2, ValidateIs
  <2>6. ASSUME late # {}
        PROVE  late = {Max(late)} /\ Max(late) \in 1 .. n
    <3>1. PICK f \in late : TRUE
      BY <2>6
    <3>2. late = {f} /\ f \in 1 .. n
      BY <1>2, <2>5, <3>1 DEF First, Unguarded
    <3>3. \A x \in late : x \in Int /\ x <= f
      BY <3>2
    <3>4. Max(late) = f
      BY <3>1, <3>3, MaxIs
    <3>5. QED BY <3>2, <3>4
  <2>7. Unguarded(log) # {} => late # {}
    BY <2>5, FirstExists
  <2>8. \/ end.status = "error"
        \/ /\ end.status = "budget_exceeded" /\ end.cursor = run.done
           /\ end.step = start + run.done + 1 /\ run.stop # "ok"
        \/ /\ end.status = "recovery_incomplete" /\ end.cursor = run.done
           /\ end.step = Max(late) /\ late # {}
        \/ end.status = "budget_exceeded" /\ end.cursor = run.done /\ end.step = run.done
        \/ end.status = "publishable" /\ end.cursor = run.done /\ end.step = 0 /\ late = {}
    BY <1>1 DEF Outcome
  <2>9. QED BY <1>1, <1>2, <2>1, <2>4, <2>5, <2>6, <2>7, <2>8
<1>6. QED BY <1>2, <1>3, <1>4, <1>5

-----------------------------------------------------------------------------
\* The last checkpoint operation, if there is one.
LEMMA LastCheckpointIs ==
  ASSUME NEW S, NEW log \in Seq(S)
  PROVE  LET last == LastCheckpoint(log) IN
         /\ last \in 0 .. Len(log)
         /\ last # 0 => log[last].type = "checkpoint"
         /\ \A i \in DOMAIN log : log[i].type = "checkpoint" => i <= last
PROOF
<1>1. PICK n, marks : /\ n = Len(log) /\ marks = {i \in 1 .. n : log[i].type = "checkpoint"}
  OBVIOUS
<1>2. n \in Nat /\ DOMAIN log = 1 .. n
  BY <1>1, LenProperties
<1>3. LastCheckpoint(log) = IF marks # {} THEN Max(marks) ELSE 0
  BY <1>1 DEF LastCheckpoint, SelectLastInSeq
<1>4. CASE marks # {}
  <2>1. marks \in SUBSET (1 .. n)
    BY <1>1
  <2>2. Max(marks) \in marks /\ \A i \in marks : i <= Max(marks)
    BY <1>2, <1>4, <2>1, Scans!HasMax DEF Max, Scans!Max
  <2>3. QED BY <1>1, <1>2, <1>3, <1>4, <2>2
<1>5. CASE marks = {}
  BY <1>1, <1>2, <1>3, <1>5
<1>6. QED BY <1>4, <1>5

\* A replay is the fold of its step.
ReplayStart == [replayed |-> 0, lost |-> FALSE]
\* Of the log after from.
LEMMA ReplayFolded ==
  ASSUME NEW log, NEW from
  PROVE  Replay(log, from) = Replays!Folded(ReplayStart, SubSeq(log, from + 1, Len(log))).replayed
  BY DEF Replay, ReplayStart, Replays!Folded, FoldLeft, Replays!FoldLeft, MapThenFoldSet,
     Replays!MapThenFoldSet, Max, Replays!Max

\* It has gone through the log or stopped before a power loss.
Replayed(log, run) ==
  /\ run = [replayed |-> run.replayed, lost |-> run.lost]
  /\ run.replayed \in 0 .. Len(log)
  /\ \A i \in 1 .. run.replayed : log[i].type # "powerloss"
  /\ IF run.lost THEN run.replayed < Len(log) /\ log[run.replayed + 1].type = "powerloss"
     ELSE run.replayed = Len(log)

\* Whatever the log is.
LEMMA ReplayIs ==
  ASSUME NEW S, NEW log \in Seq(S)
  PROVE  Replayed(log, Replays!Folded(ReplayStart, log))
PROOF
<1> DEFINE R(l) == Replays!Folded(ReplayStart, l)
           T    == {l \in Seq(S) : Replayed(l, R(l))}
<1>1. << >> \in T
  BY Replays!FoldEmpty DEF ReplayStart, Replayed
<1>2. ASSUME NEW l \in Seq(S), NEW op \in S, l \in T
      PROVE  Append(l, op) \in T
  <2>1. R(Append(l, op)) = ReplayStep(R(l), op)
    BY Replays!FoldAppend
  <2>2. PICK more, n, run, next :
          more = Append(l, op) /\ n = Len(l) /\ run = R(l) /\ next = ReplayStep(run, op)
    OBVIOUS
  <2>3. /\ more \in Seq(S) /\ n \in Nat /\ Len(more) = n + 1 /\ DOMAIN l = 1 .. n
        /\ more[n + 1] = op /\ \A i \in 1 .. n : more[i] = l[i]
    BY <2>2, Appended
  <2>4. Replayed(l, run)
    BY <1>2, <2>2
  <2>5. Replayed(more, next)
    <3>1. CASE run.lost
      <4>1. next = run
        BY <2>2, <2>4, <3>1 DEF Replayed, ReplayStep
      <4>2. QED BY <2>2, <2>3, <2>4, <3>1, <4>1 DEF Replayed
    <3>2. CASE ~run.lost /\ op.type = "powerloss"
      <4>1. next = [replayed |-> n, lost |-> TRUE]
        BY <2>2, <2>4, <3>2 DEF Replayed, ReplayStep
      <4>2. QED BY <2>2, <2>3, <2>4, <3>2, <4>1 DEF Replayed
    <3>3. CASE ~run.lost /\ op.type # "powerloss"
      <4>1. next = [replayed |-> n + 1, lost |-> run.lost]
        BY <2>2, <2>4, <3>3 DEF Replayed, ReplayStep
      <4>2. QED BY <2>2, <2>3, <2>4, <3>3, <4>1 DEF Replayed
    <3>4. QED BY <3>1, <3>2, <3>3
  <2>6. QED BY <2>1, <2>2, <2>3, <2>5
<1>3. Seq(S) \subseteq T
  <2> HIDE DEF T
  <2>1. QED BY <1>1, <1>2, Replays!SequenceInduction
<1>4. QED BY <1>3

\* A log that loses power only after checkpoints is recoverable, and the replay
\* of a recoverable log runs from its last checkpoint operation to the next power
\* loss or to its end.
THEOREM RecoveryIs ==
  ASSUME NEW S, NEW log \in Seq(S)
  PROVE  /\ Unguarded(log) = {} /\ (\E i \in DOMAIN log : log[i].type = "powerloss") => Recoverable(log)
         /\ Recoverable(log) =>
              LET from == LastCheckpoint(log)
                  end  == from + Replay(log, from)
              IN  /\ from \in 1 .. Len(log) /\ Replay(log, from) \in Nat /\ end <= Len(log)
                  /\ \A i \in from + 1 .. end : log[i].type \notin Marker
                  /\ end < Len(log) => log[end + 1].type = "powerloss"
PROOF
<1>1. PICK n, from : n = Len(log) /\ from = LastCheckpoint(log)
  OBVIOUS
<1>2. n \in Nat /\ DOMAIN log = 1 .. n
  BY <1>1, LenProperties
<1>3. /\ from \in 0 .. n
      /\ \A i \in DOMAIN log : log[i].type = "checkpoint" => i <= from
  BY <1>1, LastCheckpointIs
<1>4. ASSUME Unguarded(log) = {}, NEW i \in DOMAIN log, log[i].type = "powerloss"
      PROVE  Recoverable(log)
  <2>1. PICK j \in DOMAIN log : log[j].type = "checkpoint"
    BY <1>4 DEF Unguarded
  <2>2. QED BY <1>1, <1>2, <1>3, <2>1 DEF Recoverable
<1>5. ASSUME Recoverable(log)
      PROVE  LET end == from + Replay(log, from)
             IN  /\ from \in 1 .. n /\ Replay(log, from) \in Nat /\ end <= n
                 /\ \A i \in from + 1 .. end : log[i].type \notin Marker
                 /\ end < n => log[end + 1].type = "powerloss"
  <2>1. PICK rest, run : rest = SubSeq(log, from + 1, n) /\ run = Replays!Folded(ReplayStart, rest)
    OBVIOUS
  <2>2. /\ rest \in Seq(S) /\ Len(rest) = n - from
        /\ \A i \in 1 .. n - from : rest[i] = log[from + i]
    BY <1>1, <1>2, <1>3, <2>1
  <2>3. Replay(log, from) = run.replayed
    BY <1>1, <2>1, ReplayFolded
  <2>4. Replayed(rest, run)
    BY <2>1, <2>2, ReplayIs
  <2>5. from \in 1 .. n
    BY <1>1, <1>3, <1>5 DEF Recoverable
  <2>6. run.replayed \in 0 .. n - from
    BY <2>2, <2>4 DEF Replayed
  <2>7. ASSUME NEW i \in from + 1 .. from + run.replayed
        PROVE  log[i].type \notin Marker
    <3>1. i - from \in 1 .. run.replayed /\ i - from \in 1 .. n - from /\ from + (i - from) = i
      BY <1>2, <2>5, <2>6
    <3>2. log[i].type # "powerloss"
      BY <2>2, <2>4, <3>1 DEF Replayed
    <3>3. i \in DOMAIN log /\ i > from
      BY <1>2, <1>3, <2>6
    <3>4. log[i].type # "checkpoint"
      BY <1>2, <1>3, <3>3
    <3>5. QED BY <3>2, <3>4 DEF Marker
  <2>8. from + run.replayed < n => log[from + run.replayed + 1].type = "powerloss"
    <3>1. ASSUME from + run.replayed < n PROVE log[from + run.replayed + 1].type = "powerloss"
      <4>1. /\ run.replayed + 1 \in 1 .. n - from
            /\ from + (run.replayed + 1) = from + run.replayed + 1
            /\ run.replayed # n - from
        BY <1>2, <2>5, <2>6, <3>1
      <4>2. rest[run.replayed + 1].type = "powerloss"
        BY <2>2, <2>4, <4>1 DEF Replayed
      <4>3. QED BY <2>2, <4>1, <4>2
    <3>2. QED BY <3>1
  <2>9. QED BY <1>2, <2>3, <2>5, <2>6, <2>7, <2>8
<1>6. QED BY <1>1, <1>4, <1>5
------------------------------------------------------------------------------
\* The sums the model takes are those of the module of folds, and their rules.
LEMMA SumIs ==
  ASSUME NEW fun, NEW S
  PROVE  /\ SumFunctionOnSet(fun, S) = Runs!SumOf(fun, S)
         /\ Runs!IsFiniteSet(S) <=> IsFiniteSet(S)
         /\ Runs!Cardinality(S) = Cardinality(S)
PROOF
<1>1. SumFunctionOnSet(fun, S) = Runs!SumOf(fun, S)
  BY DEF SumFunctionOnSet, FoldFunctionOnSet, MapThenFoldSet, Runs!SumOf, Runs!SumFunctionOnSet,
     Runs!FoldFunctionOnSet, Runs!MapThenFoldSet
<1>2. Runs!IsFiniteSet(S) <=> IsFiniteSet(S)
  BY DEF Runs!IsFiniteSet, IsFiniteSet
<1>3. Runs!Cardinality(S) = Cardinality(S)
  BY DEF Runs!Cardinality, Cardinality
<1>4. QED BY <1>1, <1>2, <1>3

\* A sum of numbers between lo and hi.
LEMMA SumWithin ==
  ASSUME NEW S, IsFiniteSet(S), NEW fun, NEW lo \in Int, NEW hi \in Int,
         \A s \in S : fun[s] \in lo .. hi
  PROVE  SumFunctionOnSet(fun, S) \in lo * Cardinality(S) .. hi * Cardinality(S)
  BY SumIs, Runs!SumBounds

\* A sum of integers.
LEMMA SumInteger ==
  ASSUME NEW S, IsFiniteSet(S), NEW fun, \A s \in S : fun[s] \in Int
  PROVE  SumFunctionOnSet(fun, S) \in Int
  BY SumIs, Runs!SumType

\* A sum of zeros, or of nothing.
LEMMA SumNothing ==
  ASSUME NEW S, IsFiniteSet(S), NEW fun, \A s \in S : fun[s] = 0
  PROVE  SumFunctionOnSet(fun, S) = 0
  BY SumIs, Runs!SumZero

\* A sum with one more summand.
LEMMA SumMore ==
  ASSUME NEW S, IsFiniteSet(S), NEW fun, \A s \in S : fun[s] \in Int,
         NEW x, x \notin S, fun[x] \in Int
  PROVE  SumFunctionOnSet(fun, S \cup {x}) = SumFunctionOnSet(fun, S) + fun[x]
  BY SumIs, Runs!SumAdd

\* Two functions with the same values.
LEMMA SumAlike ==
  ASSUME NEW S, IsFiniteSet(S), NEW fun, NEW gun, \A s \in S : fun[s] = gun[s]
  PROVE  SumFunctionOnSet(fun, S) = SumFunctionOnSet(gun, S)
  BY SumIs, Runs!SumSame

\* What Max and Min name in a set of natural numbers with a bound.
LEMMA Extremes ==
  ASSUME NEW N \in Nat, NEW S, S \subseteq 0 .. N, S # {}
  PROVE  /\ Max(S) \in S /\ \A s \in S : s <= Max(S)
         /\ Min(S) \in S /\ \A s \in S : Min(S) <= s
PROOF
<1> DEFINE High(m) == m \in S /\ \A s \in S : m >= s
           Low(m)  == m \in S /\ \A s \in S : m <= s
           Left    == {N - s : s \in S}
<1>1. \E m : Low(m)
  <2>1. S \subseteq Nat
    OBVIOUS
  <2>2. QED BY <2>1, Runs!Smallest
<1>2. PICK n \in Left : \A s \in Left : n <= s
  <2>1. \A s \in S : N - s \in Nat
    OBVIOUS
  <2>3. Left \subseteq Nat
    BY <2>1
  <2>4. Left # {}
    OBVIOUS
  <2> HIDE DEF Left
  <2>5. QED BY <2>3, <2>4, Runs!Smallest
<1>3. \E m : High(m)
  <2>1. PICK m \in S : n = N - m
    BY <1>2
  <2>2. \A s \in S : n <= N - s
    BY <1>2
  <2>3. QED BY <2>1, <2>2
<1>4. High(Max(S))
  <2>1. Max(S) = CHOOSE m : High(m)
    BY DEF Max
  <2> HIDE DEF High
  <2>2. QED BY <1>3, <2>1, Zenon
<1>5. Low(Min(S))
  <2>1. Min(S) = CHOOSE m : Low(m)
    BY DEF Min
  <2> HIDE DEF Low
  <2>2. QED BY <1>1, <2>1, Zenon
<1>6. QED BY <1>4, <1>5

\* Balance of a block table whose blocks in use are below their budget.
LEMMA BalanceIs ==
  ASSUME NEW rows \in [Block -> BlockRow],
         \A b \in Block : Judged(rows[b]) => rows[b].erase \in 0 .. MaxEraseCycles - 1,
         NEW balance, balance = Balance(rows)
  PROVE  /\ HotBlocks(rows) # {} <=> balance.ok /\ balance.max >= HotBlockPct
         /\ balance.min <= balance.avg /\ balance.avg <= balance.max /\ balance.max < 100
PROOF
<1>1. PICK blocks, pct, pcts, n, sum :
        /\ blocks = {b \in Block : Judged(rows[b])}
        /\ pct = [b \in Block |-> WearPct(rows[b])] /\ pcts = {WearPct(rows[b]) : b \in blocks}
        /\ n = Cardinality(blocks) /\ sum = SumFunctionOnSet(pct, blocks)
  OBVIOUS
<1>2. ASSUME NEW b \in blocks PROVE WearPct(rows[b]) \in 0 .. 99 /\ pct[b] = WearPct(rows[b])
  <2>1. b \in Block /\ rows[b].erase \in 0 .. MaxEraseCycles - 1
    BY <1>1
  <2>2. PICK e \in 0 .. MaxEraseCycles - 1 : e = rows[b].erase
    BY <2>1
  <2>3. (e * 100) \div MaxEraseCycles \in 0 .. 99
    BY EngineAssumption
  <2>4. QED BY <1>1, <2>1, <2>2, <2>3 DEF WearPct
<1>3. CASE blocks = {}
  <2>1. balance = [ok |-> FALSE, max |-> 0, min |-> 0, avg |-> 0]
    BY <1>1, <1>3 DEF Balance
  <2>2. HotBlocks(rows) = {}
    BY <1>1, <1>3 DEF HotBlocks
  <2>3. QED BY <2>1, <2>2
<1>4. CASE blocks # {}
  <2>1. balance = [ok |-> TRUE, max |-> Max(pcts), min |-> Min(pcts), avg |-> sum \div n]
    BY <1>1, <1>4 DEF Balance
  <2>2. pcts \subseteq 0 .. 99 /\ pcts # {}
    BY <1>1, <1>2, <1>4
  <2>3. PICK hi, lo : hi = Max(pcts) /\ lo = Min(pcts)
    OBVIOUS
  <2>4. hi \in pcts /\ lo \in pcts /\ \A p \in pcts : lo <= p /\ p <= hi
    BY <2>2, <2>3, Extremes
  <2>5. hi \in 0 .. 99 /\ lo \in 0 .. 99
    BY <2>2, <2>4
  <2>6. IsFiniteSet(blocks) /\ n \in Nat \ {0}
    <3>1. IsFiniteSet(Block)
      BY CapacityPositive, FS_Interval DEF Block
    <3>2. IsFiniteSet(blocks)
      BY <1>1, <3>1, FS_Subset
    <3>3. n \in Nat /\ n # 0
      BY <1>1, <1>4, <3>2, FS_CardinalityType, FS_EmptySet
    <3>4. QED BY <3>2, <3>3
  <2>7. \A b \in blocks : pct[b] \in lo .. hi
    BY <1>1, <1>2, <2>4, <2>5
  <2>8. lo \in Int /\ hi \in Int
    BY <2>5
  <2>9. sum \in lo * n .. hi * n
    BY <1>1, <2>6, <2>7, <2>8, SumWithin
  <2>10. sum \div n \in lo .. hi
    <3>1. sum \in Int /\ lo * n <= sum /\ sum <= hi * n
      BY <2>5, <2>6, <2>9
    <3>2. QED BY <2>5, <2>6, <3>1
  <2>11. HotBlocks(rows) # {} <=> hi >= HotBlockPct
    <3>1. HotBlocks(rows) = {b \in blocks : WearPct(rows[b]) >= HotBlockPct}
      BY <1>1 DEF HotBlocks
    <3>2. \A b \in blocks : WearPct(rows[b]) <= hi
      BY <1>1, <2>4
    <3>3. \E b \in blocks : WearPct(rows[b]) = hi
      BY <1>1, <2>4
    <3>4. QED BY <1>2, <2>5, <3>1, <3>2, <3>3, BudgetAssumption
  <2>12. QED BY <2>1, <2>3, <2>5, <2>10, <2>11
<1>5. QED BY <1>3, <1>4
==============================================================================
