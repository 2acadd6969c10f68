------------------------------ MODULE PlanLedger ------------------------------
(***************************************************************************)
(* What the service promises about plans, whoever interleaves with whom    *)
(* and whatever fails half way: a plan's log only grows, at its end; every *)
(* verdict is the verdict on some prefix of the log with some of the       *)
(* checkpoints recorded; and a plan is certified only if some prefix of    *)
(* its log passed on the frozen blocks.                                    *)
(***************************************************************************)
EXTENDS Integers, Sequences

CONSTANTS Plan, Operation,
          Outcome(_, _, _)  \* the verdict on a log with given checkpoints and blocks

VARIABLES rows,       \* the blocks of the frozen configuration
          log,        \* per plan, the operations in order
          marks,      \* per plan, the cursors of its checkpoints
          verdict,    \* per plan, status, cursor and violation step
          certified   \* the plans a certificate was issued for

lvars == <<rows, log, marks, verdict, certified>>

Judgement(end) == [status |-> end.status, cursor |-> end.cursor, step |-> end.step]
Open           == [status |-> "editing", cursor |-> 0, step |-> 0]

\* The verdicts that can be reached on a prefix of a plan's log with some of its
\* checkpoints.
Reachable(p) ==
  {Outcome(SubSeq(log[p], 1, n), cursors, rows) :
     n \in 0 .. Len(log[p]), cursors \in SUBSET marks[p]}
Passed(p) == \E end \in Reachable(p) : end.status = "publishable"

Grow(p) ==
  /\ UNCHANGED <<rows, marks, verdict, certified>>
  /\ \E op \in Operation : log' = [log EXCEPT ![p] = Append(@, op)]

Mark(p) ==
  /\ UNCHANGED <<rows, log, verdict, certified>>
  /\ \E c \in 1 .. Len(log[p]) : marks' = [marks EXCEPT ![p] = @ \cup {c}]

Judge(p) ==
  /\ verdict[p] # verdict'[p]
  /\ \E end \in Reachable(p) :
       /\ end.status # "error"
       /\ verdict' = [verdict EXCEPT ![p] = Judgement(end)]
  /\ UNCHANGED <<rows, log, marks, certified>>

Reopen(p) ==
  /\ verdict' = [verdict EXCEPT ![p].status = "editing"]
  /\ UNCHANGED <<rows, log, marks, certified>>

Certify(p) ==
  /\ certified # certified' /\ Passed(p)
  /\ certified' = certified \cup {p}
  /\ UNCHANGED <<rows, log, marks, verdict>>

Publish(p) ==
  /\ p \in certified
  /\ verdict' = [verdict EXCEPT ![p].status = "published"]
  /\ UNCHANGED <<rows, log, marks, certified>>

LedgerInit ==
  /\ log = [p \in Plan |-> << >>]
  /\ marks = [p \in Plan |-> {}]
  /\ verdict = [p \in Plan |-> Open]
  /\ certified = {}

LedgerNext ==
  \E p \in Plan : Grow(p) \/ Mark(p) \/ Judge(p) \/ Reopen(p) \/ Certify(p) \/ Publish(p)

LedgerSpec == LedgerInit /\ [][LedgerNext]_lvars
===============================================================================
