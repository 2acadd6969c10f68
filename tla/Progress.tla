------------------------------- MODULE Progress -------------------------------
(***************************************************************************)
(* What the create mutex is for: two creations never collide, and every    *)
(* request comes to an end, whatever is served beside it.                  *)
(***************************************************************************)
EXTENDS NvWear

\* A goroutine that can run its next statement runs it in the end (the database
\* connection is handed to the waiting ones in turn).  The mutex may be taken by
\* others again and again, but Go's sync.Mutex passes it on to a waiter that
\* starves.  Clients need not send anything.
FairSpec ==
  /\ Spec
  /\ \A w \in Worker : WF_vars(Step(w)) /\ SF_vars(CreateLock(w))

\* Every request is answered: whichever way Create returns it gives the mutex
\* back (plan_service.go:42-45), and no handler waits for another.
RequestsFinish == \A w \in Worker : ~At(w, "idle") ~> At(w, "idle")

\* Of two creations with the same operations the later one finds the plan of the
\* earlier: it never gets as far as the unique index and its error, for between
\* the lookup and the insert no other creation runs (plan_service.go:41-68).
\* Operations a client has numbered can still meet the hash an append has written.
CreateNeverCollides ==
  \A w \in Worker : At(w, "create_row") /\ ~req[w].numbered =>
    ~HashTaken(HashOps(req[w].ops, FALSE))
===============================================================================
