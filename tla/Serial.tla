-------------------------------- MODULE Serial --------------------------------
(***************************************************************************)
(* What the service guarantees when it serves one request after another:   *)
(* a single worker and, but for CertsStand, no failing statement.  Each of *)
(* these fails as soon as two requests overlap (Claims.tla); here they     *)
(* follow from the handlers' own checks.                                   *)
(***************************************************************************)
EXTENDS NvWear

Quiet == \A w \in Worker : At(w, "idle")

\* A verdict speaks of the whole log: between requests every plan that is no
\* longer edited has the status, cursor and violation step a run over its
\* complete log gives, started from the beginning or from one of its
\* checkpoints, and the plan has that run's wear curve if the run came to its end
\* (plan_service.go Simulate; AppendOps refuses a plan that was judged).
VerdictCoversLog ==
  Quiet => \A p \in DOMAIN plans : plans[p].status # "editing" =>
    \E start \in {{}} \cup {{c} : c \in checkpoints[p]} :
      LET end == Outcome(List(p), start, blocks) IN
      /\ plans[p].cursor = end.cursor /\ plans[p].step = end.step
      /\ IF plans[p].status = "published" THEN end.status = "publishable"
         ELSE end.status = plans[p].status
      /\ \A curve \in end.saved : wear[p] = curve

\* A plan is certified once: publishing it takes it out of the state Issue asks
\* for (cert_service.go:29-50).
OneCertPerPlan == \A c, d \in DOMAIN certs : certs[c].plan = certs[d].plan => c = d

\* Between requests a certified plan is published and the certificate carries
\* the plan's hash: nothing changes a plan under its certificate.
CertMatchesPlan ==
  Quiet => \A c \in DOMAIN certs :
    /\ plans[certs[c].plan].status = "published"
    /\ plans[certs[c].plan].hash = certs[c].hash

\* Even if requests stop half way, what a certificate names stays as it is: its
\* plan is publishable or published and has the hash the certificate carries.  A
\* plan whose Issue was cut off before its last update may be certified a second
\* time, but only for the same operations (cert_service.go:29-50).
CertsStand ==
  \A c \in DOMAIN certs :
    LET p == certs[c].plan IN
    /\ Exists(p) /\ plans[p].status \in {"publishable", "published"}
    /\ plans[p].hash = certs[c].hash

\* What Collect answers adds up and is what the tables hold: no more certificates
\* than plans that passed, no more revocations than certificates, no plan counted
\* under two outcomes, and the erases are those of the wear curves alone, for a
\* block row never has any (stats_service.go:37-86).
StatsAddUp ==
  \A w \in Worker : At(w, "stats_answer") =>
    LET s == req[w].stats IN
    /\ s.revoked <= s.issued /\ s.issued <= s.publishable
    /\ s.publishable + s.exceeded + s.broken =
         Cardinality({p \in DOMAIN plans : plans[p].status # "editing"})
    /\ s.plans = Len(plans) /\ s.bad = Cardinality({b \in Block : blocks[b].status = "bad"})
    /\ s.erases = SumFunctionOnSet([p \in Plan |-> EraseSum(wear[p])], Plan)

\* Recover never contradicts a verdict that let a power loss pass: it answers
\* that such a plan is recoverable, replaying no more than the steps it counts,
\* from a checkpoint inside the log (plan_service.go:204, 276-308).
PassedIsRecoverable ==
  \A w \in Worker : At(w, "recover_answer") =>
    LET r == req[w] IN
    /\ /\ Exists(r.plan) /\ plans[r.plan].status \in {"publishable", "published"}
       /\ \E i \in DOMAIN r.log : r.log[i] = PowerLoss
       => r.report.recoverable
    /\ r.report.replayed <= r.report.steps /\ r.report.from <= Len(r.log)

\* A published plan is final: no request touches its row, its operations or its
\* wear curve again.
PublishedIsFinal ==
  [][\A p \in DOMAIN plans : plans[p].status = "published" =>
       plans'[p] = plans[p] /\ planOps'[p] = planOps[p] /\ wear'[p] = wear[p]]_vars

\* A certificate changes once, when it is revoked, and keeps the reason it was
\* revoked with (issuer.go Revoke).
CertsRevokedOnce ==
  [][\A c \in DOMAIN certs :
       \/ certs'[c] = certs[c]
       \/ /\ certs[c].status = "published" /\ certs'[c].status = "revoked"
          /\ certs'[c].plan = certs[c].plan /\ certs'[c].hash = certs[c].hash]_vars

\* A frozen configuration stays frozen and its blocks never change
\* (config_service.go MarkBad, Reserve).
FrozenIsFixed == [][cfgStatus = "frozen" => UNCHANGED <<cfgStatus, blocks>>]_vars

\* A block registered bad never comes back into use.
BadStays == [][\A b \in Block : blocks[b].status = "bad" => blocks'[b].status = "bad"]_vars
===============================================================================
