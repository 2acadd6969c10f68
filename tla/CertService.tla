----------------------------- MODULE CertService -----------------------------
(***************************************************************************)
(* The handlers of src/internal/service/cert_service.go: Issue and Revoke. *)
(***************************************************************************)
EXTENDS Store

\* Fault: a published plan may be certified again.
IssueGetAgain(w, p) ==
  /\ At(w, "idle") /\ Exists(p) /\ plans[p].status \in {"publishable", "published"}
  /\ Become(w, [pc |-> "issue_config", plan |-> p, hash |-> plans[p].hash])
  /\ UNCHANGED <<tables, createMu>>

\* Issue reads the plan first and certifies the hash it read.
IssueGet(w, p) ==
  /\ At(w, "idle") /\ Exists(p) /\ plans[p].status = "publishable"
  /\ Become(w, [pc |-> "issue_config", plan |-> p, hash |-> plans[p].hash])
  /\ UNCHANGED <<tables, createMu>>

IssueConfig(w) ==
  /\ At(w, "issue_config")
  /\ IF cfgStatus = "frozen" THEN Advance(w, "issue_insert") ELSE Done(w)
  /\ UNCHANGED <<tables, createMu>>

IssueInsert(w) ==
  LET r == req[w] IN
  /\ At(w, "issue_insert")
  /\ IF Len(certs) = MaxCerts THEN Done(w) /\ UNCHANGED certs
     ELSE /\ certs' = Append(certs, [plan |-> r.plan, hash |-> r.hash,
                                     status |-> "published", reason |-> "none"])
          /\ Become(w, [pc |-> "issue_publish", plan |-> r.plan])
  /\ UNCHANGED <<cfgStatus, blocks, plans, planOps, checkpoints, wear, createMu>>

\* Fault: the plan stays publishable.
IssuePublishNot(w) ==
  /\ At(w, "issue_publish")
  /\ Done(w)
  /\ UNCHANGED <<tables, createMu>>

IssuePublish(w) ==
  /\ At(w, "issue_publish")
  /\ SetStatus(req[w].plan, "published")
  /\ Done(w)
  /\ UNCHANGED <<cfgStatus, blocks, planOps, checkpoints, wear, certs, createMu>>

\* Fault: a revoked certificate may be revoked again.
RevokeGetAgain(w, c, reason) ==
  /\ At(w, "idle") /\ c \in DOMAIN certs
  /\ Become(w, [pc |-> "revoke_write", cert |-> c, reason |-> reason])
  /\ UNCHANGED <<tables, createMu>>

\* Revoke is refused on the certificate it read, then writes without looking.
RevokeGet(w, c, reason) ==
  /\ At(w, "idle") /\ c \in DOMAIN certs
  /\ certs[c].status # "revoked"
  /\ Become(w, [pc |-> "revoke_write", cert |-> c, reason |-> reason])
  /\ UNCHANGED <<tables, createMu>>

RevokeWrite(w) ==
  LET r == req[w] IN
  /\ At(w, "revoke_write")
  /\ certs' = [certs EXCEPT ![r.cert] = [@ EXCEPT !.status = "revoked", !.reason = r.reason]]
  /\ Done(w)
  /\ UNCHANGED <<cfgStatus, blocks, plans, planOps, checkpoints, wear, createMu>>
-----------------------------------------------------------------------------
CertCall(w) ==
  \/ \E p \in Plan : IssueGet(w, p)
  \/ \E c \in Cert, reason \in Reason : RevokeGet(w, c, reason)

CertStep(w) ==
  IssueConfig(w) \/ IssueInsert(w) \/ IssuePublish(w) \/ RevokeWrite(w)
=============================================================================
