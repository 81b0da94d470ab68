---------------------------- MODULE Integrations ----------------------------
(***************************************************************************)
(* The outgoing half of IntegrationsService: administrators keep one row   *)
(* per type of partner, and an execution reads the row, perhaps a contact, *)
(* sends one HTTP request (to an external system) and logs what came of    *)
(* it.  The row may change under the execution, the partner may have       *)
(* carried out a request that timed out, and the log itself may fail.      *)
(***************************************************************************)
CONSTANTS
  Execution,      \* executions that will be asked for
  PartnerKind,    \* types of integrations
  KindOf,         \* [Execution -> the type it insists on, or AnyKind]
  AnyKind,        \* execute() and testConnection() take any type
  Secret,         \* values of the secret keys of a configuration
  SecretMask      \* what every answer shows in their place

ASSUME IntegrationsAssumption ==
  /\ AnyKind \notin PartnerKind
  /\ KindOf \in [Execution -> PartnerKind \cup {AnyKind}]
  /\ SecretMask \notin Secret

VARIABLES
  partner,        \* the row of the integration
  execution,      \* the executions
  carriedOut,     \* executions the partner has carried out
  outcome,        \* rows of the integration_logs table, by execution
  upset           \* executions some awaited step of which failed or timed out

integrationVars == <<partner, execution, carriedOut, outcome, upset>>

Partner == [kind : PartnerKind, secret : Secret \cup {SecretMask}, active : BOOLEAN]

\* sanitizeIntegration(): an answer never holds a secret.
Sanitized(p) == [p EXCEPT !.secret = SecretMask]

-----------------------------------------------------------------------------
(* Rows.                                                                   *)

\* A field that the body does not name is left alone; a body that was made of
\* an answer has the mask where the secret was.
Overwrites(kind, secret, active) ==
  partner' = [kind   |-> kind, secret |-> secret, active |-> active]

UpdateIntegration ==
  /\ \E kind \in {partner.kind} \cup PartnerKind,
        secret \in {partner.secret, Sanitized(partner).secret} \cup Secret,
        active \in {partner.active, TRUE} :
       Overwrites(kind, secret, active)
  /\ UNCHANGED <<execution, carriedOut, outcome, upset>>

\* upsert() finds the row by its type, and revives it.
UpsertIntegration ==
  /\ \E secret \in Secret : Overwrites(partner.kind, secret, TRUE)
  /\ UNCHANGED <<execution, carriedOut, outcome, upset>>

DeleteIntegration ==
  /\ Overwrites(partner.kind, partner.secret, FALSE)
  /\ UNCHANGED <<execution, carriedOut, outcome, upset>>

-----------------------------------------------------------------------------
(* Executions.                                                             *)

Over == {"refused", "ok", "failed", "rejected"}

Stage == {"new", "contact", "request", "succeeded", "broke"} \cup Over

Goes(x, at) == execution' = [execution EXCEPT ![x].at = at]

\* The row is read, an inactive one too, and its type checked.  A body may name a
\* contact whose variables the request is rendered with.
ReadPartner(x) ==
  /\ execution[x].at = "new"
  /\ \E next \in {"contact", "request"} :
       execution' = [execution EXCEPT ![x] =
         [at     |-> IF KindOf[x] \in {AnyKind, partner.kind} THEN next ELSE "refused",
          secret |-> partner.secret]]
  /\ UNCHANGED <<partner, carriedOut, outcome, upset>>

BuildVariables(x) ==
  /\ execution[x].at = "contact"
  /\ \E next \in {"request", "refused"} : Goes(x, next)  \* refused: no such contact
  /\ UNCHANGED <<partner, carriedOut, outcome, upset>>

\* axios rejects for a timeout as for an error status: the partner may have
\* carried the request out or not.
Request(x) ==
  /\ execution[x].at = "request"
  /\ \/ /\ Goes(x, "succeeded")
        /\ carriedOut' = carriedOut \cup {x}
        /\ UNCHANGED upset
     \/ /\ Goes(x, "broke")
        /\ carriedOut' \in {carriedOut, carriedOut \cup {x}}
        /\ upset' = upset \cup {x}
  /\ UNCHANGED <<partner, outcome>>

\* Faulty variant: the error of the log is answered as a success.
LogSuccessAnyway(x) ==
  /\ execution[x].at = "succeeded"
  /\ Goes(x, "ok")
  /\ outcome' \in {outcome, [outcome EXCEPT ![x] = @ \cup {"SUCCESS"}]}
  /\ UNCHANGED <<partner, carriedOut, upset>>

\* The log of a success is written inside the try block: when it rejects, stored
\* or not, the execution is logged once more, as failed.
LogSuccess(x) ==
  /\ execution[x].at = "succeeded"
  /\ \/ /\ Goes(x, "ok")
        /\ outcome' = [outcome EXCEPT ![x] = @ \cup {"SUCCESS"}]
        /\ UNCHANGED upset
     \/ /\ Goes(x, "broke")
        /\ outcome' \in {outcome, [outcome EXCEPT ![x] = @ \cup {"SUCCESS"}]}
        /\ upset' = upset \cup {x}
  /\ UNCHANGED <<partner, carriedOut>>

\* Nothing catches the rejection of this one: the caller gets an error status.
LogFailure(x) ==
  /\ execution[x].at = "broke"
  /\ \/ /\ Goes(x, "failed")
        /\ outcome' = [outcome EXCEPT ![x] = @ \cup {"FAILED"}]
     \/ /\ Goes(x, "rejected")
        /\ outcome' \in {outcome, [outcome EXCEPT ![x] = @ \cup {"FAILED"}]}
  /\ UNCHANGED <<partner, carriedOut, upset>>

IntegrationsInit ==
  /\ partner \in [kind : PartnerKind, secret : Secret, active : {TRUE}]
  /\ execution = [x \in Execution |-> [at |-> "new", secret |-> SecretMask]]
  /\ carriedOut = {}
  /\ outcome = [x \in Execution |-> {}]
  /\ upset = {}

IntegrationsNext ==
  \/ UpdateIntegration \/ UpsertIntegration \/ DeleteIntegration
  \/ \E x \in Execution :
       ReadPartner(x) \/ BuildVariables(x) \/ Request(x) \/ LogSuccess(x) \/ LogFailure(x)

IntegrationsSpec == IntegrationsInit /\ [][IntegrationsNext]_integrationVars

IntegrationsTypeOK ==
  /\ partner \in Partner
  /\ execution \in [Execution -> [at : Stage, secret : Secret \cup {SecretMask}]]
  /\ carriedOut \subseteq Execution
  /\ outcome \in [Execution -> SUBSET {"SUCCESS", "FAILED"}]
  /\ upset \subseteq Execution
-----------------------------------------------------------------------------
(***************************************************************************)
(* Whoever is told how his execution ended finds a log that says the same, *)
(* and was told the truth: "ok" means that the partner carried it out, and *)
(* what the partner carried out is reported or logged as failed only when  *)
(* an awaited step went wrong.  A request that was never sent has no log.  *)
(***************************************************************************)
AnswerMatchesLog ==
  \A x \in Execution :
    LET at == execution[x].at IN
    /\ at = "ok" => x \in carriedOut /\ outcome[x] = {"SUCCESS"}
    /\ at = "failed" => "FAILED" \in outcome[x] /\ x \in upset
    /\ at \in {"new", "contact", "request", "refused"} => outcome[x] = {} /\ x \notin carriedOut
    /\ x \in carriedOut /\ "FAILED" \in outcome[x] => x \in upset
=============================================================================
