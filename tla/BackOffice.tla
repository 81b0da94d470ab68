------------------------------ MODULE BackOffice ------------------------------
(***************************************************************************)
(* The parts of the system that administrators and partners work with, and *)
(* the pages through which administrators and agents do.  They share no    *)
(* state, and what one of them does none of the others can see: letting    *)
(* one of them run shows all that any of them may do.                      *)
(***************************************************************************)
EXTENDS PbxConfig, TelegramInbox, Integrations, CrudForm, PabxPage, DeskPage,
        DigitalNumbers, Agents, Flows

VARIABLE part       \* the one that runs; fixed

backOfficeVars == <<pbxVars, telegramVars, integrationVars, crudVars, pageVars, deskVars,
                    numberVars, agentVars, flowVars, part>>

BackOfficeInit ==
  /\ PbxInit /\ TelegramInit /\ IntegrationsInit /\ CrudInit /\ PageInit /\ DeskInit
  /\ NumbersInit /\ AgentsInit /\ FlowsInit
  /\ part \in {"pbx", "telegram", "integrations", "crud", "page", "desk",
               "numbers", "agents", "flows"}
  /\ part = "integrations" \/ partner.kind = CHOOSE k \in PartnerKind : TRUE
  /\ part = "page" \/ tab = CHOOSE t \in Tab : TRUE

\* The parts other than the one that runs keep their initial states.
OthersRest ==
  /\ UNCHANGED part
  /\ IF part = "pbx" THEN TRUE ELSE UNCHANGED pbxVars
  /\ IF part = "telegram" THEN TRUE ELSE UNCHANGED telegramVars
  /\ IF part = "integrations" THEN TRUE ELSE UNCHANGED integrationVars
  /\ IF part = "crud" THEN TRUE ELSE UNCHANGED crudVars
  /\ IF part = "page" THEN TRUE ELSE UNCHANGED pageVars
  /\ IF part = "desk" THEN TRUE ELSE UNCHANGED deskVars
  /\ IF part = "numbers" THEN TRUE ELSE UNCHANGED numberVars
  /\ IF part = "agents" THEN TRUE ELSE UNCHANGED agentVars
  /\ IF part = "flows" THEN TRUE ELSE UNCHANGED flowVars

PbxStep == part = "pbx" /\ PbxNext /\ OthersRest
TelegramStep == part = "telegram" /\ TelegramNext /\ OthersRest
IntegrationsStep == part = "integrations" /\ IntegrationsNext /\ OthersRest
CrudStep == part = "crud" /\ CrudNext /\ OthersRest
PageStep == part = "page" /\ PageNext /\ OthersRest
DeskStep == part = "desk" /\ DeskNext /\ OthersRest
NumbersStep == part = "numbers" /\ NumbersNext /\ OthersRest
AgentsStep == part = "agents" /\ AgentsNext /\ OthersRest
FlowsStep == part = "flows" /\ FlowsNext /\ OthersRest

BackOfficeNext ==
  \/ PbxStep \/ TelegramStep \/ IntegrationsStep \/ CrudStep \/ PageStep
  \/ DeskStep \/ NumbersStep \/ AgentsStep \/ FlowsStep

BackOfficeSpec == BackOfficeInit /\ [][BackOfficeNext]_backOfficeVars

\* Every variable of the part that runs holds what its column, field or state holds.
BackOfficeTypeOK ==
  CASE part = "pbx" -> PbxTypeOK           [] part = "telegram" -> TelegramTypeOK
    [] part = "integrations" -> IntegrationsTypeOK
    [] part = "crud" -> CrudTypeOK         [] part = "page" -> PageTypeOK
    [] part = "desk" -> DeskPageTypeOK     [] part = "numbers" -> NumbersTypeOK
    [] part = "agents" -> AgentsTypeOK     [] part = "flows" -> FlowsTypeOK
=============================================================================
