--------------------------- MODULE BackOffice_proofs ---------------------------
(***************************************************************************)
(* Proofs about the back office.  First its smaller parts, each for any    *)
(* number of concurrent callers, tabs and slots: executions of             *)
(* integrations, digital numbers, agents, flows, the desk page, the PABX   *)
(* page and the forms; the PABX configuration and the Telegram inbox have  *)
(* proof modules of their own.  Then the back office as a whole: every     *)
(* behaviour of it is one of each part, so what holds of the parts holds   *)
(* of it.                                                                  *)
(***************************************************************************)
EXTENDS BackOffice, PbxConfig_proofs, TelegramInbox_proofs, FiniteSetTheorems,
        SequenceTheorems, TLAPS

(* Executions of integrations.                                             *)

LEMMA IntegrationsTypeStep ==
  IntegrationsTypeOK /\ [IntegrationsNext]_integrationVars => IntegrationsTypeOK'
<1> USE IntegrationsAssumption DEF IntegrationsTypeOK
<1> SUFFICES ASSUME IntegrationsTypeOK, [IntegrationsNext]_integrationVars
             PROVE  IntegrationsTypeOK'
  OBVIOUS
<1>1. CASE UpdateIntegration \/ UpsertIntegration \/ DeleteIntegration
  <2>1. /\ partner.kind \in PartnerKind /\ partner.secret \in Secret \cup {SecretMask}
        /\ partner.active \in BOOLEAN /\ Sanitized(partner).secret = SecretMask
    BY DEF Partner, Sanitized
  <2>2. \E kind \in PartnerKind, secret \in Secret \cup {SecretMask}, active \in BOOLEAN :
          Overwrites(kind, secret, active)
    <3>1. CASE UpdateIntegration
      <4>1. PICK kind \in {partner.kind} \cup PartnerKind,
                 secret \in {partner.secret, Sanitized(partner).secret} \cup Secret,
                 active \in {partner.active, TRUE} : Overwrites(kind, secret, active)
        BY <3>1 DEF UpdateIntegration
      <4>2. kind \in PartnerKind /\ secret \in Secret \cup {SecretMask} /\ active \in BOOLEAN
        BY <2>1
      <4> QED
        BY <4>1, <4>2
    <3>2. CASE UpsertIntegration
      BY <2>1, <3>2 DEF UpsertIntegration
    <3>3. CASE DeleteIntegration
      BY <2>1, <3>3 DEF DeleteIntegration
    <3> QED
      BY <1>1, <3>1, <3>2, <3>3
  <2>3. partner' \in Partner
    BY <2>2 DEF Overwrites, Partner
  <2>4. UNCHANGED <<execution, carriedOut, outcome, upset>>
    BY <1>1 DEF UpdateIntegration, UpsertIntegration, DeleteIntegration
  <2> QED
    BY <2>3, <2>4
<1>2. ASSUME NEW x \in Execution, ReadPartner(x) PROVE IntegrationsTypeOK'
  BY <1>2 DEF ReadPartner, Partner, Stage, Over
<1>3. ASSUME NEW x \in Execution,
             BuildVariables(x) \/ Request(x) \/ LogSuccess(x) \/ LogFailure(x)
      PROVE  IntegrationsTypeOK'
  BY <1>3 DEF BuildVariables, Request, LogSuccess, LogFailure, Goes, Stage, Over
<1>4. CASE UNCHANGED integrationVars
  BY <1>4 DEF integrationVars
<1> QED
  BY <1>1, <1>2, <1>3, <1>4 DEF IntegrationsNext

LEMMA IntegrationsTypeInit == IntegrationsInit => IntegrationsTypeOK
<1> SUFFICES ASSUME IntegrationsInit PROVE IntegrationsTypeOK
  OBVIOUS
<1>1. partner \in Partner
  BY DEF IntegrationsInit, Partner
<1>2. [at |-> "new", secret |-> SecretMask] \in [at : Stage, secret : Secret \cup {SecretMask}]
  BY DEF Stage
<1> QED
  BY <1>1, <1>2 DEF IntegrationsInit, IntegrationsTypeOK

\* Rows, executions and logs keep their types.
THEOREM IntegrationsTypeCorrect == IntegrationsSpec => []IntegrationsTypeOK
<1> QED
  BY IntegrationsTypeInit, IntegrationsTypeStep, PTL DEF IntegrationsSpec

\* What is true of an execution at each point of its way: AnswerMatchesLog says
\* nothing of one that has succeeded or broken and is not logged yet.
Consistent(x) ==
  LET at == execution[x].at IN
  /\ at \in {"new", "contact", "request", "refused"} => outcome[x] = {} /\ x \notin carriedOut
  /\ at = "succeeded" => outcome[x] = {} /\ x \in carriedOut
  /\ at = "ok" => outcome[x] = {"SUCCESS"} /\ x \in carriedOut
  /\ at = "broke" => x \in upset
  /\ at = "failed" => "FAILED" \in outcome[x] /\ x \in upset
  /\ at = "rejected" => x \in upset

ExecutionInv == IntegrationsTypeOK /\ \A x \in Execution : Consistent(x)

LEMMA ExecutionStep ==
  ExecutionInv /\ [IntegrationsNext]_integrationVars => ExecutionInv'
<1> SUFFICES ASSUME ExecutionInv, [IntegrationsNext]_integrationVars PROVE ExecutionInv'
  OBVIOUS
<1>1. IntegrationsTypeOK'
  BY IntegrationsTypeStep DEF ExecutionInv
<1>2. ASSUME NEW x \in Execution PROVE Consistent(x)'
  <2> USE DEF ExecutionInv, IntegrationsTypeOK, Consistent
  <2>1. CASE UpdateIntegration \/ UpsertIntegration \/ DeleteIntegration
    BY <2>1 DEF UpdateIntegration, UpsertIntegration, DeleteIntegration
  <2>2. ASSUME NEW y \in Execution, ReadPartner(y) PROVE Consistent(x)'
    BY <2>2 DEF ReadPartner
  <2>3. ASSUME NEW y \in Execution, BuildVariables(y) PROVE Consistent(x)'
    BY <2>3 DEF BuildVariables, Goes
  <2>4. ASSUME NEW y \in Execution, Request(y) PROVE Consistent(x)'
    BY <2>4 DEF Request, Goes
  <2>5. ASSUME NEW y \in Execution, LogSuccess(y) PROVE Consistent(x)'
    BY <2>5 DEF LogSuccess, Goes
  <2>6. ASSUME NEW y \in Execution, LogFailure(y) PROVE Consistent(x)'
    BY <2>6 DEF LogFailure, Goes
  <2>7. CASE UNCHANGED integrationVars
    BY <2>7 DEF integrationVars
  <2> QED
    BY <2>1, <2>2, <2>3, <2>4, <2>5, <2>6, <2>7 DEF IntegrationsNext
<1> QED
  BY <1>1, <1>2 DEF ExecutionInv

\* The caller, the log and the partner tell the same story of every execution.
THEOREM AnswersMatchLogs == IntegrationsSpec => []AnswerMatchesLog
<1>1. IntegrationsInit => ExecutionInv
  BY IntegrationsTypeInit DEF IntegrationsInit, ExecutionInv, Consistent
<1>2. ExecutionInv => AnswerMatchesLog
  BY DEF ExecutionInv, IntegrationsTypeOK, Consistent, AnswerMatchesLog, Stage, Over
<1> QED
  BY <1>1, <1>2, ExecutionStep, PTL DEF IntegrationsSpec

-----------------------------------------------------------------------------
(* Digital numbers.                                                        *)

LEMMA PatchType ==
  ASSUME NEW b \in PortBodies \cup {<<>>}, NEW p \in Ports
  PROVE  Patch(p, b) \in Ports
<1>1. CASE b = <<>>
  BY <1>1 DEF Patch, Or, Ports
<1>2. CASE b \in PortBodies
  <2>1. Or(b, "signal", p.signal) \in Port
    BY <1>2, NumbersAssumption DEF Or, Ports
  <2>2. Or(b, "start", p.start) \in RtpPort /\ Or(b, "end", p.end) \in RtpPort
    BY <1>2, NumbersAssumption DEF Or, Ports, RtpPort
  <2> QED
    BY <2>1, <2>2 DEF Patch, Ports
<1> QED
  BY <1>1, <1>2

LEMMA DefaultPortsType == DefaultPorts \in Ports
<1>1. DefaultStart \in Nat /\ DefaultEnd \in Nat /\ RtpFloor \in Nat
  BY NumbersAssumption
<1>2. DefaultStart >= RtpFloor /\ DefaultEnd >= RtpFloor
  BY <1>1, NumbersAssumption
<1> QED
  BY <1>2, NumbersAssumption DEF DefaultPorts, Ports, RtpPort

LEMMA LoggedType ==
  ASSUME NEW log \in Seq(Entry), NEW e \in 1..MaxTests
  PROVE  /\ Logged(log, e) \in Seq(Entry)
         /\ Len(Logged(log, e)) <= LogSize
         /\ Len(Logged(log, e)) = IF Len(log) < LogSize THEN Len(log) + 1 ELSE LogSize
         /\ Logged(log, e)[1] = e
         /\ \A i \in 1..(LogSize - 1) : i \in DOMAIN log =>
              i + 1 \in DOMAIN Logged(log, e) /\ Logged(log, e)[i + 1] = log[i]
<1> DEFINE all == <<e>> \o log
           n == IF Len(log) < LogSize THEN Len(log) + 1 ELSE LogSize
<1>1. /\ all \in Seq(Entry) /\ Len(all) = Len(log) + 1 /\ all[1] = e
      /\ \A i \in 1..Len(log) : all[i + 1] = log[i]
  BY NumbersAssumption DEF Entry
<1>2. n \in 1..Len(all) /\ n <= LogSize
  BY <1>1, NumbersAssumption
<1> HIDE DEF all, n
<1>3. /\ SubSeq(all, 1, n) \in Seq(Entry) /\ Len(SubSeq(all, 1, n)) = n
      /\ \A i \in 1..n : SubSeq(all, 1, n)[i] = all[i]
  <2>1. n \in Nat \ {0} /\ \A i \in 1..n : all[i] \in Entry
    <3>1. Len(all) \in Nat /\ n \in 1..Len(all)
      BY <1>1, <1>2
    <3>2. \A i \in 1..Len(all) : all[i] \in Entry
      BY <1>1, ElementOfSeq
    <3> QED
      BY <3>1, <3>2
  <2>2. /\ SubSeq(all, 1, n) \in Seq(Entry)
        /\ Len(SubSeq(all, 1, n)) = IF 1 <= n THEN n - 1 + 1 ELSE 0
        /\ \A i \in 1..(n - 1 + 1) : SubSeq(all, 1, n)[i] = all[1 + i - 1]
    BY <2>1, SubSeqProperties
  <2>3. 1 <= n /\ n - 1 + 1 = n /\ \A i \in 1..n : 1 + i - 1 = i
    BY <2>1
  <2> QED
    BY <2>2, <2>3
<1>4. Logged(log, e) = SubSeq(all, 1, n)
  BY DEF Logged, all, n
<1>5. ASSUME NEW i \in 1..(LogSize - 1), i \in DOMAIN log
      PROVE  i + 1 \in DOMAIN Logged(log, e) /\ Logged(log, e)[i + 1] = log[i]
  <2>1. i + 1 \in 1..n
    BY <1>5, NumbersAssumption DEF n
  <2> QED
    BY <1>1, <1>3, <1>4, <1>5, <2>1
<1> QED
  BY <1>1, <1>2, <1>3, <1>4, <1>5 DEF n

LEMMA UnusedType == Unused \in EditorRec
BY DefaultPortsType DEF Unused, EditorRec

LEMMA NumbersTypeStep == NumbersTypeOK /\ [NumbersNext]_numberVars => NumbersTypeOK'
<1> USE NumbersAssumption DEF NumbersTypeOK
<1> SUFFICES ASSUME NumbersTypeOK, [NumbersNext]_numberVars PROVE NumbersTypeOK'
  OBVIOUS
<1>1. CASE CreateNumber
  <2>1. PICK b \in PortBodies, status \in {"other", "DISABLED"}, log \in {<<>>} \cup PostedLogs :
          number' = [ports |-> Patch(DefaultPorts, b), status |-> status,
                     active |-> TRUE, log |-> log]
    BY <1>1 DEF CreateNumber
  <2>2. Patch(DefaultPorts, b) \in Ports
    BY PatchType, DefaultPortsType
  <2>3. log \in Seq(Entry)
    <3>1. CASE log = <<>>
      BY <3>1
    <3>2. CASE log \in PostedLogs
      BY <3>2
    <3> QED
      BY <2>1, <3>1, <3>2
  <2>4. number' \in [ports : Ports, status : {"none", "other", "DISABLED"}, active : BOOLEAN,
                     log : Seq(Entry)]
    BY <2>1, <2>2, <2>3
  <2> QED
    BY <1>1, <2>4 DEF CreateNumber
<1>2. ASSUME NEW d \in Editor, NEW op \in {"update", "delete", "test"},
             NEW b \in PortBodies \cup {<<>>}, ReadNumber(d, op, b)
      PROVE  NumbersTypeOK'
  <2>1. Unused \in EditorRec
    BY UnusedType
  <2>2. editor' \in [Editor -> EditorRec]
    BY <1>2, <2>1 DEF ReadNumber, EditorRec
  <2> QED
    BY <1>2, <2>2 DEF ReadNumber
<1>3. ASSUME NEW d \in Editor, UpdateNumber(d) PROVE NumbersTypeOK'
  <2>1. Patch(number.ports, editor[d].body) \in Ports
    BY PatchType DEF EditorRec
  <2>2. Unused \in EditorRec
    BY UnusedType
  <2>3. PICK status \in {number.status, "other", "DISABLED"}, active \in BOOLEAN,
             log \in {number.log} \cup PostedLogs :
          /\ number' = [ports |-> Patch(number.ports, editor[d].body), status |-> status,
                        active |-> active, log |-> log]
          /\ kept' = IF log = number.log THEN kept ELSE {}
    BY <1>3 DEF UpdateNumber
  <2>4. log \in Seq(Entry)
    OBVIOUS
  <2>5. crossedPorts' \in BOOLEAN /\ assumed' \in BOOLEAN
    BY <1>3 DEF UpdateNumber
  <2> QED
    BY <1>3, <2>1, <2>2, <2>3, <2>4, <2>5 DEF UpdateNumber
<1>4. ASSUME NEW d \in Editor, DeleteNumber(d) \/ EditorFails(d) PROVE NumbersTypeOK'
  <2>1. Unused \in EditorRec
    BY UnusedType
  <2>2. CASE DeleteNumber(d)
    <3>1. number' \in [ports : Ports, status : {"none", "other", "DISABLED"}, active : BOOLEAN,
                       log : Seq(Entry)] /\ number'.log = number.log
      BY <2>2 DEF DeleteNumber
    <3> QED
      BY <2>1, <2>2, <3>1 DEF DeleteNumber
  <2>3. CASE EditorFails(d)
    BY <2>1, <2>3 DEF EditorFails
  <2> QED
    BY <1>4, <2>2, <2>3
<1>5. ASSUME NEW d \in Editor, RegisterTest(d) PROVE NumbersTypeOK'
  <2>1. Unused \in EditorRec
    BY UnusedType
  <2>2. tests' \in 1..MaxTests /\ tests' = tests + 1
    BY <1>5 DEF RegisterTest
  <2>3. PICK status \in {"other", "DISABLED"} :
          number' = [number EXCEPT !.status = status, !.log = Logged(editor[d].log, tests')]
    BY <1>5 DEF RegisterTest
  <2>4. number' \in [ports : Ports, status : {"none", "other", "DISABLED"}, active : BOOLEAN,
                     log : Seq(Entry)]
    <3>1. editor[d].log \in Seq(Entry)
      BY DEF EditorRec
    <3>2. Logged(editor[d].log, tests') \in Seq(Entry)
      BY <2>2, <3>1, LoggedType
    <3> QED
      BY <2>3, <3>2
  <2>5. editor' \in [Editor -> EditorRec]
    <3>1. ASSUME NEW c \in Editor
          PROVE  [editor[c] EXCEPT !.later = editor[c].later \cup {tests'}] \in EditorRec
      <4>1. editor[c] \in EditorRec
        OBVIOUS
      <4>2. editor[c].later \cup {tests'} \subseteq 1..MaxTests
        BY <2>2, <4>1 DEF EditorRec
      <4> QED
        BY <4>1, <4>2 DEF EditorRec
    <3> QED
      BY <1>5, <2>1, <3>1 DEF RegisterTest
  <2>6. kept' \subseteq 1..tests'
    BY <1>5, <2>2 DEF RegisterTest
  <2>7. overwritten' \subseteq 1..MaxTests
    BY <1>5, <2>2 DEF RegisterTest, EditorRec
  <2>8. tests' \in 0..MaxTests /\ UNCHANGED <<assumed, crossedPorts>>
    BY <1>5, <2>2 DEF RegisterTest
  <2> QED
    BY <2>4, <2>5, <2>6, <2>7, <2>8
<1>6. CASE UNCHANGED numberVars
  BY <1>6 DEF numberVars
<1> QED
  BY <1>1, <1>2, <1>3, <1>4, <1>5, <1>6 DEF NumbersNext

LEMMA NumbersTypeInit == NumbersInit => NumbersTypeOK
<1> SUFFICES ASSUME NumbersInit PROVE NumbersTypeOK
  OBVIOUS
<1>1. [ports |-> DefaultPorts, status |-> "none", active |-> FALSE, log |-> <<>>]
        \in [ports : Ports, status : {"none", "other", "DISABLED"}, active : BOOLEAN,
            log : Seq(Entry)]
  BY DefaultPortsType
<1>2. 0 \in 0..MaxTests
  BY NumbersAssumption DEF NumbersInit
<1> QED
  BY <1>1, <1>2, UnusedType DEF NumbersInit, NumbersTypeOK

\* The row of a number holds what its columns take and its log entries of tests or
\* bodies, whatever the bodies bring; a request in flight keeps what it read.
THEOREM NumbersTypeCorrect == NumbersSpec => []NumbersTypeOK
BY NumbersTypeInit, NumbersTypeStep, PTL DEF NumbersSpec

\* An update has validated what it read.
UpdatesChecked ==
  \A d \in Editor :
    editor[d].op = "update" => ValidatePorts(WithRow(editor[d].body, editor[d].read))

PortsSound ==
  LET p == number.ports IN
  /\ p.start < p.end \/ crossedPorts
  /\ p.signal \notin p.start..p.end \/ assumed \/ crossedPorts

PortsInv == NumbersTypeOK /\ UpdatesChecked /\ PortsSound

\* If the row is as it was read, the patch of a checked body is sound, but for a
\* signalling port that neither the body named nor is the default.
LEMMA PatchSound ==
  ASSUME NEW b \in PortBodies \cup {<<>>}, NEW row \in Ports,
         ValidatePorts(WithRow(b, row))
  PROVE  LET p == Patch(row, b) IN
         /\ p.start < p.end
         /\ \/ p.signal \notin p.start..p.end
            \/ "signal" \notin DOMAIN b /\ row.signal # DefaultSignal
<1> DEFINE w == WithRow(b, row)  p == Patch(row, b)
<1>1. /\ p.start = w.start /\ p.end = w.end
      /\ w.start < w.end /\ w.signal \notin w.start..w.end
  <2>1. [row EXCEPT !.signal = DefaultSignal].start = row.start
        /\ [row EXCEPT !.signal = DefaultSignal].end = row.end
    BY DEF Ports
  <2> QED
    BY <2>1 DEF Patch, WithRow, ValidatePorts
<1>2. \/ p.signal = w.signal
      \/ "signal" \notin DOMAIN b /\ row.signal # DefaultSignal
  <2>1. [row EXCEPT !.signal = DefaultSignal].signal = DefaultSignal
    BY DEF Ports
  <2>2. p.signal = Or(b, "signal", row.signal) /\ w.signal = Or(b, "signal", DefaultSignal)
    BY <2>1 DEF Patch, WithRow
  <2> HIDE DEF p, w
  <2> QED
    BY <2>2 DEF Or
<1> QED
  BY <1>1, <1>2

LEMMA EmptyPatch ==
  ASSUME NEW b, NEW row \in Ports, DOMAIN b = {}
  PROVE  Patch(row, b) = row
BY DEF Patch, Or, Ports

LEMMA PortsStep == PortsInv /\ [NumbersNext]_numberVars => PortsInv'
<1> SUFFICES ASSUME PortsInv, [NumbersNext]_numberVars PROVE PortsInv'
  OBVIOUS
<1>1. NumbersTypeOK /\ NumbersTypeOK'
  BY NumbersTypeStep DEF PortsInv
<1>2. UpdatesChecked'
  <2> USE DEF PortsInv, UpdatesChecked
  <2>1. CASE CreateNumber
    BY <2>1 DEF CreateNumber
  <2>2. ASSUME NEW d \in Editor, NEW op \in {"update", "delete", "test"},
               NEW b \in PortBodies \cup {<<>>}, ReadNumber(d, op, b)
        PROVE  UpdatesChecked'
    BY <1>1, <2>2 DEF ReadNumber, NumbersTypeOK, Unused
  <2>3. ASSUME NEW d \in Editor,
               UpdateNumber(d) \/ DeleteNumber(d) \/ EditorFails(d) \/ RegisterTest(d)
        PROVE  UpdatesChecked'
    <3>1. \A c \in Editor :
            \/ editor'[c].op # "update"
            \/ UNCHANGED <<editor[c].op, editor[c].body, editor[c].read>>
      <4>1. CASE UpdateNumber(d) \/ DeleteNumber(d) \/ EditorFails(d)
        BY <1>1, <4>1 DEF UpdateNumber, DeleteNumber, EditorFails, NumbersTypeOK, Unused
      <4>2. CASE RegisterTest(d)
        <5> SUFFICES ASSUME NEW c \in Editor
                     PROVE  \/ editor'[c].op # "update"
                            \/ UNCHANGED <<editor[c].op, editor[c].body, editor[c].read>>
          OBVIOUS
        <5> DEFINE e == [editor[c] EXCEPT !.later = @ \cup {tests'}]
        <5>1. editor'[c] = Unused \/ editor'[c] = editor[c] \/ editor'[c] = e
          BY <4>2 DEF RegisterTest
        <5>2. e.op = editor[c].op /\ e.body = editor[c].body /\ e.read = editor[c].read
          BY <1>1 DEF NumbersTypeOK, EditorRec
        <5>3. Unused.op # "update"
          BY DEF Unused
        <5> HIDE DEF e
        <5> QED
          BY <5>1, <5>2, <5>3
      <4> QED
        BY <2>3, <4>1, <4>2
    <3> QED
      BY <3>1
  <2>4. CASE UNCHANGED numberVars
    BY <2>4 DEF numberVars
  <2> QED
    BY <2>1, <2>2, <2>3, <2>4 DEF NumbersNext
<1>3. PortsSound'
  <2>1. CASE CreateNumber
    <3>1. PICK b \in PortBodies, status \in {"other", "DISABLED"}, log \in {<<>>} \cup PostedLogs :
            /\ ValidatePorts(Patch(DefaultPorts, b))
            /\ number' = [ports |-> Patch(DefaultPorts, b), status |-> status,
                          active |-> TRUE, log |-> log]
      BY <2>1 DEF CreateNumber
    <3>2. number'.ports = Patch(DefaultPorts, b)
      BY <3>1
    <3> QED
      BY <3>1, <3>2 DEF PortsSound, ValidatePorts
  <2>2. ASSUME NEW d \in Editor, UpdateNumber(d) PROVE PortsSound'
    <3> DEFINE b == editor[d].body
    <3>1. /\ b \in PortBodies \cup {<<>>} /\ number.ports \in Ports
          /\ ValidatePorts(WithRow(b, editor[d].read))
      BY <1>1, <2>2 DEF NumbersTypeOK, EditorRec, PortsInv, UpdatesChecked, UpdateNumber
    <3>2. /\ number'.ports = Patch(number.ports, b)
          /\ crossedPorts' = (crossedPorts \/ number.ports # editor[d].read)
          /\ assumed' = (assumed \/ ("signal" \notin DOMAIN b
                                      /\ number.ports.signal # DefaultSignal /\ DOMAIN b # {}))
      BY <2>2 DEF UpdateNumber
    <3> HIDE DEF b
    <3>3. CASE number.ports # editor[d].read
      BY <3>2, <3>3 DEF PortsSound
    <3>4. CASE number.ports = editor[d].read /\ DOMAIN b = {}
      BY <1>1, <3>1, <3>2, <3>4, EmptyPatch DEF PortsSound, PortsInv, NumbersTypeOK
    <3>5. CASE number.ports = editor[d].read /\ DOMAIN b # {}
      BY <1>1, <3>1, <3>2, <3>5, PatchSound DEF PortsSound, NumbersTypeOK
    <3> QED
      BY <3>3, <3>4, <3>5
  <2>3. ASSUME NEW d \in Editor, RegisterTest(d) PROVE PortsSound'
    BY <1>1, <2>3 DEF RegisterTest, NumbersTypeOK, PortsSound, PortsInv
  <2>4. ASSUME NEW d \in Editor, DeleteNumber(d) PROVE PortsSound'
    BY <1>1, <2>4 DEF DeleteNumber, NumbersTypeOK, PortsSound, PortsInv
  <2>5. ASSUME NEW d \in Editor, NEW op, NEW b, ReadNumber(d, op, b) \/ EditorFails(d)
        PROVE  PortsSound'
    BY <2>5 DEF ReadNumber, EditorFails, PortsSound, PortsInv
  <2>6. CASE UNCHANGED numberVars
    BY <2>6 DEF numberVars, PortsSound, PortsInv
  <2> QED
    BY <2>1, <2>2, <2>3, <2>4, <2>5, <2>6 DEF NumbersNext
<1> QED
  BY <1>1, <1>2, <1>3 DEF PortsInv

-----------------------------------------------------------------------------
(* The log of a number.                                                    *)

\* Apart from those that "gone" names, the entries that should be in the log are
\* in it, each at most as far down as the tests that came after it.
Holds(log, gone) ==
  \A e \in (kept \ overwritten) \ gone :
    \E i \in DOMAIN log : log[i] = e /\ i <= tests - e + 1

LogInv ==
  /\ NumbersTypeOK
  /\ Holds(number.log, {})
  /\ \A d \in Editor : editor[d].op = "test" => Holds(editor[d].log, editor[d].later)
  /\ number.status = "none" => kept = {}

\* A new entry on top of a log leaves room for those that are still due.
LEMMA LoggedHolds ==
  ASSUME NEW log \in Seq(Entry), NEW old \in SUBSET Nat, NEW t \in Nat,
         t + 1 \in 1..MaxTests, old \subseteq 1..t,
         \A e \in old : \E i \in DOMAIN log : log[i] = e /\ i <= t - e + 1,
         NEW due \in SUBSET (old \cup {t + 1}),
         \A e \in due : (t + 1) - e < LogSize
  PROVE  \A e \in due : \E i \in DOMAIN Logged(log, t + 1) :
           Logged(log, t + 1)[i] = e /\ i <= (t + 1) - e + 1
<1> DEFINE new == Logged(log, t + 1)
<1>1. /\ new \in Seq(Entry) /\ new[1] = t + 1
      /\ Len(new) = IF Len(log) < LogSize THEN Len(log) + 1 ELSE LogSize
      /\ \A i \in 1..(LogSize - 1) : i \in DOMAIN log =>
           i + 1 \in DOMAIN new /\ new[i + 1] = log[i]
  BY LoggedType
<1> HIDE DEF new
<1> SUFFICES ASSUME NEW e \in due
             PROVE  \E i \in DOMAIN new : new[i] = e /\ i <= (t + 1) - e + 1
  BY DEF new
<1>2. CASE e = t + 1
  <2>1. Len(log) \in Nat /\ 1 \in DOMAIN new
    BY <1>1, NumbersAssumption
  <2>2. 1 <= (t + 1) - e + 1
    BY <1>2
  <2> QED
    BY <1>1, <1>2, <2>1, <2>2
<1>3. CASE e \in old
  <2>1. PICK i \in DOMAIN log : log[i] = e /\ i <= t - e + 1
    BY <1>3
  <2>2. i \in Nat \ {0} /\ e \in Nat /\ LogSize \in Nat
    BY <1>3, NumbersAssumption
  <2>3. i \in 1..(LogSize - 1) /\ i + 1 <= (t + 1) - e + 1
    BY <2>1, <2>2
  <2> QED
    BY <1>1, <2>1, <2>3
<1> QED
  BY <1>2, <1>3

LEMMA LogStep == LogInv /\ [NumbersNext]_numberVars => LogInv'
<1> SUFFICES ASSUME LogInv, [NumbersNext]_numberVars PROVE LogInv'
  OBVIOUS
<1> USE DEF LogInv
<1>1. NumbersTypeOK /\ NumbersTypeOK'
  BY NumbersTypeStep
<1>2. CASE CreateNumber
  <2>1. UNCHANGED <<editor, tests, kept, overwritten>>
    BY <1>2 DEF CreateNumber
  <2>2. kept = {} /\ number'.status # "none"
    BY <1>2 DEF CreateNumber
  <2> QED
    BY <1>1, <2>1, <2>2 DEF Holds
<1>3. ASSUME NEW d \in Editor, NEW op \in {"update", "delete", "test"},
             NEW b \in PortBodies \cup {<<>>}, ReadNumber(d, op, b)
      PROVE  LogInv'
  <2>1. UNCHANGED <<number, tests, kept, overwritten>>
    BY <1>3 DEF ReadNumber
  <2>2. ASSUME NEW c \in Editor, editor'[c].op = "test"
        PROVE  \/ editor'[c] = editor[c]
               \/ editor'[c].log = number.log /\ editor'[c].later = {}
    BY <1>1, <1>3, <2>2 DEF ReadNumber, NumbersTypeOK, Unused
  <2> QED
    BY <1>1, <2>1, <2>2 DEF Holds
<1>4. ASSUME NEW d \in Editor, UpdateNumber(d) PROVE LogInv'
  <2>1. \/ number'.log = number.log /\ kept' = kept
        \/ kept' = {}
    BY <1>4 DEF UpdateNumber
  <2>4. number'.status = "none" => number.status = "none"
    BY <1>4 DEF UpdateNumber
  <2>2. UNCHANGED <<tests, overwritten>>
    BY <1>4 DEF UpdateNumber
  <2>3. \A c \in Editor : editor'[c].op = "test" => editor'[c] = editor[c]
    BY <1>1, <1>4 DEF UpdateNumber, NumbersTypeOK, Unused
  <2> QED
    BY <1>1, <2>1, <2>2, <2>3, <2>4 DEF Holds
<1>5. ASSUME NEW d \in Editor, DeleteNumber(d) \/ EditorFails(d) PROVE LogInv'
  <2>1. /\ number'.log = number.log /\ UNCHANGED <<tests, kept, overwritten>>
        /\ number'.status = "none" => number.status = "none"
    BY <1>1, <1>5 DEF DeleteNumber, EditorFails, NumbersTypeOK
  <2>2. \A c \in Editor : editor'[c].op = "test" => editor'[c] = editor[c]
    BY <1>1, <1>5 DEF DeleteNumber, EditorFails, NumbersTypeOK, Unused
  <2> QED
    BY <1>1, <2>1, <2>2 DEF Holds
<1>6. ASSUME NEW d \in Editor, RegisterTest(d) PROVE LogInv'
  <2> DEFINE t == tests
             gone == editor[d].later
             old == (kept \ overwritten) \ gone
             due == kept' \ overwritten'
  <2>1. /\ editor[d].op = "test" /\ t < MaxTests /\ tests' = t + 1
        /\ kept' = {e \in kept \cup {t + 1} : (t + 1) - e < LogSize}
        /\ overwritten' = overwritten \cup gone
    BY <1>6 DEF RegisterTest
  <2>2. number'.log = Logged(editor[d].log, t + 1) /\ number'.status # "none"
    BY <1>1, <1>6, <2>1 DEF RegisterTest, NumbersTypeOK
  <2>3. /\ t \in Nat /\ t + 1 \in 1..MaxTests /\ kept \subseteq 1..t
        /\ editor[d].log \in Seq(Entry)
    BY <1>1, <2>1, NumbersAssumption DEF NumbersTypeOK, EditorRec
  <2>4. Holds(number.log, {})'
    <3>1. /\ old \subseteq 1..t /\ old \in SUBSET Nat
          /\ due \in SUBSET (old \cup {t + 1})
          /\ \A e \in due : (t + 1) - e < LogSize
      <4>1. old \subseteq 1..t
        BY <2>3
      <4>2. old \in SUBSET Nat
        BY <2>3, <4>1
      <4>3. \A e \in due : e \in kept \cup {t + 1} /\ (t + 1) - e < LogSize
        BY <2>1
      <4>4. \A e \in due : e \notin overwritten /\ e \notin gone
        BY <2>1
      <4> QED
        BY <4>1, <4>2, <4>3, <4>4
    <3>2. \A e \in old : \E i \in DOMAIN editor[d].log : editor[d].log[i] = e /\ i <= t - e + 1
      BY <2>1 DEF Holds
    <3> HIDE DEF old, due, t
    <3>3. \A e \in due : \E i \in DOMAIN Logged(editor[d].log, t + 1) :
            Logged(editor[d].log, t + 1)[i] = e /\ i <= (t + 1) - e + 1
      BY <2>3, <3>1, <3>2, LoggedHolds
    <3> QED
      BY <2>1, <2>2, <3>3 DEF Holds, due
  <2>5. ASSUME NEW c \in Editor, editor'[c].op = "test"
        PROVE  Holds(editor[c].log, editor[c].later)'
    <3>1. /\ editor[c].op = "test" /\ editor'[c].log = editor[c].log
          /\ editor'[c].later = editor[c].later \cup {t + 1}
      BY <1>1, <1>6, <2>1, <2>5 DEF RegisterTest, NumbersTypeOK, EditorRec, Unused
    <3>2. ASSUME NEW e \in (kept' \ overwritten') \ editor'[c].later
          PROVE  \E i \in DOMAIN editor[c].log : editor[c].log[i] = e /\ i <= (t + 1) - e + 1
      <4>1. e \in (kept \ overwritten) \ editor[c].later /\ e \in Nat
        BY <2>1, <2>3, <3>1, <3>2
      <4>2. PICK i \in DOMAIN editor[c].log : editor[c].log[i] = e /\ i <= t - e + 1
        BY <3>1, <4>1 DEF Holds
      <4>3. i \in Nat
        BY <1>1 DEF NumbersTypeOK, EditorRec
      <4> QED
        BY <2>3, <4>1, <4>2, <4>3
    <3> QED
      BY <2>1, <3>1, <3>2 DEF Holds
  <2> QED
    BY <1>1, <2>2, <2>4, <2>5
<1>7. CASE UNCHANGED numberVars
  BY <1>1, <1>7 DEF numberVars, Holds
<1> QED
  BY <1>2, <1>3, <1>4, <1>5, <1>6, <1>7 DEF NumbersNext

\* A range keeps clear of the signalling ports and the log keeps its entries,
\* but for what NumbersAreSound excepts, however the requests overlap.
THEOREM NumbersStaySound == NumbersSpec => []NumbersAreSound
<1>1. NumbersInit => PortsInv /\ LogInv
  <2> SUFFICES ASSUME NumbersInit PROVE PortsInv /\ LogInv
    OBVIOUS
  <2>1. number.ports = DefaultPorts /\ kept = {} /\ \A d \in Editor : editor[d].op = "none"
    BY DEF NumbersInit, Unused
  <2>2. PortsSound
    <3>1. /\ DefaultStart < DefaultEnd /\ DefaultSignal < DefaultStart
          /\ DefaultSignal \in Nat /\ DefaultStart \in Nat /\ DefaultEnd \in Nat
      BY NumbersAssumption
    <3>2. DefaultSignal \notin DefaultStart..DefaultEnd
      BY <3>1
    <3> QED
      BY <2>1, <3>1, <3>2 DEF PortsSound, DefaultPorts
  <2> QED
    BY <2>1, <2>2, NumbersTypeInit DEF PortsInv, LogInv, UpdatesChecked, Holds
<1>2. PortsInv /\ LogInv => NumbersAreSound
  BY DEF PortsInv, PortsSound, LogInv, Holds, NumbersAreSound
<1> QED
  BY <1>1, <1>2, PortsStep, LogStep, PTL DEF NumbersSpec

-----------------------------------------------------------------------------
(* Agents.                                                                 *)

LogEntry == [from : AgentStatus, to : AgentStatus]

ChangeRec == [agent : Agent \cup {NoAgent}, at : {"read", "write", "log"},
              from : AgentStatus, to : AgentStatus]

NoChangeWhole == \A s \in StatusChange : change[s].agent = NoAgent => change[s] = NoChange

LEMMA NoChangeType == NoChange \in ChangeRec
BY AgentsAssumption DEF NoChange, ChangeRec

LEMMA AgentsTypeStep == AgentsTypeOK /\ [AgentsNext]_agentVars => AgentsTypeOK'
<1> SUFFICES ASSUME AgentsTypeOK, [AgentsNext]_agentVars PROVE AgentsTypeOK'
  OBVIOUS
<1> USE DEF AgentsTypeOK
<1>1. ASSUME NEW s \in StatusChange, NEW u \in Agent, NEW to \in AgentStatus, ReadStatus(s, u, to)
      PROVE  AgentsTypeOK'
  <2>1. change' \in [StatusChange -> ChangeRec] /\ NoChangeWhole'
    BY <1>1, AgentsAssumption DEF ReadStatus, Account, ChangeRec, NoChangeWhole
  <2>2. unlogged' \subseteq Agent
    BY <1>1 DEF ReadStatus
  <2>3. since' \in [Agent -> Nat]
    <3>1. Len(statusLog[u]) \in Nat
      OBVIOUS
    <3> QED
      BY <1>1, <3>1 DEF ReadStatus
  <2> QED
    BY <1>1, <2>1, <2>2, <2>3 DEF ReadStatus, ChangeRec, NoChangeWhole
<1>2. ASSUME NEW s \in StatusChange, WriteStatus(s) PROVE AgentsTypeOK'
  <2>1. change' \in [StatusChange -> ChangeRec] /\ NoChangeWhole'
    <3>1. change' \in [StatusChange -> ChangeRec]
      <4>1. change \in [StatusChange -> ChangeRec]
        BY DEF ChangeRec
      <4>2. [change[s] EXCEPT !.at = "log"] \in ChangeRec
        BY <4>1 DEF ChangeRec
      <4> QED
        BY <1>2, <4>1, <4>2 DEF WriteStatus
    <3>2. change'[s].agent # NoAgent /\ \A o \in StatusChange \ {s} : change'[o] = change[o]
      BY <1>2 DEF WriteStatus
    <3> QED
      BY <3>1, <3>2 DEF NoChangeWhole
  <2>2. account' \in [Agent -> Account]
    <3>1. change[s].agent \in Agent /\ change[s].to \in AgentStatus
      BY <1>2 DEF WriteStatus
    <3> QED
      BY <1>2, <3>1 DEF WriteStatus, Account
  <2> QED
    BY <1>2, <2>1, <2>2 DEF WriteStatus, ChangeRec, NoChangeWhole
<1>3. ASSUME NEW s \in StatusChange, LogStatus(s) PROVE AgentsTypeOK'
  <2> DEFINE u == change[s].agent
             e == [from |-> change[s].from, to |-> change[s].to]
  <2>1. u \in Agent /\ e \in LogEntry
    BY <1>3 DEF LogStatus, LogEntry, NoChange
  <2>2. Append(statusLog[u], e) \in Seq(LogEntry)
    <3>1. statusLog[u] \in Seq(LogEntry)
      BY <2>1 DEF LogEntry
    <3> HIDE DEF u, e
    <3> QED
      BY <2>1, <3>1
  <2>3. statusLog' \in [Agent -> Seq(LogEntry)]
    BY <1>3, <2>1, <2>2 DEF LogStatus, LogEntry
  <2>4. change' \in [StatusChange -> ChangeRec] /\ NoChangeWhole'
    BY <1>3, NoChangeType DEF LogStatus, ChangeRec, NoChangeWhole
  <2> QED
    BY <1>3, <2>3, <2>4 DEF LogStatus, LogEntry, ChangeRec, NoChangeWhole
<1>4. ASSUME NEW s \in StatusChange, ChangeFails(s) PROVE AgentsTypeOK'
  <2>1. change' \in [StatusChange -> ChangeRec] /\ NoChangeWhole'
    BY <1>4, NoChangeType DEF ChangeFails, ChangeRec, NoChangeWhole
  <2>2. unlogged' \subseteq Agent
    BY <1>4 DEF ChangeFails
  <2> QED
    BY <1>4, <2>1, <2>2 DEF ChangeFails, ChangeRec, NoChangeWhole
<1>5. ASSUME NEW u \in Agent, SignInOrOut(u) PROVE AgentsTypeOK'
  <2>1. PICK status \in {"ONLINE", "OFFLINE"} : account' = [account EXCEPT ![u].status = status]
    BY <1>5 DEF SignInOrOut
  <2>2. account' \in [Agent -> Account]
    BY <2>1, AgentsAssumption DEF Account
  <2>3. turns' \in 0..MaxTurns
    BY <1>5, AgentsAssumption DEF SignInOrOut
  <2>4. unlogged' \subseteq Agent
    BY <1>5 DEF SignInOrOut
  <2>5. UNCHANGED <<statusLog, change, member, joining, phone, registering, since, lastCall>>
    BY <1>5 DEF SignInOrOut
  <2> QED
    BY <2>2, <2>3, <2>4, <2>5
<1>6. ASSUME NEW u \in Agent, Deactivate(u) PROVE AgentsTypeOK'
  <2>1. PICK b \in BOOLEAN : account' = [account EXCEPT ![u].active = b]
    BY <1>6 DEF Deactivate
  <2>2. account' \in [Agent -> Account]
    BY <2>1 DEF Account
  <2> QED
    BY <1>6, <2>2 DEF Deactivate
<1>7. ASSUME NEW u \in Agent, NEW b \in BOOLEAN,
             UpdateMember(u, b) \/ CheckMember(u) \/ AddMember(u) \/ RemoveMember(u)
      PROVE  AgentsTypeOK'
  BY <1>7 DEF UpdateMember, CheckMember, AddMember, RemoveMember
<1>8. ASSUME NEW u \in Agent,
             LookUpExtension(u) \/ RegisterSession(u) \/ Heartbeat(u) \/ UnregisterSession(u)
      PROVE  AgentsTypeOK'
  <2>1. phone' \in [Agent -> [known : BOOLEAN, ended : BOOLEAN, registered : BOOLEAN]]
    <3>1. CASE LookUpExtension(u)
      BY <3>1 DEF LookUpExtension
    <3>2. CASE RegisterSession(u)
      BY <3>2 DEF RegisterSession
    <3>3. CASE Heartbeat(u)
      BY <3>3 DEF Heartbeat
    <3>4. CASE UnregisterSession(u)
      BY <3>4 DEF UnregisterSession
    <3> QED
      BY <1>8, <3>1, <3>2, <3>3, <3>4
  <2> QED
    BY <1>8, <2>1 DEF LookUpExtension, RegisterSession, Heartbeat, UnregisterSession
<1>9. CASE UNCHANGED agentVars
  BY <1>9 DEF agentVars
<1> QED
  <2>1. CASE \E s \in StatusChange :
               \/ \E u \in Agent, to \in AgentStatus : ReadStatus(s, u, to)
               \/ WriteStatus(s) \/ LogStatus(s) \/ ChangeFails(s)
    BY <1>1, <1>2, <1>3, <1>4, <2>1
  <2>2. CASE AgentsNext /\ ~ \E s \in StatusChange :
               \/ \E u \in Agent, to \in AgentStatus : ReadStatus(s, u, to)
               \/ WriteStatus(s) \/ LogStatus(s) \/ ChangeFails(s)
    BY <1>5, <1>6, <1>7, <1>8, <2>2, AgentsAssumption DEF AgentsNext
  <2> QED
    BY <1>9, <2>1, <2>2

LEMMA AgentsTypeInit == AgentsInit => AgentsTypeOK
<1> SUFFICES ASSUME AgentsInit PROVE AgentsTypeOK
  OBVIOUS
<1>1. account \in [Agent -> Account] /\ turns \in 0..MaxTurns
  BY AgentsAssumption DEF AgentsInit, Account
<1>2. statusLog \in [Agent -> Seq(LogEntry)]
  BY DEF AgentsInit
<1>3. change \in [StatusChange -> ChangeRec] /\ NoChangeWhole
  BY NoChangeType DEF AgentsInit, NoChangeWhole
<1>4. phone \in [Agent -> [known : BOOLEAN, ended : BOOLEAN, registered : BOOLEAN]]
  BY DEF AgentsInit, NoSession
<1> QED
  BY <1>1, <1>2, <1>3, <1>4 DEF AgentsInit, AgentsTypeOK, LogEntry, ChangeRec, NoChangeWhole

\* Accounts, status logs, members and softphones keep their types.
THEOREM AgentsTypeCorrect == AgentsSpec => []AgentsTypeOK
BY AgentsTypeInit, AgentsTypeStep, PTL DEF AgentsSpec

\* An agent with a whole log has one change at a time, and the log ends in the
\* status that the change began from.
LastIs(u, status) ==
  Len(statusLog[u]) > since[u] => statusLog[u][Len(statusLog[u])].to = status

Whole(u) ==
  /\ \A i \in (since[u] + 2)..Len(statusLog[u]) : statusLog[u][i].from = statusLog[u][i - 1].to
  /\ \A s, t \in StatusChange : Handles(s, u) /\ Handles(t, u) => s = t
  /\ \A s \in StatusChange : Handles(s, u) =>
       /\ LastIs(u, change[s].from)
       /\ change[s].at = "write" => account[u].status = change[s].from
       /\ change[s].at = "log" => account[u].status = change[s].to
       /\ change[s].at \in {"write", "log"}
  /\ ~ Engaged(u) => LastIs(u, account[u].status)

LogsInv == AgentsTypeOK /\ \A u \in Agent \ unlogged : Whole(u)

LEMMA AppendChained ==
  ASSUME NEW log \in Seq(LogEntry), NEW e \in LogEntry, NEW n \in Nat,
         \A i \in (n + 2)..Len(log) : log[i].from = log[i - 1].to,
         Len(log) > n => log[Len(log)].to = e.from
  PROVE  LET new == Append(log, e) IN
         /\ \A i \in (n + 2)..Len(new) : new[i].from = new[i - 1].to
         /\ new[Len(new)].to = e.to
<1> DEFINE new == Append(log, e)
<1>1. /\ Len(log) \in Nat /\ Len(new) = Len(log) + 1 /\ new[Len(new)] = e
      /\ \A i \in 1..Len(log) : new[i] = log[i]
  <2>1. Len(log) \in Nat /\ Len(new) = Len(log) + 1
    OBVIOUS
  <2>2. new[Len(log) + 1] = e /\ \A i \in 1..Len(log) : new[i] = log[i]
    OBVIOUS
  <2> HIDE DEF new
  <2> QED
    BY <2>1, <2>2
<1> HIDE DEF new
<1>2. ASSUME NEW i \in (n + 2)..Len(new) PROVE new[i].from = new[i - 1].to
  <2>1. CASE i = Len(new)
    <3>1. i - 1 = Len(log) /\ i - 1 \in 1..Len(log) /\ Len(log) > n
      BY <1>1, <2>1
    <3> QED
      BY <1>1, <2>1, <3>1
  <2>2. CASE i # Len(new)
    <3>1. i \in (n + 2)..Len(log) /\ i \in 1..Len(log) /\ i - 1 \in 1..Len(log)
      BY <1>1, <2>2
    <3> QED
      BY <1>1, <3>1
  <2> QED
    BY <2>1, <2>2
<1> QED
  BY <1>1, <1>2 DEF new

\* Nothing that Whole(v) speaks of has changed.
LEMMA WholeStays ==
  ASSUME NEW v \in Agent, Whole(v),
         statusLog'[v] = statusLog[v], since'[v] = since[v], account'[v].status = account[v].status,
         \A s \in StatusChange :
           change'[s] = change[s] \/ (~ Handles(s, v) /\ ~ Handles(s, v)')
  PROVE  Whole(v)'
<1>1. \A s \in StatusChange : Handles(s, v)' <=> Handles(s, v)
  BY DEF Handles
<1>2. \A s \in StatusChange : Handles(s, v)' => change'[s] = change[s]
  BY DEF Handles
<1> QED
  BY <1>1, <1>2 DEF Whole, LastIs, Engaged

LEMMA LogsStep == LogsInv /\ [AgentsNext]_agentVars => LogsInv'
<1> SUFFICES ASSUME LogsInv, [AgentsNext]_agentVars, NEW v \in Agent, v \notin unlogged'
             PROVE  Whole(v)'
  BY AgentsTypeStep DEF LogsInv
<1>1. /\ account \in [Agent -> Account] /\ statusLog \in [Agent -> Seq(LogEntry)]
      /\ change \in [StatusChange -> ChangeRec] /\ NoChangeWhole
      /\ since \in [Agent -> Nat]
  BY DEF LogsInv, AgentsTypeOK, LogEntry, ChangeRec, NoChangeWhole
<1>2. ASSUME v \notin unlogged PROVE Whole(v)
  BY <1>2 DEF LogsInv
<1>3. NoChange.agent = NoAgent /\ NoAgent \notin Agent
  BY AgentsAssumption DEF NoChange
<1>4. ASSUME NEW s \in StatusChange, NEW u \in Agent, NEW to \in AgentStatus, ReadStatus(s, u, to)
      PROVE  Whole(v)'
  <2>1. /\ change[s] = NoChange
        /\ change' = [change EXCEPT ![s] = [agent |-> u, at |-> "write",
                                            from |-> account[u].status, to |-> to]]
        /\ unlogged' = IF Engaged(u) THEN unlogged \cup {u} ELSE unlogged \ {u}
        /\ since' = IF u \in unlogged /\ ~ Engaged(u)
                      THEN [since EXCEPT ![u] = Len(statusLog[u])] ELSE since
        /\ UNCHANGED <<account, statusLog>>
    BY <1>4 DEF ReadStatus
  <2>2. CASE v # u
    <3>1. Whole(v) /\ since'[v] = since[v]
      BY <1>1, <1>2, <2>1, <2>2
    <3> QED
      BY <1>1, <1>3, <2>1, <2>2, <3>1, WholeStays DEF Handles
  <2>3. CASE v = u
    <3>1. ~ Engaged(u)
      BY <2>1, <2>3
    <3>2. \A t \in StatusChange : Handles(t, u)' <=> t = s
      BY <1>1, <2>1, <3>1 DEF Handles, Engaged
    <3>3. change'[s].at = "write" /\ change'[s].from = account[u].status
      BY <1>1, <2>1
    <3>4. Len(statusLog[u]) \in Nat
      BY <1>1
    <3>5. CASE u \in unlogged
      <4>1. since'[u] = Len(statusLog[u]) /\ statusLog' = statusLog /\ account' = account
        BY <1>1, <2>1, <3>1, <3>5
      <4>2. (since'[u] + 2)..Len(statusLog'[u]) = {} /\ ~ (Len(statusLog'[u]) > since'[u])
        BY <3>4, <4>1
      <4> QED
        BY <2>3, <3>2, <3>3, <4>1, <4>2 DEF Whole, LastIs, Engaged
    <3>6. CASE u \notin unlogged
      <4>1. Whole(u) /\ since' = since
        BY <1>2, <2>1, <2>3, <3>6
      <4>2. LastIs(u, account[u].status)
        BY <3>1, <4>1 DEF Whole
      <4> QED
        BY <2>1, <2>3, <3>2, <3>3, <4>1, <4>2 DEF Whole, LastIs, Engaged
    <3> QED
      BY <3>5, <3>6
  <2> QED
    BY <2>2, <2>3
<1>5. ASSUME NEW s \in StatusChange, WriteStatus(s) PROVE Whole(v)'
  <2> DEFINE u == change[s].agent
  <2>1. /\ u \in Agent /\ change[s].at = "write"
        /\ account' = [account EXCEPT ![u].status = change[s].to]
        /\ change' = [change EXCEPT ![s].at = "log"]
        /\ UNCHANGED <<statusLog, unlogged, since>>
    BY <1>1, <1>5 DEF WriteStatus, ChangeRec
  <2>2. Whole(v)
    BY <1>2, <2>1
  <2>3. change'[s] = [change[s] EXCEPT !.at = "log"] /\ \A t \in StatusChange \ {s} : change'[t] = change[t]
    BY <1>1, <2>1
  <2>4. change'[s].agent = u /\ change'[s].from = change[s].from /\ change'[s].to = change[s].to
        /\ change'[s].at = "log"
    BY <1>1, <2>3 DEF ChangeRec
  <2>5. CASE v # u
    BY <1>1, <2>1, <2>2, <2>3, <2>4, <2>5, WholeStays DEF Handles
  <2>6. CASE v = u
    <3>1. PICK from \in AgentStatus, to \in AgentStatus :
            change[s].from = from /\ change[s].to = to
      BY <1>1 DEF ChangeRec
    <3>2. account'[v].status = to /\ change'[s].from = from /\ change'[s].to = to
          /\ change'[s].at = "log"
      BY <1>1, <2>1, <2>4, <2>6, <3>1 DEF Account
    <3>3. \A t \in StatusChange : Handles(t, v)' <=> t = s
      BY <2>2, <2>3, <2>4, <2>6 DEF Handles, Whole
    <3>4. LastIs(v, from) /\ statusLog' = statusLog /\ since' = since
      BY <2>1, <2>2, <2>6, <3>1 DEF Whole, Handles
    <3> QED
      BY <2>2, <3>2, <3>3, <3>4 DEF Whole, LastIs, Engaged
  <2> QED
    BY <2>5, <2>6
<1>6. ASSUME NEW s \in StatusChange, LogStatus(s) PROVE Whole(v)'
  <2> DEFINE u == change[s].agent
             e == [from |-> change[s].from, to |-> change[s].to]
  <2>1. /\ change[s].at = "log"
        /\ statusLog' = [statusLog EXCEPT ![u] = Append(@, e)]
        /\ change' = [change EXCEPT ![s] = NoChange]
        /\ UNCHANGED <<account, unlogged, since>>
    BY <1>6 DEF LogStatus
  <2>2. u \in Agent /\ e \in LogEntry
    BY <1>1, <2>1 DEF NoChangeWhole, NoChange, ChangeRec, LogEntry
  <2>3. Whole(v)
    BY <1>2, <2>1
  <2>4. CASE v # u
    BY <1>1, <1>3, <2>1, <2>3, <2>4, WholeStays DEF Handles
  <2>5. CASE v = u
    <3>1. PICK new \in LogEntry : new = e
      BY <2>2
    <3>2. /\ statusLog'[v] = Append(statusLog[v], new) /\ statusLog[v] \in Seq(LogEntry)
          /\ account' = account /\ since' = since
      BY <1>1, <2>1, <2>2, <2>5, <3>1
    <3>3. LastIs(v, new.from) /\ account[v].status = new.to
      BY <2>1, <2>3, <2>5, <3>1 DEF Whole, Handles
    <3>4. \A t \in StatusChange : ~ Handles(t, v)'
      <4>1. \A t \in StatusChange : Handles(t, v) => t = s
        BY <2>3, <2>5 DEF Handles, Whole
      <4>2. change'[s].agent = NoAgent /\ \A t \in StatusChange \ {s} : change'[t] = change[t]
        BY <1>1, <1>3, <2>1
      <4> QED
        BY <1>3, <4>1, <4>2 DEF Handles
    <3>5. LET log == Append(statusLog[v], new) IN
          /\ \A i \in (since[v] + 2)..Len(log) : log[i].from = log[i - 1].to
          /\ log[Len(log)].to = new.to
      <4>1. \A i \in (since[v] + 2)..Len(statusLog[v]) : statusLog[v][i].from = statusLog[v][i - 1].to
        BY <2>3 DEF Whole
      <4>2. Len(statusLog[v]) > since[v] => statusLog[v][Len(statusLog[v])].to = new.from
        BY <3>3 DEF LastIs
      <4> QED
        BY <1>1, <3>2, <4>1, <4>2, AppendChained
    <3> QED
      BY <3>2, <3>3, <3>4, <3>5 DEF Whole, Engaged, LastIs
  <2> QED
    BY <2>4, <2>5
<1>7. ASSUME NEW s \in StatusChange, ChangeFails(s) PROVE Whole(v)'
  <2>1. /\ change' = [change EXCEPT ![s] = NoChange]
        /\ unlogged' = IF change[s].at = "log" THEN unlogged \cup {change[s].agent} ELSE unlogged
        /\ UNCHANGED <<account, statusLog, since>>
    BY <1>7 DEF ChangeFails
  <2>2. Whole(v)
    BY <1>2, <2>1
  <2>3. CASE ~ Handles(s, v)
    BY <1>1, <1>3, <2>1, <2>2, <2>3, WholeStays DEF Handles
  <2>4. CASE Handles(s, v)
    <3>1. change[s].at = "write"
      BY <2>1, <2>2, <2>4 DEF Whole, Handles
    <3>2. LastIs(v, account[v].status)
      BY <2>2, <2>4, <3>1 DEF Whole
    <3>3. \A t \in StatusChange : ~ Handles(t, v)'
      BY <1>1, <1>3, <2>1, <2>2, <2>4 DEF Handles, Whole
    <3> QED
      BY <2>1, <2>2, <3>2, <3>3 DEF Whole, LastIs, Engaged
  <2> QED
    BY <2>3, <2>4
<1>8. ASSUME NEW u \in Agent, SignInOrOut(u) PROVE Whole(v)'
  <2>1. v # u /\ v \notin unlogged /\ account'[v] = account[v] /\ UNCHANGED <<statusLog, change, since>>
    BY <1>1, <1>8 DEF SignInOrOut
  <2> QED
    BY <1>2, <2>1, WholeStays
<1>9. ASSUME NEW u \in Agent, NEW b \in BOOLEAN,
             Deactivate(u) \/ UpdateMember(u, b) \/ CheckMember(u) \/ AddMember(u)
               \/ RemoveMember(u) \/ LookUpExtension(u) \/ RegisterSession(u)
               \/ Heartbeat(u) \/ UnregisterSession(u)
      PROVE  Whole(v)'
  <2>1. UNCHANGED <<statusLog, change, unlogged, since>>
    BY <1>9 DEF Deactivate, UpdateMember, CheckMember, AddMember, RemoveMember, LookUpExtension,
                RegisterSession, Heartbeat, UnregisterSession
  <2>2. account'[v].status = account[v].status
    <3>1. account' = account \/ account' = [account EXCEPT ![u].active = FALSE]
      BY <1>9 DEF Deactivate, UpdateMember, CheckMember, AddMember, RemoveMember, LookUpExtension,
                  RegisterSession, Heartbeat, UnregisterSession
    <3>2. ASSUME account' = [account EXCEPT ![u].active = FALSE]
          PROVE  account'[v].status = account[v].status
      BY <1>1, <3>2 DEF Account
    <3> QED
      BY <3>1, <3>2
  <2> QED
    BY <1>2, <2>1, <2>2, WholeStays
<1>10. CASE UNCHANGED agentVars
  BY <1>2, <1>10, WholeStays DEF agentVars
<1> QED
  <2>1. CASE \E s \in StatusChange :
               \/ \E u \in Agent, to \in AgentStatus : ReadStatus(s, u, to)
               \/ WriteStatus(s) \/ LogStatus(s) \/ ChangeFails(s)
    BY <1>4, <1>5, <1>6, <1>7, <2>1
  <2>2. CASE AgentsNext /\ ~ \E s \in StatusChange :
               \/ \E u \in Agent, to \in AgentStatus : ReadStatus(s, u, to)
               \/ WriteStatus(s) \/ LogStatus(s) \/ ChangeFails(s)
    BY <1>8, <1>9, <2>2, AgentsAssumption DEF AgentsNext
  <2> QED
    BY <1>10, <2>1, <2>2

\* Nobody becomes active again, so who passes the check of addMember() was employed; and
\* nothing but registering lists a session.
RecordsInv ==
  /\ AgentsTypeOK
  /\ \A u \in Agent : member[u] # "no" \/ u \in joining \/ account[u].active => u \in Employed
  /\ \A u \in Agent : (phone[u].known /\ ~ phone[u].ended) <=> (lastCall[u] = "register")

LEMMA RecordsStep == RecordsInv /\ [AgentsNext]_agentVars => RecordsInv'
<1> SUFFICES ASSUME RecordsInv, [AgentsNext]_agentVars, NEW v \in Agent
             PROVE  /\ member'[v] # "no" \/ v \in joining' \/ account'[v].active => v \in Employed
                    /\ (phone'[v].known /\ ~ phone'[v].ended) <=> (lastCall'[v] = "register")
  BY AgentsTypeStep DEF RecordsInv
<1>1. /\ account \in [Agent -> Account] /\ change \in [StatusChange -> ChangeRec]
      /\ phone \in [Agent -> [known : BOOLEAN, ended : BOOLEAN, registered : BOOLEAN]]
      /\ lastCall \in [Agent -> {"none", "register", "unregister"}]
      /\ member \in [Agent -> {"no", "ready", "paused"}]
      /\ member[v] # "no" \/ v \in joining \/ account[v].active => v \in Employed
      /\ (phone[v].known /\ ~ phone[v].ended) <=> (lastCall[v] = "register")
  BY DEF RecordsInv, AgentsTypeOK, ChangeRec
<1>2. ASSUME NEW s \in StatusChange,
             \/ \E u \in Agent, to \in AgentStatus : ReadStatus(s, u, to)
             \/ WriteStatus(s) \/ LogStatus(s) \/ ChangeFails(s)
      PROVE  /\ account'[v].active = account[v].active
             /\ UNCHANGED <<member, joining, phone, lastCall>>
  <2>1. \/ account' = account
        \/ account' = [account EXCEPT ![change[s].agent].status = change[s].to]
    BY <1>2 DEF ReadStatus, WriteStatus, LogStatus, ChangeFails
  <2>2. account'[v].active = account[v].active
    BY <1>1, <2>1 DEF Account
  <2> QED
    BY <1>2, <2>2 DEF ReadStatus, WriteStatus, LogStatus, ChangeFails
<1>3. ASSUME NEW u \in Agent, SignInOrOut(u)
      PROVE  /\ account'[v].active = account[v].active
             /\ UNCHANGED <<member, joining, phone, lastCall>>
  BY <1>1, <1>3 DEF SignInOrOut, Account
<1>4. ASSUME NEW u \in Agent, Deactivate(u)
      PROVE  /\ account'[v].active => account[v].active
             /\ UNCHANGED <<member, joining, phone, lastCall>>
  BY <1>1, <1>4 DEF Deactivate, Account
<1>5. ASSUME NEW u \in Agent, NEW b \in BOOLEAN,
             CheckMember(u) \/ AddMember(u) \/ UpdateMember(u, b) \/ RemoveMember(u)
      PROVE  /\ member'[v] # "no" \/ v \in joining'
                   => member[v] # "no" \/ v \in joining \/ account[v].active
             /\ UNCHANGED <<account, phone, lastCall>>
  BY <1>1, <1>5 DEF CheckMember, AddMember, UpdateMember, RemoveMember
<1>6. ASSUME NEW u \in Agent,
             LookUpExtension(u) \/ RegisterSession(u) \/ Heartbeat(u) \/ UnregisterSession(u)
      PROVE  /\ (phone'[v].known /\ ~ phone'[v].ended) <=> (lastCall'[v] = "register")
             /\ UNCHANGED <<account, member, joining>>
  <2>1. CASE LookUpExtension(u)
    BY <1>1, <2>1 DEF LookUpExtension
  <2>2. CASE RegisterSession(u)
    BY <1>1, <2>2 DEF RegisterSession
  <2>3. CASE Heartbeat(u)
    BY <1>1, <2>3 DEF Heartbeat
  <2>4. CASE UnregisterSession(u)
    BY <1>1, <2>4 DEF UnregisterSession
  <2> QED
    BY <1>6, <2>1, <2>2, <2>3, <2>4
<1>7. CASE UNCHANGED agentVars
  BY <1>1, <1>7 DEF agentVars
<1> QED
  <2>1. CASE \E s \in StatusChange :
               \/ \E u \in Agent, to \in AgentStatus : ReadStatus(s, u, to)
               \/ WriteStatus(s) \/ LogStatus(s) \/ ChangeFails(s)
    <3>1. /\ account'[v].active = account[v].active
          /\ UNCHANGED <<member, joining, phone, lastCall>>
      BY <1>2, <2>1
    <3> QED
      BY <1>1, <3>1
  <2>2. CASE \E u \in Agent : SignInOrOut(u) \/ Deactivate(u)
    BY <1>1, <1>3, <1>4, <2>2
  <2>3. CASE \E u \in Agent : \/ \E b \in BOOLEAN : UpdateMember(u, b)
                             \/ CheckMember(u) \/ AddMember(u) \/ RemoveMember(u)
    <3>1. TRUE \in BOOLEAN
      OBVIOUS
    <3> QED
      BY <1>1, <1>5, <2>3, <3>1
  <2>4. CASE \E u \in Agent : LookUpExtension(u) \/ RegisterSession(u) \/ Heartbeat(u)
                               \/ UnregisterSession(u)
    BY <1>1, <1>6, <2>4
  <2> QED
    BY <1>7, <2>1, <2>2, <2>3, <2>4, AgentsAssumption DEF AgentsNext

\* Logs, members and sessions tell what happened to the agents, but for what
\* AgentsAreAccountedFor excepts.
THEOREM AgentsStayAccountedFor == AgentsSpec => []AgentsAreAccountedFor
<1>1. AgentsInit => LogsInv /\ RecordsInv
  <2> SUFFICES ASSUME AgentsInit PROVE LogsInv /\ RecordsInv
    OBVIOUS
  <2>1. \A u \in Agent : /\ statusLog[u] = <<>> /\ since[u] = 0 /\ member[u] = "no"
                         /\ phone[u].known = FALSE /\ lastCall[u] = "none"
    BY DEF AgentsInit, NoSession
  <2>2. Len(<<>>) = 0 /\ \A s \in StatusChange, u \in Agent : ~ Handles(s, u)
    BY AgentsAssumption DEF AgentsInit, NoChange, Handles
  <2>3. \A u \in Agent : Whole(u)
    BY <2>1, <2>2 DEF Whole, LastIs
  <2> QED
    BY <2>1, <2>3, AgentsTypeInit DEF LogsInv, RecordsInv, AgentsInit
<1>2. LogsInv /\ RecordsInv => AgentsAreAccountedFor
  BY DEF LogsInv, Whole, LastIs, RecordsInv, AgentsAreAccountedFor, Chained, ListedSessions
<1> QED
  BY <1>1, <1>2, LogsStep, RecordsStep, PTL DEF AgentsSpec

-----------------------------------------------------------------------------
(* Flows and their executions.                                             *)

\* FlowsHoldTogether, and that an execution which is about to be created has not
\* ended.
FlowsInv ==
  /\ FlowsTypeOK
  /\ FlowsHoldTogether
  /\ \A r \in Run : run[r].at = "reads" => run[r].status = "RUNNING" /\ ~ run[r].finished

LEMMA NoRunIsTyped ==
  NoRun \in [at : {"none", "reads", "row"}, flow : Flow \cup {NoFlow},
             node : Node \cup {NoNode}, status : RunStatus, finished : BOOLEAN]
BY DEF NoRun, RunStatus

LEMMA FlowsTypeStep == FlowsTypeOK /\ [FlowsNext]_flowVars => FlowsTypeOK'
<1> SUFFICES ASSUME FlowsTypeOK, [FlowsNext]_flowVars PROVE FlowsTypeOK'
  OBVIOUS
<1> USE DEF FlowsTypeOK
<1>1. ASSUME NEW f \in Flow, NEW b \in Blueprint, CreateFromBlueprint(f, b)
      PROVE  FlowsTypeOK'
  <2>1. b.nodes \subseteq Node /\ b.start \in Node /\ b.links \subseteq Node \X Node
    BY FlowsAssumption
  <2>2. {<<f, l[1], l[2]>> : l \in b.links} \subseteq Flow \X Node \X Node
    BY <2>1
  <2> QED
    BY <1>1, <2>1, <2>2 DEF CreateFromBlueprint
<1>2. ASSUME NEW f \in Flow, NEW start \in Node \cup {NoNode},
             CreateFlow(f, start) \/ UpdateFlow(f, start)
      PROVE  FlowsTypeOK'
  <2>1. CASE CreateFlow(f, start)
    BY <2>1 DEF CreateFlow
  <2>2. CASE UpdateFlow(f, start)
    <3>1. flow' = [flow EXCEPT ![f] = [flow[f] EXCEPT !.start = start]]
      BY <2>2 DEF UpdateFlow
    <3>2. [flow[f] EXCEPT !.start = start] \in [made : BOOLEAN, start : Node \cup {NoNode}]
      OBVIOUS
    <3> QED
      BY <2>2, <3>1, <3>2 DEF UpdateFlow
  <2> QED
    BY <1>2, <2>1, <2>2
<1>3. ASSUME NEW f \in Flow, NEW m \in Node, NEW n \in Node,
             AddNode(f, n) \/ AddConnection(f, m, n)
      PROVE  FlowsTypeOK'
  BY <1>3 DEF AddNode, AddConnection
<1>4. ASSUME NEW n \in Node, DeleteNode(n) PROVE FlowsTypeOK'
  BY <1>4 DEF DeleteNode, Nodes
<1>5. ASSUME NEW l \in links, DeleteConnection(l) PROVE FlowsTypeOK'
  BY <1>5 DEF DeleteConnection
<1>12. ASSUME NEW f \in Flow, NEW m \in Node, NEW n \in Node, UpdateNode(n, f, m)
       PROVE  FlowsTypeOK'
  <2> DEFINE renamed(x) == IF x = n THEN m ELSE x
  <2>1. /\ node[n] \in Flow /\ node' = [node EXCEPT ![n] = NoFlow, ![m] = f]
        /\ links' = {<<l[1], renamed(l[2]), renamed(l[3])>> : l \in links}
        /\ run' = [r \in Run |-> IF run[r].at = "row" THEN [run[r] EXCEPT !.node = renamed(@)]
                                  ELSE run[r]]
        /\ redrawn' = redrawn \cup {node[n], f} /\ UNCHANGED <<flow, unstamped, revived>>
    BY <1>12 DEF UpdateNode, Nodes
  <2>2. \A x \in Node \cup {NoNode} : /\ renamed(x) \in Node \cup {NoNode}
                                      /\ x \in Node => renamed(x) \in Node
    OBVIOUS
  <2>3. links' \subseteq Flow \X Node \X Node
    BY <2>1, <2>2
  <2>4. run' \in [Run -> [at : {"none", "reads", "row"}, flow : Flow \cup {NoFlow},
                          node : Node \cup {NoNode}, status : RunStatus, finished : BOOLEAN]]
    BY <2>1, <2>2
  <2> QED
    BY <2>1, <2>3, <2>4
<1>6. ASSUME NEW r \in Run, NEW f \in Flow, StartReads(r, f) PROVE FlowsTypeOK'
  <2>1. PICK n \in {flow[f].start} \cup Node :
          run' = [run EXCEPT ![r] = [NoRun EXCEPT !.at = "reads", !.flow = f, !.node = n]]
    BY <1>6 DEF StartReads
  <2>2. n \in Node \cup {NoNode}
    OBVIOUS
  <2> QED
    BY <1>6, <2>1, <2>2, NoRunIsTyped DEF StartReads
<1>7. ASSUME NEW r \in Run, StartExecution(r) PROVE FlowsTypeOK'
  BY <1>7, NoRunIsTyped DEF StartExecution
<1>8. ASSUME NEW r \in Run, NEW n \in Node \cup {NoNode},
             NEW status \in RunStatus \cup {"as it is"},
             NEW finished \in {"as it is", "date", "null"},
             UpdateExecution(r, n, status, finished)
      PROVE  FlowsTypeOK'
  <2>1. \A old \in BOOLEAN : Stamped(old, status, finished) \in BOOLEAN
    BY DEF Stamped
  <2> DEFINE st == IF status = "as it is" THEN run[r].status ELSE status
             end == Stamped(run[r].finished, status, finished)
             new == [run[r] EXCEPT !.node = n, !.status = st, !.finished = end]
  <2>2. run' = [run EXCEPT ![r] = new]
    BY <1>8 DEF UpdateExecution
  <2>3. st \in RunStatus /\ end \in BOOLEAN
    BY <2>1
  <2> HIDE DEF st, end
  <2>4. new \in [at : {"none", "reads", "row"}, flow : Flow \cup {NoFlow},
                 node : Node \cup {NoNode}, status : RunStatus, finished : BOOLEAN]
    BY <2>3
  <2> HIDE DEF new
  <2>5. run' \in [Run -> [at : {"none", "reads", "row"}, flow : Flow \cup {NoFlow},
                          node : Node \cup {NoNode}, status : RunStatus, finished : BOOLEAN]]
    BY <2>2, <2>4
  <2> QED
    BY <1>8, <2>5 DEF UpdateExecution
<1>9. CASE UNCHANGED flowVars
  BY <1>9 DEF flowVars
<1> HIDE DEF FlowsTypeOK
<1>10. CASE Drawing
  BY <1>1, <1>2, <1>3, <1>4, <1>5, <1>10, <1>12 DEF Drawing
<1>11. CASE Executing
  BY <1>6, <1>7, <1>8, <1>11 DEF Executing
<1> QED
  BY <1>9, <1>10, <1>11 DEF FlowsNext

LEMMA FlowsTypeInit == FlowsInit => FlowsTypeOK
BY NoRunIsTyped DEF FlowsInit, FlowsTypeOK

\* What FlowsHoldTogether says of one execution, of one flow and of the links.
RunHolds(r) ==
  run[r].at = "row" =>
    /\ run[r].node \in Nodes \cup {NoNode}
    /\ r \notin unstamped => /\ run[r].status \in Final => run[r].finished
                             /\ run[r].finished => run[r].status \in Final \/ r \in revived

\* An execution that is about to be created has not ended.
StartsFresh(r) == run[r].at = "reads" => run[r].status = "RUNNING" /\ ~ run[r].finished

FlowHolds(f) ==
  f \in redrawn \/ (flow[f].made => flow[f].start \in Nodes /\ node[flow[f].start] = f)

LinksHold == \A l \in links : {l[2], l[3]} \subseteq Nodes

LEMMA HoldsByParts ==
  FlowsInv <=> /\ FlowsTypeOK /\ LinksHold
               /\ \A r \in Run : RunHolds(r) /\ StartsFresh(r)
               /\ \A f \in Flow : FlowHolds(f)
BY DEF FlowsInv, FlowsHoldTogether, LinksHold, RunHolds, StartsFresh, FlowHolds

LEMMA DrawingHolds ==
  ASSUME FlowsInv, FlowsTypeOK', Drawing
  PROVE  FlowsInv'
<1> USE DEF FlowsTypeOK
<1>0. /\ FlowsTypeOK /\ LinksHold /\ \A r \in Run : RunHolds(r) /\ StartsFresh(r)
      /\ \A f \in Flow : FlowHolds(f)
  BY HoldsByParts DEF FlowsInv
<1> SUFFICES /\ LinksHold' /\ \A r \in Run : RunHolds(r)' /\ StartsFresh(r)'
             /\ \A f \in Flow : FlowHolds(f)'
  BY DEF FlowsInv, FlowsHoldTogether, LinksHold, RunHolds, StartsFresh, FlowHolds
\* Steps that remove no node and leave the executions alone.
<1>1. ASSUME Nodes \subseteq Nodes', UNCHANGED <<run, unstamped, revived>>
      PROVE  \A r \in Run : RunHolds(r)' /\ StartsFresh(r)'
  BY <1>0, <1>1 DEF RunHolds, StartsFresh
<1>2. ASSUME NEW f \in Flow, NEW b \in Blueprint, CreateFromBlueprint(f, b)
      PROVE  /\ LinksHold' /\ \A r \in Run : RunHolds(r)' /\ StartsFresh(r)'
             /\ \A g \in Flow : FlowHolds(g)'
  <2>1. /\ b.nodes \subseteq Node /\ b.start \in b.nodes
        /\ b.links \subseteq b.nodes \X b.nodes /\ b.nodes \cap Nodes = {}
    BY <1>2, FlowsAssumption DEF CreateFromBlueprint
  <2>2. /\ \A n \in b.nodes : node'[n] = f
        /\ \A n \in Node \ b.nodes : node'[n] = node[n]
        /\ Nodes' = Nodes \cup b.nodes
    BY <1>2, <2>1, FlowsAssumption DEF CreateFromBlueprint, Nodes
  <2>3. LinksHold'
    BY <1>0, <1>2, <2>1, <2>2 DEF CreateFromBlueprint, LinksHold
  <2>4. ASSUME NEW g \in Flow PROVE FlowHolds(g)'
    <3>1. CASE g = f
      BY <1>2, <2>1, <2>2, <3>1 DEF CreateFromBlueprint, FlowHolds
    <3>2. CASE g # f
      <4>1. flow'[g] = flow[g] /\ redrawn' = redrawn
        BY <1>2, <3>2 DEF CreateFromBlueprint
      <4> QED
        BY <1>0, <2>1, <2>2, <4>1 DEF FlowHolds, Nodes
    <3> QED
      BY <3>1, <3>2
  <2> QED
    BY <1>1, <1>2, <2>2, <2>3, <2>4 DEF CreateFromBlueprint
<1>3. ASSUME NEW f \in Flow, NEW start \in Node \cup {NoNode},
             CreateFlow(f, start) \/ UpdateFlow(f, start)
      PROVE  /\ LinksHold' /\ \A r \in Run : RunHolds(r)' /\ StartsFresh(r)'
             /\ \A g \in Flow : FlowHolds(g)'
  <2>1. UNCHANGED <<node, links, run, unstamped, revived>> /\ Nodes' = Nodes
    BY <1>3 DEF CreateFlow, UpdateFlow, Nodes
  <2>2. ASSUME NEW g \in Flow PROVE FlowHolds(g)'
    <3>1. \/ g \in redrawn'
          \/ /\ g \in redrawn' <=> g \in redrawn
             /\ flow'[g].made = flow[g].made /\ flow'[g].start = flow[g].start
      BY <1>3 DEF CreateFlow, UpdateFlow
    <3> QED
      BY <1>0, <2>1, <3>1 DEF FlowHolds
  <2> QED
    BY <1>0, <1>1, <2>1, <2>2 DEF LinksHold
<1>4. ASSUME NEW f \in Flow, NEW n \in Node, AddNode(f, n)
      PROVE  /\ LinksHold' /\ \A r \in Run : RunHolds(r)' /\ StartsFresh(r)'
             /\ \A g \in Flow : FlowHolds(g)'
  <2>1. /\ UNCHANGED <<flow, links, run, redrawn, unstamped, revived>>
        /\ \A m \in Nodes : node'[m] = node[m]
        /\ Nodes \subseteq Nodes'
    BY <1>4, FlowsAssumption DEF AddNode, Nodes
  <2> QED
    BY <1>0, <1>1, <2>1 DEF LinksHold, FlowHolds
<1>5. ASSUME NEW f \in Flow, NEW m \in Node, NEW n \in Node, AddConnection(f, m, n)
      PROVE  /\ LinksHold' /\ \A r \in Run : RunHolds(r)' /\ StartsFresh(r)'
             /\ \A g \in Flow : FlowHolds(g)'
  <2>1. /\ UNCHANGED <<flow, node, run, redrawn, unstamped, revived>> /\ Nodes' = Nodes
        /\ links' = links \cup {<<f, m, n>>} /\ {m, n} \subseteq Nodes
    BY <1>5 DEF AddConnection, Nodes
  <2> QED
    BY <1>0, <1>1, <2>1 DEF LinksHold, FlowHolds
<1>6. ASSUME NEW n \in Node, DeleteNode(n)
      PROVE  /\ LinksHold' /\ \A r \in Run : RunHolds(r)' /\ StartsFresh(r)'
             /\ \A g \in Flow : FlowHolds(g)'
  <2>1. /\ n \in Nodes /\ node' = [node EXCEPT ![n] = NoFlow]
        /\ links' = {l \in links : n \notin {l[2], l[3]}}
        /\ run' = [r \in Run |-> IF run[r].at = "row" /\ run[r].node = n
                                   THEN [run[r] EXCEPT !.node = NoNode] ELSE run[r]]
        /\ redrawn' = redrawn \cup {node[n]} /\ UNCHANGED <<flow, unstamped, revived>>
    BY <1>6 DEF DeleteNode
  <2>2. Nodes' = Nodes \ {n} /\ \A m \in Nodes' : node'[m] = node[m]
    BY <2>1 DEF Nodes
  <2>3. LinksHold'
    BY <1>0, <2>1, <2>2 DEF LinksHold
  <2>4. ASSUME NEW r \in Run PROVE RunHolds(r)' /\ StartsFresh(r)'
    <3>1. /\ run'[r].at = run[r].at /\ run'[r].status = run[r].status
          /\ run'[r].finished = run[r].finished
          /\ run'[r].node = IF run[r].at = "row" /\ run[r].node = n THEN NoNode
                            ELSE run[r].node
      BY <2>1
    <3> QED
      BY <1>0, <2>1, <2>2, <3>1 DEF RunHolds, StartsFresh
  <2>5. ASSUME NEW g \in Flow PROVE FlowHolds(g)'
    BY <1>0, <2>1, <2>2 DEF FlowHolds
  <2> QED
    BY <2>3, <2>4, <2>5
<1>7. ASSUME NEW l \in links, DeleteConnection(l)
      PROVE  /\ LinksHold' /\ \A r \in Run : RunHolds(r)' /\ StartsFresh(r)'
             /\ \A g \in Flow : FlowHolds(g)'
  <2>1. /\ UNCHANGED <<flow, node, run, redrawn, unstamped, revived>> /\ Nodes' = Nodes
        /\ links' \subseteq links
    BY <1>7 DEF DeleteConnection, Nodes
  <2> QED
    BY <1>0, <1>1, <2>1 DEF LinksHold, FlowHolds
<1>8. ASSUME NEW f \in Flow, NEW m \in Node, NEW n \in Node, UpdateNode(n, f, m)
      PROVE  /\ LinksHold' /\ \A r \in Run : RunHolds(r)' /\ StartsFresh(r)'
             /\ \A g \in Flow : FlowHolds(g)'
  <2> DEFINE renamed(x) == IF x = n THEN m ELSE x
  <2>1. /\ n \in Nodes /\ (m = n \/ node[m] = NoFlow)
        /\ node' = [node EXCEPT ![n] = NoFlow, ![m] = f]
        /\ links' = {<<l[1], renamed(l[2]), renamed(l[3])>> : l \in links}
        /\ run' = [r \in Run |-> IF run[r].at = "row" THEN [run[r] EXCEPT !.node = renamed(@)]
                                  ELSE run[r]]
        /\ redrawn' = redrawn \cup {node[n], f} /\ UNCHANGED <<flow, unstamped, revived>>
    BY <1>8 DEF UpdateNode
  <2>2. /\ m \in Nodes' /\ \A x \in Nodes : x # n => x \in Nodes' /\ node'[x] = node[x]
    BY <2>1, FlowsAssumption DEF Nodes
  <2>3. /\ \A x \in Nodes : renamed(x) \in Nodes'
        /\ \A x \in Nodes \cup {NoNode} : renamed(x) \in Nodes' \cup {NoNode}
    BY <2>2
  <2>4. LinksHold'
    BY <1>0, <2>1, <2>3 DEF LinksHold
  <2>5. ASSUME NEW r \in Run PROVE RunHolds(r)' /\ StartsFresh(r)'
    <3>1. /\ run'[r].at = run[r].at /\ run'[r].status = run[r].status
          /\ run'[r].finished = run[r].finished
          /\ run[r].at = "row" => run'[r].node = renamed(run[r].node)
      BY <2>1
    <3> HIDE DEF renamed
    <3> QED
      BY <1>0, <2>1, <2>3, <3>1 DEF RunHolds, StartsFresh
  <2>6. ASSUME NEW g \in Flow PROVE FlowHolds(g)'
    <3>1. CASE g \in redrawn'
      BY <3>1 DEF FlowHolds
    <3>2. CASE g \notin redrawn'
      <4>1. g \notin redrawn /\ g # node[n]
        BY <2>1, <3>2
      <4>2. flow[g].made => flow[g].start \in Nodes /\ node[flow[g].start] = g
        BY <1>0, <4>1 DEF FlowHolds
      <4>3. flow[g].made => flow[g].start \in Nodes' /\ node'[flow[g].start] = g
        BY <2>2, <4>1, <4>2
      <4> QED
        BY <2>1, <4>3 DEF FlowHolds
    <3> QED
      BY <3>1, <3>2
  <2> QED
    BY <2>4, <2>5, <2>6
<1> QED
  BY <1>2, <1>3, <1>4, <1>5, <1>6, <1>7, <1>8 DEF Drawing

LEMMA ExecutingHolds ==
  ASSUME FlowsInv, FlowsTypeOK', Executing
  PROVE  FlowsInv'
<1> DEFINE RunType == [at : {"none", "reads", "row"}, flow : Flow \cup {NoFlow},
                       node : Node \cup {NoNode}, status : RunStatus, finished : BOOLEAN]
<1>0. /\ run \in [Run -> RunType] /\ LinksHold /\ \A r \in Run : RunHolds(r) /\ StartsFresh(r)
      /\ \A f \in Flow : FlowHolds(f)
  BY HoldsByParts DEF FlowsInv, FlowsTypeOK
<1>1. ASSUME NEW r \in Run, NEW f \in Flow, StartReads(r, f)
      PROVE  /\ \A x \in Run : RunHolds(x)' /\ StartsFresh(x)'
             /\ UNCHANGED <<flow, node, links, redrawn>>
  <2>1. PICK n : run' = [run EXCEPT ![r] = [NoRun EXCEPT !.at = "reads", !.flow = f, !.node = n]]
    BY <1>1 DEF StartReads
  <2>2. UNCHANGED <<flow, node, links, redrawn, unstamped, revived>> /\ Nodes' = Nodes
    BY <1>1 DEF StartReads, Nodes
  <2>3. run'[r].at = "reads" /\ run'[r].status = "RUNNING" /\ ~ run'[r].finished
    BY <1>0, <2>1 DEF NoRun
  <2>4. ASSUME NEW x \in Run PROVE RunHolds(x)' /\ StartsFresh(x)'
    <3>1. x # r => run'[x] = run[x]
      BY <1>0, <2>1
    <3> QED
      BY <1>0, <2>2, <2>3, <3>1 DEF RunHolds, StartsFresh
  <2> QED
    BY <2>2, <2>4
<1>2. ASSUME NEW r \in Run, StartExecution(r)
      PROVE  /\ \A x \in Run : RunHolds(x)' /\ StartsFresh(x)'
             /\ UNCHANGED <<flow, node, links, redrawn>>
  <2>1. UNCHANGED <<flow, node, links, redrawn, unstamped, revived>> /\ Nodes' = Nodes
    BY <1>2 DEF StartExecution, Nodes
  <2>2. \/ run'[r] = NoRun
        \/ /\ run[r].at = "reads" /\ run[r].node \in Nodes \cup {NoNode}
           /\ run'[r].node = run[r].node /\ run'[r].status = run[r].status
           /\ run'[r].finished = run[r].finished /\ run'[r].at = "row"
    BY <1>0, <1>2 DEF StartExecution
  <2>3. ASSUME NEW x \in Run PROVE RunHolds(x)' /\ StartsFresh(x)'
    <3>1. CASE x # r
      <4>1. run'[x] = run[x]
        BY <1>0, <1>2, <3>1 DEF StartExecution
      <4> QED
        BY <1>0, <2>1, <4>1 DEF RunHolds, StartsFresh
    <3>2. CASE x = r
      BY <1>0, <2>1, <2>2, <3>2 DEF RunHolds, StartsFresh, NoRun, Final
    <3> QED
      BY <3>1, <3>2
  <2> QED
    BY <2>1, <2>3
<1>3. ASSUME NEW r \in Run, NEW n \in Node \cup {NoNode},
             NEW status \in RunStatus \cup {"as it is"},
             NEW finished \in {"as it is", "date", "null"},
             UpdateExecution(r, n, status, finished)
      PROVE  /\ \A x \in Run : RunHolds(x)' /\ StartsFresh(x)'
             /\ UNCHANGED <<flow, node, links, redrawn>>
  <2>1. /\ run[r].at = "row" /\ n \in Nodes \cup {run[r].node}
        /\ run' = [run EXCEPT ![r].node = n,
                              ![r].status = IF status = "as it is" THEN @ ELSE status,
                              ![r].finished = Stamped(@, status, finished)]
        /\ unstamped' = IF finished # "as it is" THEN unstamped \cup {r} ELSE unstamped
        /\ revived' = IF run[r].status \in Final /\ status = "RUNNING"
                        THEN revived \cup {r} ELSE revived
        /\ UNCHANGED <<flow, node, links, redrawn>> /\ Nodes' = Nodes
    BY <1>3 DEF UpdateExecution, Nodes
  <2>2. /\ run'[r].at = "row" /\ run'[r].node = n
        /\ run'[r].status = IF status = "as it is" THEN run[r].status ELSE status
        /\ run'[r].finished = Stamped(run[r].finished, status, finished)
        /\ \A x \in Run : x # r => run'[x] = run[x]
    BY <1>0, <2>1
  <2> DEFINE old == run[r]
  <2>4. /\ r \notin unstamped => /\ old.status \in Final => old.finished
                                 /\ old.finished => old.status \in Final \/ r \in revived
        /\ old.node \in Nodes \cup {NoNode}
        /\ old.finished \in BOOLEAN /\ old.status \in RunStatus
    BY <1>0, <2>1 DEF RunHolds
  <2>5. \A x \in Run : x # r => (x \in unstamped' <=> x \in unstamped)
                               /\ (x \in revived' <=> x \in revived)
    BY <2>1
  <2>3. ASSUME NEW x \in Run PROVE RunHolds(x)' /\ StartsFresh(x)'
    <3>1. CASE x # r
      <4>1. run'[x] = run[x] /\ RunHolds(x) /\ StartsFresh(x)
        BY <1>0, <2>2, <3>1
      <4>2. (x \in unstamped' <=> x \in unstamped) /\ (x \in revived' <=> x \in revived)
        BY <2>5, <3>1
      <4>3. Nodes' = Nodes
        BY <2>1
      <4> QED
        BY <4>1, <4>2, <4>3 DEF RunHolds, StartsFresh
    <3>2. CASE x = r
      <4>1. run'[r].node \in Nodes' \cup {NoNode} /\ run'[r].at = "row"
        BY <2>1, <2>2, <2>4
      <4>2. r \notin unstamped' =>
              /\ run'[r].status \in Final => run'[r].finished
              /\ run'[r].finished => run'[r].status \in Final \/ r \in revived'
        <5> SUFFICES ASSUME finished = "as it is", r \notin unstamped
                     PROVE  /\ run'[r].status \in Final => run'[r].finished
                            /\ run'[r].finished => run'[r].status \in Final \/ r \in revived'
          BY <2>1
        <5>1. CASE status = "as it is"
          <6>1. run'[r].status = old.status /\ run'[r].finished = old.finished
                /\ revived' = revived
            BY <2>1, <2>2, <5>1 DEF Stamped, Final
          <6> QED
            BY <2>4, <6>1
        <5>2. CASE status \in Final
          <6>1. run'[r].status = status /\ run'[r].finished = TRUE
            BY <2>2, <5>2 DEF Stamped, Final
          <6> QED
            BY <5>2, <6>1
        <5>3. CASE status = "RUNNING"
          <6>1. /\ run'[r].status = "RUNNING" /\ run'[r].finished = old.finished
                /\ "RUNNING" \notin Final
            BY <2>2, <5>3 DEF Stamped, Final
          <6>2. run'[r].finished => r \in revived'
            BY <2>1, <2>4, <5>3, <6>1
          <6> QED
            BY <6>1, <6>2
        <5> QED
          BY <5>1, <5>2, <5>3 DEF RunStatus
      <4> QED
        BY <3>2, <4>1, <4>2 DEF RunHolds, StartsFresh
    <3> QED
      BY <3>1, <3>2
  <2> QED
    BY <2>1, <2>3
<1>4. /\ \A x \in Run : RunHolds(x)' /\ StartsFresh(x)'
      /\ UNCHANGED <<flow, node, links, redrawn>>
  BY <1>1, <1>2, <1>3 DEF Executing
<1>5. LinksHold' /\ \A f \in Flow : FlowHolds(f)'
  BY <1>0, <1>4 DEF LinksHold, FlowHolds, Nodes
<1> QED
  BY <1>4, <1>5 DEF FlowsInv, FlowsHoldTogether, LinksHold, RunHolds, StartsFresh, FlowHolds

LEMMA FlowsInvHolds == FlowsSpec => []FlowsInv
<1>1. FlowsInit => FlowsInv
  BY FlowsTypeInit DEF FlowsInit, FlowsInv, FlowsHoldTogether, NoRun
<1>2. FlowsInv /\ [FlowsNext]_flowVars => FlowsInv'
  <2> SUFFICES ASSUME FlowsInv, [FlowsNext]_flowVars PROVE FlowsInv'
    OBVIOUS
  <2>1. FlowsTypeOK'
    BY FlowsTypeStep DEF FlowsInv
  <2>2. CASE UNCHANGED flowVars
    BY <2>1, <2>2 DEF flowVars, FlowsInv, FlowsHoldTogether, Nodes
  <2> QED
    BY <2>1, <2>2, DrawingHolds, ExecutingHolds DEF FlowsNext
<1> QED
  BY <1>1, <1>2, PTL DEF FlowsSpec

\* Rows of flows, nodes, connections and executions keep their types.
THEOREM FlowsTypeCorrect == FlowsSpec => []FlowsTypeOK
BY FlowsInvHolds, PTL DEF FlowsInv

\* Executions stand at nodes there are and have their ends, and what was made of a
\* blueprint holds together until it is redrawn.
THEOREM FlowsStayTogether == FlowsSpec => []FlowsHoldTogether
BY FlowsInvHolds, PTL DEF FlowsInv

-----------------------------------------------------------------------------
(* The service desk page.                                                  *)

SendRec == [at : {"none", "paused", "sent", "ok", "error"}, text : Text \cup {NoText},
            talk : Talk \cup {NoTalk}]

\* A send under way carries what was entered, or goes where it went astray; since it
\* began, the input has held its text, nothing, or a text that was typed meanwhile.
SendHolds(p) ==
  sending[p] # NoSend =>
    /\ sending[p].at # "none"
    /\ sending[p].text \in Text
    /\ sending[p].at \in {"sent", "ok"} =>
         <<sending[p].text, sending[p].talk>> \in entered \cup astray
    /\ message \in {sending[p].text, NoText} \cup typedThen
    /\ sending[p].at = "ok" => <<sending[p].text, sending[p].talk>> \in said

DeskInv ==
  /\ DeskPageTypeOK
  /\ TypedIsSentOrKept
  /\ \A p \in SendSlot : SendHolds(p)

LEMMA DeskInvStep == DeskInv /\ [DeskNext]_deskVars => DeskInv'
<1> SUFFICES ASSUME DeskInv, [DeskNext]_deskVars PROVE DeskInv'
  OBVIOUS
<1>0. /\ DeskPageTypeOK /\ TypedIsSentOrKept /\ \A p \in SendSlot : SendHolds(p)
      /\ sending \in [SendSlot -> SendRec] /\ said \subseteq entered \cup astray
  BY DEF DeskInv, DeskPageTypeOK, SendRec, TypedIsSentOrKept
\* Steps that are not about the input and the sends.
<1>1. ASSUME UNCHANGED <<message, sending, said, sends, typedThen, entered, astray, wiped>>,
             listed' \subseteq Talk, selectedConv' \in Talk \cup {NoTalk},
             turning' \subseteq Talk
      PROVE  DeskInv'
  BY <1>0, <1>1 DEF DeskInv, DeskPageTypeOK, TypedIsSentOrKept, SendHolds
<1>2. CASE \E S \in SUBSET Talk : ConversationsArrive(S)
  BY <1>0, <1>1, <1>2 DEF ConversationsArrive, DeskPageTypeOK
<1>3. CASE \E t \in Talk : Select(t) \/ Turned(t)
  BY <1>0, <1>1, <1>3 DEF Select, Turned, DeskPageTypeOK
<1>4. CASE Turn
  BY <1>0, <1>1, <1>4 DEF Turn, Displayed, DeskPageTypeOK
<1>6. ASSUME NEW x \in Text, Type(x) PROVE DeskInv'
  <2>1. /\ message' = x
        /\ typedThen' = IF SendsUnderWay # {} THEN typedThen \cup {x} ELSE typedThen
        /\ UNCHANGED <<listed, selectedConv, sending, turning, said, sends, entered,
                       astray, wiped>>
    BY <1>6 DEF Type
  <2>2. DeskPageTypeOK' /\ TypedIsSentOrKept'
    BY <1>0, <2>1 DEF DeskPageTypeOK, TypedIsSentOrKept
  <2>3. ASSUME NEW p \in SendSlot PROVE SendHolds(p)'
    BY <1>0, <2>1 DEF SendHolds, SendsUnderWay
  <2> QED
    BY <2>2, <2>3 DEF DeskInv
<1>7. ASSUME NEW p \in SendSlot, HandleSend(p) PROVE DeskInv'
  <2>1. /\ selectedConv \in Talk /\ message \in Text /\ sends < MaxSends
        /\ sending' \in Sends(p)
        /\ sends' = sends + 1
        /\ entered' = entered \cup {<<message, selectedConv>>}
        /\ UNCHANGED <<listed, selectedConv, message, turning, said, typedThen, astray, wiped>>
    BY <1>0, <1>7 DEF HandleSend, Enter, Displayed, DeskPageTypeOK
  <2>2. PICK new \in {[at |-> "sent", text |-> message, talk |-> selectedConv],
                      [at |-> "paused", text |-> message, talk |-> NoTalk]} :
          sending' = [q \in SendSlot |->
                        IF q = p THEN new
                        ELSE IF sending[q].at = "paused" /\ sending[q].talk = NoTalk
                               THEN [sending[q] EXCEPT !.talk = selectedConv]
                        ELSE sending[q]]
    BY <2>1 DEF Sends
  <2>3. /\ new \in SendRec /\ new.at \in {"sent", "paused"} /\ new.text = message
        /\ new.at = "sent" => new.talk = selectedConv
    BY <2>1, <2>2 DEF SendRec
  <2>4. sends' \in 0..MaxSends
    BY <1>0, <2>1, DeskPageAssumption DEF DeskPageTypeOK
  <2>5. ASSUME NEW q \in SendSlot, q # p
        PROVE  /\ sending'[q] \in SendRec /\ sending'[q].at = sending[q].at
               /\ sending'[q].text = sending[q].text
               /\ sending[q].at # "paused" => sending'[q] = sending[q]
               /\ sending'[q] # NoSend => sending[q] # NoSend
    <3>1. CASE sending[q].at = "paused" /\ sending[q].talk = NoTalk
      <4>1. sending'[q] = [sending[q] EXCEPT !.talk = selectedConv]
        BY <2>2, <2>5, <3>1
      <4> QED
        BY <1>0, <2>1, <3>1, <4>1 DEF SendRec, NoSend
    <3>2. CASE ~ (sending[q].at = "paused" /\ sending[q].talk = NoTalk)
      BY <1>0, <2>2, <2>5, <3>2
    <3> QED
      BY <3>1, <3>2
  <2>6. sending'[p] = new
    BY <2>2
  <2>7. sending' \in [SendSlot -> SendRec]
    <3>1. \A q \in SendSlot : sending'[q] \in SendRec
      BY <2>3, <2>5, <2>6
    <3>2. sending' = [q \in SendSlot |-> sending'[q]]
      BY <2>2
    <3> QED
      BY <3>1, <3>2
  <2>8. DeskPageTypeOK'
    BY <1>0, <2>1, <2>4, <2>7 DEF DeskPageTypeOK, SendRec, Said
  <2>9. TypedIsSentOrKept'
    BY <1>0, <2>1 DEF TypedIsSentOrKept
  <2>10. ASSUME NEW q \in SendSlot PROVE SendHolds(q)'
    <3>1. CASE q = p
      BY <2>1, <2>3, <2>6, <3>1 DEF SendHolds
    <3>2. CASE q # p
      BY <1>0, <2>1, <2>5, <3>2 DEF SendHolds
    <3> QED
      BY <3>1, <3>2
  <2> QED
    BY <2>8, <2>9, <2>10 DEF DeskInv
<1>5. ASSUME NEW p \in SendSlot, SendGoesOn(p) PROVE DeskInv'
  <2> DEFINE to == IF sending[p].talk = NoTalk THEN selectedConv ELSE sending[p].talk
             at == IF to = NoTalk THEN "error" ELSE "sent"
             new == [sending[p] EXCEPT !.at = at, !.talk = to]
  <2>1. /\ sending[p].at = "paused" /\ sending[p] \in SendRec
        /\ sending' = [sending EXCEPT ![p].at = at, ![p].talk = to]
        /\ astray' = IF to = NoTalk THEN astray ELSE astray \cup {<<sending[p].text, to>>}
        /\ UNCHANGED <<listed, selectedConv, message, turning, said, sends, typedThen,
                       entered, wiped>>
    BY <1>0, <1>5 DEF SendGoesOn
  <2>2. to \in Talk \cup {NoTalk} /\ at \in {"error", "sent"}
    BY <1>0, <2>1 DEF DeskPageTypeOK, SendRec
  <2>3. at = "sent" => <<sending[p].text, to>> \in astray' /\ to \in Talk
    BY <2>1, <2>2
  <2> HIDE DEF to, at
  <2>4. /\ new \in SendRec /\ new.at = at /\ new.text = sending[p].text /\ new.talk = to
        /\ sending' = [sending EXCEPT ![p] = new]
    BY <1>0, <2>1, <2>2 DEF SendRec
  <2> HIDE DEF new
  <2>5. /\ sending' \in [SendSlot -> SendRec] /\ sending'[p] = new
        /\ \A q \in SendSlot \ {p} : sending'[q] = sending[q]
    BY <1>0, <2>4
  <2>6. sending[p] # NoSend
    BY <2>1 DEF NoSend
  <2>7. sending[p].text \in Text /\ message \in {sending[p].text, NoText} \cup typedThen
    BY <1>0, <2>6 DEF SendHolds
  <2>8. astray \subseteq astray' /\ astray' \subseteq Said
    BY <1>0, <2>1, <2>2, <2>7 DEF DeskPageTypeOK, Said
  <2>9. DeskPageTypeOK'
    BY <1>0, <2>1, <2>5, <2>8 DEF DeskPageTypeOK, SendRec
  <2>10. TypedIsSentOrKept'
    BY <1>0, <2>1, <2>8 DEF TypedIsSentOrKept
  <2>11. ASSUME NEW q \in SendSlot PROVE SendHolds(q)'
    <3>1. CASE q = p
      BY <2>1, <2>2, <2>3, <2>4, <2>5, <2>7, <3>1 DEF SendHolds
    <3>2. CASE q # p
      BY <1>0, <2>1, <2>5, <2>8, <3>2 DEF SendHolds
    <3> QED
      BY <3>1, <3>2
  <2> QED
    BY <2>9, <2>10, <2>11 DEF DeskInv
<1>8. ASSUME NEW p \in SendSlot, SendServed(p) PROVE DeskInv'
  <2>1. PICK at \in {"ok", "error"} :
          /\ sending' = [sending EXCEPT ![p].at = at] /\ sending[p].at = "sent"
          /\ \/ said' = said \cup {<<sending[p].text, sending[p].talk>>}
             \/ said' = said /\ at = "error"
          /\ UNCHANGED <<listed, selectedConv, message, turning, sends, typedThen,
                         entered, astray, wiped>>
    BY <1>0, <1>8 DEF SendServed, SendRec
  <2> DEFINE new == [sending[p] EXCEPT !.at = at]
  <2>2. /\ new \in SendRec /\ new.at = at /\ new.text = sending[p].text
        /\ new.talk = sending[p].talk /\ sending' = [sending EXCEPT ![p] = new]
    BY <1>0, <2>1 DEF SendRec
  <2> HIDE DEF new
  <2>3. /\ sending' \in [SendSlot -> SendRec] /\ sending'[p] = new
        /\ \A q \in SendSlot \ {p} : sending'[q] = sending[q]
    BY <1>0, <2>2
  <2>4. sending[p] # NoSend
    BY <2>1 DEF NoSend
  <2>5. /\ <<sending[p].text, sending[p].talk>> \in entered \cup astray
        /\ sending[p].text \in Text
        /\ message \in {sending[p].text, NoText} \cup typedThen
        /\ said \subseteq said' /\ said' \subseteq entered \cup astray
    BY <1>0, <2>1, <2>4 DEF SendHolds
  <2>6. DeskPageTypeOK'
    BY <1>0, <2>1, <2>3, <2>5 DEF DeskPageTypeOK, SendRec
  <2>7. TypedIsSentOrKept'
    BY <1>0, <2>1, <2>5 DEF TypedIsSentOrKept
  <2>8. ASSUME NEW q \in SendSlot PROVE SendHolds(q)'
    <3>1. CASE q = p
      BY <2>1, <2>2, <2>3, <2>5, <3>1 DEF SendHolds
    <3>2. CASE q # p
      BY <1>0, <2>1, <2>3, <2>5, <3>2 DEF SendHolds
    <3> QED
      BY <3>1, <3>2
  <2> QED
    BY <2>6, <2>7, <2>8 DEF DeskInv
<1>9. ASSUME NEW p \in SendSlot, SendAnswered(p) PROVE DeskInv'
  <2>1. /\ sending[p].at \in {"ok", "error"}
        /\ sending' = [sending EXCEPT ![p] = NoSend]
        /\ UNCHANGED <<listed, selectedConv, turning, said, sends, typedThen, entered,
                       astray>>
        /\ \/ /\ sending[p].at = "ok" /\ message' = NoText
              /\ wiped' = wiped \cup ({message} \ {NoText})
           \/ UNCHANGED <<message, wiped>>
    BY <1>9 DEF SendAnswered
  <2>2. NoSend \in SendRec /\ sending[p] # NoSend
    BY <2>1 DEF NoSend, SendRec
  <2>3. /\ sending' \in [SendSlot -> SendRec] /\ sending'[p] = NoSend
        /\ \A q \in SendSlot \ {p} : sending'[q] = sending[q]
    BY <1>0, <2>1, <2>2
  <2>4. DeskPageTypeOK'
    BY <1>0, <2>1, <2>3 DEF DeskPageTypeOK, SendRec
  <2>5. TypedIsSentOrKept'
    <3>1. CASE UNCHANGED <<message, wiped>>
      BY <1>0, <2>1, <3>1 DEF TypedIsSentOrKept
    <3>2. CASE sending[p].at = "ok" /\ wiped' = wiped \cup ({message} \ {NoText})
      <4>1. /\ <<sending[p].text, sending[p].talk>> \in said
            /\ message \in {sending[p].text, NoText} \cup typedThen
        BY <1>0, <2>2, <3>2 DEF SendHolds
      <4>2. sending[p].talk \in Talk
        BY <1>0, <4>1 DEF DeskPageTypeOK, Said
      <4> QED
        BY <1>0, <2>1, <3>2, <4>1, <4>2 DEF TypedIsSentOrKept
    <3> QED
      BY <2>1, <3>1, <3>2
  <2>6. ASSUME NEW q \in SendSlot PROVE SendHolds(q)'
    <3>1. CASE q = p
      BY <2>3, <3>1 DEF SendHolds
    <3>2. CASE q # p
      BY <1>0, <2>1, <2>3, <3>2 DEF SendHolds
    <3> QED
      BY <3>1, <3>2
  <2> QED
    BY <2>4, <2>5, <2>6 DEF DeskInv
<1>10. CASE UNCHANGED deskVars
  BY <1>0, <1>1, <1>10 DEF deskVars, DeskPageTypeOK
<1> QED
  BY <1>2, <1>3, <1>4, <1>5, <1>6, <1>7, <1>8, <1>9, <1>10 DEF DeskNext

LEMMA DeskInvHolds == DeskSpec => []DeskInv
<1>1. DeskInit => DeskInv
  BY DeskPageAssumption
     DEF DeskInit, DeskInv, DeskPageTypeOK, TypedIsSentOrKept, SendHolds, NoSend, Said
<1> QED
  BY <1>1, DeskInvStep, PTL DEF DeskSpec

\* The page's list, input and sends keep their types.
THEOREM DeskPageTypeCorrect == DeskSpec => []DeskPageTypeOK
BY DeskInvHolds, PTL DEF DeskInv

\* No answer takes a text out of the input that was neither stored nor typed while a
\* send was under way, and what is stored was entered where it is, or went astray.
THEOREM TypedStaysOrIsSent == DeskSpec => []TypedIsSentOrKept
BY DeskInvHolds, PTL DEF DeskInv

-----------------------------------------------------------------------------
(* The PABX page.                                                          *)

\* A list that was not excused and is not being fetched shows the reported writes,
\* unless it is hidden and will be fetched when it is shown; nor did the fetch that
\* is about to arrive read the rows too early.
UpToDate(q) ==
  /\ list[q].fetch = "no" /\ list[q].loaded /\ (q \in Shown \/ ~ list[q].stale)
       => list[q].age >= told
  /\ list[q].fetch = "read" => list[q].seen >= told

\* Every write that was carried out was made.
Uncarried == {c \in Call : request[c].kind # "none" /\ request[c].at = "sent"}

PageInv ==
  /\ PageTypeOK
  /\ IsFiniteSet(Uncarried)
  /\ carried + Cardinality(Uncarried) <= writes
  /\ \A q \in List : q \in excused \/ UpToDate(q)

\* The ways a fetch begins.
LEMMA FetchBegins ==
  ASSUME NEW l \in ListState
  PROVE  /\ Sent(l) \in ListState /\ Sent(l).fetch = "sent" /\ Sent(l).stale = l.stale
         /\ Joined(l) \in ListState /\ Joined(l).fetch # "no"
         /\ l.fetch # "no" => Joined(l) = l
         /\ l.fetch = "no" => Joined(l) = Sent(l)
         /\ Restarted(l) \in ListState /\ Restarted(l).fetch # "no"
         /\ Restarted(l) = IF l.loaded THEN Sent(l) ELSE Joined(l)
<1>1. 0 \in 0..MaxWrites
  BY PabxPageAssumption
<1>2. Sent(l) \in ListState /\ Sent(l).fetch = "sent" /\ Sent(l).stale = l.stale
  BY <1>1 DEF Sent, ListState
<1>3. /\ Joined(l) \in ListState /\ Joined(l).fetch # "no"
      /\ l.fetch # "no" => Joined(l) = l
      /\ l.fetch = "no" => Joined(l) = Sent(l)
  BY <1>2 DEF Joined
<1> QED
  BY <1>2, <1>3 DEF Restarted

LEMMA UnloadedIsTyped == Unloaded \in ListState
BY PabxPageAssumption DEF Unloaded, ListState

\* A step about one list, which excuses it or leaves it up to date.
LEMMA OneListMoves ==
  ASSUME PageInv, NEW q \in List, NEW l \in ListState, list' = [list EXCEPT ![q] = l],
         UNCHANGED <<request, writes, carried, told, dialog>>,
         tab' \in Tab, Shown' \subseteq Shown \cup {q},
         excused' \subseteq List, excused \ {q} \subseteq excused',
         \/ q \in excused'
         \/ /\ l.fetch = "no" /\ l.loaded => l.age >= told
            /\ l.fetch = "read" => l.seen >= told
  PROVE  PageInv'
<1>1. list \in [List -> ListState] /\ list'[q] = l /\ \A x \in List \ {q} : list'[x] = list[x]
  BY DEF PageInv, PageTypeOK
<1>2. PageTypeOK'
  BY <1>1 DEF PageInv, PageTypeOK
<1>3. ASSUME NEW x \in List PROVE x \in excused' \/ UpToDate(x)'
  BY <1>1 DEF PageInv, UpToDate
<1>4. Uncarried' = Uncarried
  BY DEF Uncarried
<1> QED
  BY <1>2, <1>3, <1>4 DEF PageInv

\* A step that moves requests only.
LEMMA RequestsMove ==
  ASSUME PageInv, request' \in [Call -> WriteState], dialog' \in BOOLEAN,
         UNCHANGED <<tab, list, told, excused>>, writes' \in 0..MaxWrites,
         carried' \in Nat, carried <= carried',
         IsFiniteSet(Uncarried)', (carried + Cardinality(Uncarried) <= writes)'
  PROVE  PageInv'
<1>1. PageTypeOK'
  <2>1. Cardinality(Uncarried') \in Nat
    BY FS_CardinalityType
  <2>2. carried' \in 0..writes' /\ told' \in 0..carried'
    BY <2>1, PabxPageAssumption DEF PageInv, PageTypeOK
  <2> QED
    BY <2>2 DEF PageInv, PageTypeOK
<1>2. \A q \in List : q \in excused' \/ UpToDate(q)'
  BY DEF PageInv, UpToDate, Shown
<1> QED
  BY <1>1, <1>2 DEF PageInv

LEMMA BeginsKeeps ==
  ASSUME PageInv, NEW kind \in {"save", "delete", "apply"}, Begins(kind)
  PROVE  PageInv'
<1> DEFINE new == [kind |-> kind, at |-> "sent", here |-> TRUE]
<1>1. PICK c \in Call : request[c] = Idle /\ request' = [request EXCEPT ![c] = new]
  BY DEF Begins
<1>2. /\ writes < MaxWrites /\ writes' = writes + 1
      /\ UNCHANGED <<tab, dialog, list, carried, told, excused>>
      /\ writes \in Nat /\ MaxWrites \in Nat /\ carried \in Nat
      /\ request \in [Call -> WriteState] /\ dialog \in BOOLEAN
      /\ IsFiniteSet(Uncarried) /\ Cardinality(Uncarried) \in Nat
      /\ carried + Cardinality(Uncarried) <= writes
  BY PabxPageAssumption, FS_CardinalityType DEF Begins, PageInv, PageTypeOK
<1>3. /\ new \in WriteState /\ new.kind # "none" /\ new.at = "sent"
  BY DEF WriteState
<1> HIDE DEF new
<1>4. /\ request' \in [Call -> WriteState] /\ request'[c] = new
      /\ \A x \in Call \ {c} : request'[x] = request[x]
  BY <1>1, <1>2, <1>3
<1>5. Uncarried' = Uncarried \cup {c} /\ c \notin Uncarried
  BY <1>1, <1>3, <1>4 DEF Uncarried, Idle
<1>6. IsFiniteSet(Uncarried') /\ Cardinality(Uncarried') = Cardinality(Uncarried) + 1
  BY <1>2, <1>5, FS_AddElement
<1> QED
  BY <1>2, <1>4, <1>6, RequestsMove

LEMMA CarryOutKeeps ==
  ASSUME PageInv, NEW c \in Call, CarryOut(c)
  PROVE  PageInv'
<1>1. PICK at \in {"done", "failed"} :
        /\ request' = [request EXCEPT ![c].at = at]
        /\ carried' \in {carried, carried + 1}
  BY DEF CarryOut
<1>2. /\ request[c].kind # "none" /\ request[c].at = "sent"
      /\ UNCHANGED <<tab, dialog, list, writes, told, excused>>
      /\ writes \in 0..MaxWrites /\ writes \in Nat /\ carried \in Nat
      /\ request \in [Call -> WriteState] /\ dialog \in BOOLEAN
      /\ IsFiniteSet(Uncarried) /\ Cardinality(Uncarried) \in Nat
      /\ carried + Cardinality(Uncarried) <= writes
  BY PabxPageAssumption, FS_CardinalityType DEF CarryOut, PageInv, PageTypeOK
<1>3. /\ request' \in [Call -> WriteState] /\ request'[c].at = at
      /\ \A x \in Call \ {c} : request'[x] = request[x]
  BY <1>1, <1>2 DEF WriteState
<1>4. Uncarried' = Uncarried \ {c} /\ c \in Uncarried
  BY <1>2, <1>3 DEF Uncarried
<1>5. IsFiniteSet(Uncarried') /\ Cardinality(Uncarried') = Cardinality(Uncarried) - 1
  BY <1>2, <1>4, FS_RemoveElement
<1>6. carried' \in Nat /\ carried <= carried' /\ carried' + Cardinality(Uncarried') <= writes
  BY <1>1, <1>2, <1>5
<1> QED
  BY <1>2, <1>3, <1>5, <1>6, RequestsMove

LEMMA AnswerKeeps ==
  ASSUME PageInv, NEW c \in Call, Answer(c)
  PROVE  PageInv'
<1>1. /\ request[c].at # "sent" /\ request' = [request EXCEPT ![c] = Idle]
      /\ UNCHANGED <<tab, writes, carried>> /\ dialog' \in BOOLEAN
      /\ \/ UNCHANGED <<told, list, excused>>
         \/ told' = carried /\ Invalidated
  BY DEF Answer, PageInv, PageTypeOK
<1>2. /\ request \in [Call -> WriteState] /\ list \in [List -> ListState]
      /\ tab \in Tab /\ writes \in 0..MaxWrites /\ carried \in 0..writes /\ told \in 0..carried
      /\ writes \in Nat /\ carried \in Nat /\ told \in Nat /\ excused \subseteq List
      /\ IsFiniteSet(Uncarried) /\ carried + Cardinality(Uncarried) <= writes
      /\ \A q \in List : q \in excused \/ UpToDate(q)
  BY PabxPageAssumption DEF PageInv, PageTypeOK
<1>3. request' \in [Call -> WriteState]
  BY <1>1, <1>2 DEF Idle, WriteState
<1>4. Uncarried' = Uncarried
  BY <1>1, <1>2 DEF Uncarried, Idle
<1>5. CASE UNCHANGED <<told, list, excused>>
  BY <1>1, <1>2, <1>3, <1>4, <1>5, RequestsMove
<1>6. CASE told' = carried /\ Invalidated
  <2> DEFINE marked(q) == [list[q] EXCEPT !.stale = TRUE]
  <2>1. \A q \in List : /\ marked(q) \in ListState /\ marked(q).loaded = list[q].loaded
                        /\ marked(q).fetch = list[q].fetch /\ marked(q).stale = TRUE
                        /\ marked(q).seen = list[q].seen
    BY <1>2 DEF ListState
  <2>2. /\ list' = [q \in List |-> IF q \in Shown THEN Restarted(marked(q)) ELSE marked(q)]
        /\ excused' = excused \cup {q \in List : list[q].fetch # "no"
                                                   /\ (q \notin Shown \/ ~ list[q].loaded)}
    BY <1>6 DEF Invalidated
  <2> HIDE DEF marked
  <2>3. ASSUME NEW q \in List
        PROVE  list'[q] \in ListState /\ (q \in excused' \/ UpToDate(q)')
    <3>1. Shown' = Shown /\ told' = carried
      BY <1>1, <1>6 DEF Shown
    <3>2. CASE q \in Shown /\ list[q].loaded
      <4>1. list'[q] = Sent(marked(q))
        BY <2>1, <2>2, <3>2 DEF Restarted
      <4>2. Sent(marked(q)) \in ListState /\ Sent(marked(q)).fetch = "sent"
        BY <2>1, FetchBegins
      <4> QED
        BY <4>1, <4>2 DEF UpToDate
    <3>3. CASE q \in Shown /\ ~ list[q].loaded /\ list[q].fetch = "no"
      <4>1. Restarted(marked(q)) = Sent(marked(q))
        BY <2>1, <3>3 DEF Restarted, Joined
      <4>2. list'[q] = Sent(marked(q))
        BY <2>2, <3>3, <4>1
      <4>3. Sent(marked(q)) \in ListState /\ Sent(marked(q)).fetch = "sent"
        BY <2>1, FetchBegins
      <4> QED
        BY <4>2, <4>3 DEF UpToDate
    <3>4. CASE q \in Shown /\ ~ list[q].loaded /\ list[q].fetch # "no"
      BY <2>1, <2>2, <3>4, FetchBegins
    <3>5. CASE q \notin Shown
      <4>1. list'[q] = marked(q)
        BY <2>2, <3>5
      <4>2. CASE list[q].fetch = "no"
        BY <2>1, <3>1, <3>5, <4>1, <4>2 DEF UpToDate
      <4>3. CASE list[q].fetch # "no"
        BY <2>1, <2>2, <3>5, <4>1, <4>3
      <4> QED
        BY <4>2, <4>3
    <3> QED
      BY <3>2, <3>3, <3>4, <3>5
  <2>4. list' \in [List -> ListState]
    BY <2>2, <2>3
  <2>5. PageTypeOK'
    BY <1>1, <1>2, <1>3, <1>6, <2>2, <2>4 DEF PageTypeOK
  <2> QED
    BY <1>1, <1>2, <1>4, <2>3, <2>5 DEF PageInv
<1> QED
  BY <1>1, <1>5, <1>6

LEMMA PageInvStep == PageInv /\ [PageNext]_pageVars => PageInv'
<1> SUFFICES ASSUME PageInv, [PageNext]_pageVars PROVE PageInv'
  OBVIOUS
<1>0. /\ list \in [List -> ListState] /\ request \in [Call -> WriteState]
      /\ tab \in Tab /\ tab \in List /\ dialog \in BOOLEAN
      /\ carried \in Nat /\ told \in Nat /\ told <= carried
      /\ carried \in 0..MaxWrites /\ excused \subseteq List
      /\ \A q \in List : q \in excused \/ UpToDate(q)
  BY PabxPageAssumption DEF PageInv, PageTypeOK, List
<1>1. ASSUME NEW q \in List, Poll(q) PROVE PageInv'
  <2>1. /\ list' = [list EXCEPT ![q] = Joined(list[q])] /\ q \in Shown
        /\ UNCHANGED <<tab, dialog, request, writes, carried, told, excused>>
    BY <1>1 DEF Poll
  <2>2. /\ Joined(list[q]) \in ListState /\ Joined(list[q]).fetch # "no"
        /\ Joined(list[q]).fetch = "read" => Joined(list[q]) = list[q]
    BY <1>0, FetchBegins
  <2> QED
    BY <1>0, <2>1, <2>2, OneListMoves DEF UpToDate, Shown
<1>2. CASE Refresh
  <2>1. /\ list' = [list EXCEPT ![tab] = Restarted(list[tab])]
        /\ excused' = IF list[tab].loaded THEN excused \ {tab} ELSE excused
        /\ UNCHANGED <<tab, dialog, request, writes, carried, told>>
    BY <1>2 DEF Refresh
  <2> DEFINE l == Restarted(list[tab])
  <2>2. list[tab] \in ListState /\ l \in ListState /\ l.fetch # "no"
    BY <1>0, FetchBegins
  <2>3. l.fetch = "read" => l = list[tab] /\ ~ list[tab].loaded
    <3>1. CASE list[tab].loaded
      <4>1. l = Sent(list[tab]) /\ Sent(list[tab]).fetch = "sent"
        BY <2>2, <3>1, FetchBegins
      <4> QED
        BY <4>1
    <3>2. CASE ~ list[tab].loaded /\ list[tab].fetch = "no"
      <4>1. l = Sent(list[tab]) /\ Sent(list[tab]).fetch = "sent"
        BY <2>2, <3>2, FetchBegins DEF Restarted, Joined
      <4> QED
        BY <4>1
    <3>3. CASE ~ list[tab].loaded /\ list[tab].fetch # "no"
      <4>1. l = list[tab]
        BY <3>3 DEF Restarted, Joined
      <4> QED
        BY <3>3, <4>1
    <3> QED
      BY <3>1, <3>2, <3>3
  <2> HIDE DEF l
  <2>4. tab \in excused' \/ (l.fetch = "read" => l.seen >= told)
    BY <1>0, <2>1, <2>3 DEF UpToDate
  <2>5. list' = [list EXCEPT ![tab] = l]
    BY <2>1 DEF l
  <2> QED
    BY <1>0, <2>1, <2>2, <2>4, <2>5, OneListMoves DEF Shown
<1>3. ASSUME NEW q \in List, ReadRows(q) PROVE PageInv'
  <2> DEFINE l == [list[q] EXCEPT !.fetch = "read", !.seen = carried]
  <2>1. /\ l \in ListState /\ l.fetch = "read" /\ l.seen = carried
        /\ list' = [list EXCEPT ![q] = l]
        /\ UNCHANGED <<tab, dialog, request, writes, carried, told, excused>>
    BY <1>0, <1>3 DEF ReadRows, ListState
  <2> HIDE DEF l
  <2> QED
    BY <1>0, <2>1, OneListMoves DEF Shown
<1>4. ASSUME NEW q \in List, RowsArrive(q) PROVE PageInv'
  <2> DEFINE l == [loaded |-> TRUE, age |-> list[q].seen, stale |-> FALSE,
                   fetch |-> "no", seen |-> 0]
  <2>1. /\ list[q].fetch = "read" /\ list' = [list EXCEPT ![q] = l]
        /\ excused' = IF list[q].seen >= told THEN excused \ {q} ELSE excused
        /\ UNCHANGED <<tab, dialog, request, writes, carried, told>>
    BY <1>4 DEF RowsArrive
  <2>2. l \in ListState /\ l.fetch = "no" /\ l.age = list[q].seen
    BY <1>0, PabxPageAssumption DEF ListState
  <2> HIDE DEF l
  <2> QED
    BY <1>0, <2>1, <2>2, OneListMoves DEF UpToDate, Shown
<1>5. ASSUME NEW q \in List, RowsFail(q) PROVE PageInv'
  <2> DEFINE l == [list[q] EXCEPT !.fetch = "no", !.seen = 0]
  <2>1. /\ l \in ListState /\ list' = [list EXCEPT ![q] = l] /\ excused' = excused \cup {q}
        /\ UNCHANGED <<tab, dialog, request, writes, carried, told>>
    <3>1. 0 \in 0..MaxWrites /\ list[q] \in ListState
      BY <1>0, PabxPageAssumption
    <3>2. l \in ListState
      BY <3>1 DEF ListState
    <3> QED
      BY <1>5, <3>2 DEF RowsFail
  <2> HIDE DEF l
  <2> QED
    BY <1>0, <2>1, OneListMoves DEF Shown
<1>6. ASSUME NEW t \in Tab, OpenTab(t) PROVE PageInv'
  <2>1. /\ tab' = t /\ UNCHANGED <<dialog, writes, carried, told, excused>>
        /\ request' = [c \in Call |-> IF request[c].kind = "apply" THEN request[c]
                                      ELSE [request[c] EXCEPT !.here = FALSE]]
        /\ \/ list' = [list EXCEPT ![t] = Joined(list[t])]
           \/ list' = list /\ ~ list[t].stale
    BY <1>6 DEF OpenTab
  <2>2. t \in List /\ Shown' \subseteq Shown \cup {t}
    BY <2>1 DEF List, Shown
  <2>3. /\ request' \in [Call -> WriteState] /\ Uncarried' = Uncarried
    BY <1>0, <2>1 DEF WriteState, Uncarried
  <2>4. /\ Joined(list[t]) \in ListState /\ Joined(list[t]).fetch # "no"
        /\ Joined(list[t]).fetch = "read" => Joined(list[t]) = list[t]
    BY <1>0, <2>2, FetchBegins
  <2>5. list' \in [List -> ListState]
    BY <1>0, <2>1, <2>2, <2>4
  <2>6. ASSUME NEW q \in List PROVE q \in excused' \/ UpToDate(q)'
    <3>1. CASE q # t
      <4>1. list'[q] = list[q] /\ (q \in Shown' => q \in Shown)
        BY <1>0, <2>1, <2>2, <3>1
      <4> QED
        BY <1>0, <2>1, <4>1 DEF UpToDate
    <3>2. CASE q = t /\ list' = list /\ ~ list[t].stale
      BY <1>0, <2>1, <3>2 DEF UpToDate
    <3>3. CASE q = t /\ list' = [list EXCEPT ![t] = Joined(list[t])]
      <4>1. list'[q] = Joined(list[t])
        BY <1>0, <2>2, <3>3
      <4> QED
        BY <1>0, <2>1, <2>4, <3>3, <4>1 DEF UpToDate
    <3> QED
      BY <2>1, <3>1, <3>2, <3>3
  <2>7. PageTypeOK'
    BY <2>1, <2>3, <2>5 DEF PageInv, PageTypeOK
  <2> QED
    BY <2>1, <2>3, <2>6, <2>7 DEF PageInv
<1>7. CASE OpenDialog \/ CloseDialog
  <2>1. /\ UNCHANGED <<tab, list, request, writes, carried, told, excused>>
        /\ dialog' \in BOOLEAN
    BY <1>7 DEF OpenDialog, CloseDialog
  <2> QED
    BY <2>1 DEF PageInv, PageTypeOK, UpToDate, Shown, Uncarried
<1>8. CASE PressSave \/ PressApply \/ PressDelete
  BY <1>8, BeginsKeeps DEF PressSave, PressApply, PressDelete
<1>9. CASE UNCHANGED pageVars
  BY <1>9 DEF pageVars, PageInv, PageTypeOK, UpToDate, Shown, Uncarried
<1> QED
  BY <1>1, <1>2, <1>3, <1>4, <1>5, <1>6, <1>7, <1>8, <1>9, CarryOutKeeps, AnswerKeeps
     DEF PageNext

LEMMA PageInvHolds == PageSpec => []PageInv
<1>1. PageInit => PageInv
  <2> SUFFICES ASSUME PageInit PROVE PageInv
    OBVIOUS
  <2>1. PageTypeOK
    <3>1. Unloaded \in ListState /\ Sent(Unloaded) \in ListState
      BY UnloadedIsTyped, FetchBegins
    <3>2. list \in [List -> ListState] /\ request \in [Call -> WriteState]
      BY <3>1 DEF PageInit, Idle, WriteState
    <3>3. /\ tab \in Tab /\ dialog \in BOOLEAN /\ excused \subseteq List
          /\ writes = 0 /\ carried = 0 /\ told = 0
      BY DEF PageInit
    <3>4. writes \in 0..MaxWrites /\ carried \in 0..writes /\ told \in 0..carried
      BY <3>3, PabxPageAssumption
    <3> QED
      BY <3>2, <3>3, <3>4 DEF PageTypeOK
  <2>2. Uncarried = {}
    BY DEF PageInit, Uncarried, Idle
  <2>3. \A q \in List : UpToDate(q)
    BY UnloadedIsTyped, FetchBegins DEF PageInit, UpToDate, Unloaded
  <2>4. carried + Cardinality(Uncarried) <= writes
    BY <2>2, FS_EmptySet DEF PageInit
  <2> QED
    BY <2>1, <2>2, <2>3, <2>4, FS_EmptySet DEF PageInv
<1> QED
  BY <1>1, PageInvStep, PTL DEF PageSpec

\* Tabs, lists, requests and counters keep their types: no more writes are carried
\* out than were made, and no more reported than carried out.
THEOREM PageTypeCorrect == PageSpec => []PageTypeOK
BY PageInvHolds, PTL DEF PageInv

\* No list that the page shows is older than the writes it has reported, however
\* polls, refetches, hidden tabs and answers interleave, but for what OwnWritesShow
\* excuses.
THEOREM ReportedWritesShow == PageSpec => []OwnWritesShow
<1>1. PageInv => OwnWritesShow
  BY DEF PageInv, PageTypeOK, UpToDate, OwnWritesShow, Shown, List
<1> QED
  BY <1>1, PageInvHolds, PTL

-----------------------------------------------------------------------------
(* The forms.                                                              *)

\* What fields of rows were meant to hold, or came to by a POST that went astray.
Told == meant \cup misposted

\* A field of a row may hold what it was told to (M), its mask, or the default when it
\* was empty.
Good(M, r, f, v) ==
  \/ <<r, f, v>> \in M
  \/ v = Mask /\ f \in Masked
  \/ v = "default" /\ <<r, f, Null>> \in M

RowsAreMeant ==
  \A r \in RowId \ Absent : \A f \in Field :
    records[r][f] \in Held /\ Good(Told, r, f, records[r][f])

ListIsMeant ==
  \A r \in RowId : shown[r] # NoRecord =>
    \A f \in Field : shown[r][f] \in Held /\ Good(Told, r, f, shown[r][f])

\* What the form of a row holds untyped was meant for that row; what a new form holds
\* untyped is its default.
FormIsMeant ==
  \A f \in Field : form[f] # "" /\ f \notin typed =>
    /\ editing \in RowId => Good(Told, editing, f, form[f])
    /\ editing = "new" => form[f] = "default"

\* The same of a save under way.
SaveIsMeant ==
  saving.at \notin {"none", "paused"} =>
    \A f \in DOMAIN saving.payload :
      /\ saving.payload[f] \in Held
      /\ saving.row \in RowId => Good(Told, saving.row, f, saving.payload[f])
      /\ saving.row = "new" =>
           \/ saving.payload[f] = "default"
           \/ <<"new", f, saving.payload[f]>> \in meant

CrudInv ==
  /\ CrudTypeOK
  /\ RowsAreMeant /\ ListIsMeant /\ FormIsMeant /\ SaveIsMeant

RowType == [Field -> Held \cup {"absent"}]

LEMMA ContentIsHeld ==
  /\ Content \subseteq Held /\ Null \in Held /\ Mask \in Held /\ "default" \in Held
  /\ Held \subseteq Control /\ "" \in Control /\ NoRecord \in RowType
  /\ Null # Mask /\ Null # "default" /\ Mask # "default"
BY DEF Held, Control, RowType, NoRecord, Null, Mask

LEMMA FormsCount ==
  /\ 0 \in 0..MaxForms
  /\ \A n \in 0..MaxForms : n < MaxForms => n + 1 \in 0..MaxForms
<1>1. MaxForms \in Nat
  BY CrudAssumption
<1> QED
  BY <1>1

LEMMA NoSaveType ==
  NoSave.at = "none" /\ NoSave.row = "new" /\ DOMAIN NoSave.payload = Field
BY DEF NoSave, NoRecord

\* What was meant stays meant.
LEMMA GoodStays ==
  ASSUME Told \subseteq Told', NEW r, NEW f, NEW v, Good(Told, r, f, v)
  PROVE  Good(Told', r, f, v)
BY DEF Good

LEMMA ToldStays ==
  ASSUME meant \subseteq meant', misposted \subseteq misposted'
  PROVE  Told \subseteq Told'
BY DEF Told

LEMMA ListStays ==
  ASSUME ListIsMeant, Told \subseteq Told', UNCHANGED shown
  PROVE  ListIsMeant'
BY GoodStays DEF ListIsMeant

LEMMA FormStays ==
  ASSUME FormIsMeant, Told \subseteq Told', UNCHANGED <<form, typed, editing>>
  PROVE  FormIsMeant'
BY GoodStays DEF FormIsMeant

LEMMA SaveStays ==
  ASSUME SaveIsMeant, Told \subseteq Told', meant \subseteq meant', UNCHANGED saving
  PROVE  SaveIsMeant'
BY GoodStays DEF SaveIsMeant

LEMMA RowsStay ==
  ASSUME RowsAreMeant, Told \subseteq Told', UNCHANGED records
  PROVE  RowsAreMeant'
BY GoodStays DEF RowsAreMeant, Absent

\* A form that shows a row holds what the row holds, its default or nothing.
LEMMA InitialValuesAreMeant ==
  ASSUME ListIsMeant, NEW r \in RowId, shown[r] # NoRecord, NEW f \in Field
  PROVE  /\ InitialValues(shown[r])[f] \in Held \cup {""}
         /\ InitialValues(shown[r])[f] # "" => Good(Told, r, f, InitialValues(shown[r])[f])
<1>1. shown[r][f] \in Held /\ Good(Told, r, f, shown[r][f])
  BY DEF ListIsMeant
<1>2. InitialValues(shown[r])[f] = IF shown[r][f] # Null THEN shown[r][f]
                                   ELSE IF f \in Json THEN "default" ELSE ""
  BY DEF InitialValues
<1>3. shown[r][f] = Null => <<r, f, Null>> \in Told
  BY <1>1, ContentIsHeld DEF Good
<1> QED
  BY <1>1, <1>2, <1>3, ContentIsHeld DEF Good

LEMMA FetchKeeps ==
  ASSUME CrudInv, Fetch
  PROVE  CrudInv'
<1>1. /\ shown' = Fetched
      /\ UNCHANGED <<records, editing, form, saving, formError, typed, forms, meant, misposted>>
  BY DEF Fetch
<1>2. ASSUME NEW r \in RowId, r \notin Absent, NEW f \in Field
      PROVE  Fetched[r][f] \in Held /\ Good(Told, r, f, Fetched[r][f])
  <2>1. Fetched[r][f] = IF f \in Masked /\ records[r][f] # Null THEN Mask ELSE records[r][f]
    BY <1>2 DEF Fetched
  <2> QED
    BY <1>2, <2>1, ContentIsHeld DEF CrudInv, RowsAreMeant, Good
<1>3. \A r \in Absent : Fetched[r] = NoRecord
  BY DEF Fetched, Absent
<1>4. Fetched \in [RowId -> RowType]
  <2>1. ASSUME NEW r \in RowId, r \notin Absent PROVE Fetched[r] \in RowType
    <3>1. Fetched[r] = [f \in Field |-> IF f \in Masked /\ records[r][f] # Null
                                          THEN Mask ELSE records[r][f]]
      BY <2>1 DEF Fetched
    <3>2. \A f \in Field : records[r][f] \in Held
      BY <2>1 DEF CrudInv, RowsAreMeant
    <3> QED
      BY <3>1, <3>2, ContentIsHeld DEF RowType
  <2>2. \A r \in RowId : Fetched[r] \in RowType
    BY <1>3, <2>1, ContentIsHeld
  <2>3. Fetched = [r \in RowId |-> Fetched[r]]
    BY DEF Fetched
  <2> QED
    BY <2>2, <2>3
<1>5. ListIsMeant'
  BY <1>1, <1>2, <1>3 DEF ListIsMeant, Good, Told
<1>6. CrudTypeOK'
  BY <1>1, <1>4 DEF CrudInv, CrudTypeOK, RowType
<1> QED
  BY <1>1, <1>5, <1>6, RowsStay, FormStays, SaveStays, ToldStays DEF CrudInv

\* A form that is opened.
LEMMA OpenedKeeps ==
  ASSUME CrudInv, NEW what \in RowId \cup {"new"}, NEW values \in [Field -> Control],
         Opened(what, values),
         \A f \in Field : values[f] # "" =>
           /\ what \in RowId => Good(Told, what, f, values[f])
           /\ what = "new" => values[f] = "default"
  PROVE  CrudInv'
<1>1. /\ forms < MaxForms /\ forms' = forms + 1 /\ editing' = what /\ form' = values
      /\ formError' = FALSE /\ typed' = {} /\ UNCHANGED <<records, shown, saving, meant, misposted>>
  BY DEF Opened
<1>2. CrudTypeOK'
  <2>1. forms' \in 0..MaxForms
    <3>1. forms \in 0..MaxForms
      BY DEF CrudInv, CrudTypeOK
    <3> QED
      BY <1>1, <3>1, FormsCount
  <2> QED
    BY <1>1, <2>1 DEF CrudInv, CrudTypeOK
<1>3. FormIsMeant'
  BY <1>1 DEF FormIsMeant, Good, Told
<1> QED
  BY <1>1, <1>2, <1>3, RowsStay, ListStays, SaveStays, ToldStays DEF CrudInv

LEMMA OpenKeeps ==
  ASSUME CrudInv, OpenCreate \/ \E r \in RowId : OpenEdit(r)
  PROVE  CrudInv'
<1>1. CASE OpenCreate
  <2>1. Opened("new", DefaultValues) /\ "new" \notin RowId
    BY <1>1, CrudAssumption DEF OpenCreate
  <2>2. DefaultValues \in [Field -> Control] /\ \A f \in Field : DefaultValues[f] = "default"
    BY ContentIsHeld DEF DefaultValues
  <2> QED
    BY <2>1, <2>2, OpenedKeeps
<1>2. ASSUME NEW r \in RowId, OpenEdit(r) PROVE CrudInv'
  <2>1. /\ Opened(r, InitialValues(shown[r])) /\ shown[r] # NoRecord /\ r # "new"
    BY <1>2, CrudAssumption DEF OpenEdit
  <2>2. \A f \in Field :
          /\ InitialValues(shown[r])[f] \in Held \cup {""}
          /\ InitialValues(shown[r])[f] # "" => Good(Told, r, f, InitialValues(shown[r])[f])
    BY <2>1, InitialValuesAreMeant DEF CrudInv
  <2>3. InitialValues(shown[r]) \in [Field -> Control]
    BY <2>2, ContentIsHeld DEF InitialValues
  <2>4. \A f \in Field : InitialValues(shown[r])[f] # "" =>
          /\ r \in RowId => Good(Told, r, f, InitialValues(shown[r])[f])
          /\ r = "new" => InitialValues(shown[r])[f] = "default"
    BY <2>1, <2>2
  <2> HIDE DEF CrudInv
  <2> QED
    BY <2>1, <2>3, <2>4, OpenedKeeps
<1> QED
  BY <1>1, <1>2

LEMMA UpdateKeeps ==
  ASSUME CrudInv, NEW f \in Field, NEW v \in Choices(f), UpdateField(f, v)
  PROVE  CrudInv'
<1>1. /\ form' = [form EXCEPT ![f] = v] /\ typed' = typed \cup {f}
      /\ UNCHANGED <<records, shown, editing, saving, formError, forms, meant, misposted>>
  BY DEF UpdateField
<1>2. v \in Control
  BY ContentIsHeld DEF Choices, Control
<1>3. CrudTypeOK'
  BY <1>1, <1>2 DEF CrudInv, CrudTypeOK
<1>4. \A g \in Field : g \notin typed' => form'[g] = form[g] /\ g \notin typed
  BY <1>1 DEF CrudInv, CrudTypeOK
<1>5. FormIsMeant'
  BY <1>1, <1>4 DEF CrudInv, FormIsMeant, Good, Told
<1> QED
  BY <1>1, <1>3, <1>5, RowsStay, ListStays, SaveStays, ToldStays DEF CrudInv

LEMMA SendKeeps ==
  ASSUME CrudInv, Send
  PROVE  CrudInv'
<1>1. /\ editing \in RowId \cup {"new", "closed"} /\ RowId \cap {"new", "closed"} = {}
      /\ UNCHANGED <<records, shown, editing, form, typed, forms, misposted>>
      /\ form \in [Field -> Control] /\ typed \subseteq Field
  BY CrudAssumption DEF Send, CrudInv, CrudTypeOK
<1>2. CASE \E f \in DOMAIN Payload : Payload[f] = "bad"
  <2>1. formError' = TRUE /\ saving' = NoSave /\ UNCHANGED meant
    BY <1>2 DEF Send
  <2>2. CrudTypeOK'
    BY <1>1, <2>1, NoSaveType DEF CrudInv, CrudTypeOK
  <2>3. SaveIsMeant'
    BY <2>1 DEF SaveIsMeant, NoSave
  <2> QED
    BY <1>1, <2>1, <2>2, <2>3, RowsStay, ListStays, FormStays DEF CrudInv, Told
<1>3. CASE ~ \E f \in DOMAIN Payload : Payload[f] = "bad"
  <2>1. /\ saving' = [at |-> "sent", row |-> editing, payload |-> Payload]
        /\ meant' = meant \cup {<<editing, f, form[f]>> : f \in typed}
        /\ UNCHANGED formError
    BY <1>3 DEF Send
  <2>2. ASSUME NEW f \in DOMAIN Payload
        PROVE  /\ f \in Field /\ Payload[f] = form[f] /\ form[f] # "" /\ form[f] \in Held
    <3>1. f \in Field /\ Payload[f] = form[f] /\ form[f] # ""
      BY DEF Payload, ShownFields
    <3> QED
      BY <1>1, <1>3, <3>1 DEF Control
  <2>3. /\ saving'.at = "sent" /\ saving'.row = editing /\ saving'.payload = Payload
    BY <2>1
  <2>4. meant \subseteq meant' /\ Told \subseteq Told'
    BY <1>1, <2>1 DEF Told
  <2>5. ASSUME NEW f \in DOMAIN Payload
        PROVE  /\ editing \in RowId => Good(Told', editing, f, form[f])
               /\ editing = "new" => form[f] = "default" \/ <<"new", f, form[f]>> \in meant'
    <3>1. CASE f \in typed
      <4>1. <<editing, f, form[f]>> \in meant'
        BY <2>1, <3>1
      <4> QED
        BY <1>1, <4>1 DEF Good, Told
    <3>2. CASE f \notin typed
      <4>1. /\ editing \in RowId => Good(Told, editing, f, form[f])
            /\ editing = "new" => form[f] = "default"
        BY <2>2, <3>2 DEF CrudInv, FormIsMeant
      <4> QED
        BY <2>4, <4>1 DEF Good
    <3> QED
      BY <3>1, <3>2
  <2>6. SaveIsMeant'
    <3> SUFFICES ASSUME NEW f \in DOMAIN Payload
                 PROVE  /\ Payload[f] \in Held
                        /\ editing \in RowId => Good(Told', editing, f, Payload[f])
                        /\ editing = "new" => \/ Payload[f] = "default"
                                              \/ <<"new", f, Payload[f]>> \in meant'
      BY <1>1, <2>3 DEF SaveIsMeant, Good, Told
    <3> QED
      BY <2>2, <2>5
  <2>7. CrudTypeOK'
    <3>1. DOMAIN Payload \subseteq Field
      BY <2>2
    <3> QED
      BY <1>1, <2>1, <2>3, <3>1 DEF CrudInv, CrudTypeOK
  <2> QED
    BY <1>1, <2>4, <2>6, <2>7, RowsStay, ListStays, FormStays DEF CrudInv
<1> QED
  BY <1>2, <1>3

LEMMA SaveKeeps ==
  ASSUME CrudInv, Save \/ SaveOffline \/ Continue
  PROVE  CrudInv'
<1>1. CASE SaveOffline
  <2>1. /\ saving' = [NoSave EXCEPT !.at = "paused"]
        /\ UNCHANGED <<records, shown, editing, form, formError, typed, forms, meant, misposted>>
    BY <1>1 DEF SaveOffline
  <2>2. /\ saving'.at = "paused" /\ saving'.row = NoSave.row
        /\ saving'.payload = NoSave.payload
    BY <2>1 DEF NoSave
  <2>3. SaveIsMeant'
    BY <2>2 DEF SaveIsMeant
  <2>4. CrudTypeOK'
    BY <2>1, <2>2, NoSaveType DEF CrudInv, CrudTypeOK
  <2> QED
    BY <2>1, <2>3, <2>4, RowsStay, ListStays, FormStays DEF CrudInv, Told
<1> QED
  BY <1>1, SendKeeps DEF Save, Continue

LEMMA ServeKeeps ==
  ASSUME CrudInv, Serve
  PROVE  CrudInv'
<1> DEFINE p == saving.payload
<1>1. /\ saving.at = "sent" /\ UNCHANGED <<shown, editing, form, formError, typed, forms>>
      /\ records \in [RowId -> RowType] /\ DOMAIN p \subseteq Field
      /\ \A f \in DOMAIN p :
           /\ p[f] \in Held
           /\ saving.row \in RowId => Good(Told, saving.row, f, p[f])
           /\ saving.row = "new" => p[f] = "default" \/ <<"new", f, p[f]>> \in meant
      /\ \A r \in RowId \ Absent : \A f \in Field :
           records[r][f] \in Held /\ Good(Told, r, f, records[r][f])
  BY DEF Serve, CrudInv, CrudTypeOK, SaveIsMeant, RowsAreMeant, RowType
<1>2. PICK at \in {"done", "refused"} : saving' = [saving EXCEPT !.at = at]
  BY DEF Serve
<1>3. /\ saving'.row = saving.row /\ saving'.payload = p
      /\ saving'.at \in {"none", "paused", "sent", "done", "refused"}
  BY <1>2, <1>1
\* A row that is written, and whose fields are good by then.
<1>4. ASSUME NEW r \in RowId, NEW row \in [Field -> Held],
             records' = [records EXCEPT ![r] = row],
             meant \subseteq meant', misposted \subseteq misposted',
             \A f \in Field : Good(Told', r, f, row[f])
      PROVE  CrudInv'
  <2>1. /\ records' \in [RowId -> RowType] /\ records'[r] = row
        /\ \A x \in RowId \ {r} : records'[x] = records[x]
    BY <1>1, <1>4 DEF RowType
  <2>2. CrudTypeOK'
    BY <1>1, <1>3, <2>1 DEF CrudInv, CrudTypeOK, RowType
  <2>3. Told \subseteq Told'
    BY <1>4 DEF Told
  <2>4. ASSUME NEW x \in RowId, x \notin Absent', NEW f \in Field
        PROVE  records'[x][f] \in Held /\ Good(Told', x, f, records'[x][f])
    <3>1. CASE x = r
      BY <1>4, <2>1, <3>1 DEF Good
    <3>2. CASE x # r
      <4>1. x \notin Absent /\ records'[x] = records[x]
        BY <2>1, <2>4, <3>2 DEF Absent
      <4>2. Good(Told, x, f, records[x][f]) /\ records[x][f] \in Held
        BY <1>1, <4>1
      <4> QED
        BY <2>3, <4>1, <4>2 DEF Good
    <3> QED
      BY <3>1, <3>2
  <2>5. RowsAreMeant'
    BY <2>4 DEF RowsAreMeant, Good, Told
  <2>6. SaveIsMeant'
    BY <1>1, <1>3, <1>4, <2>3 DEF SaveIsMeant, Good
  <2> QED
    BY <1>1, <2>2, <2>3, <2>5, <2>6, ListStays, FormStays DEF CrudInv
<1>5. CASE saving.row \in RowId \ Absent /\ ServePatch(saving.row)
  <2> DEFINE r == saving.row
             row == Patched(records[r], p)
  <2>1. \A f \in Field : row[f] = IF f \in DOMAIN p THEN p[f] ELSE records[r][f]
    BY DEF Patched
  <2>2. \A f \in Field : row[f] \in Held /\ Good(Told, r, f, row[f])
    BY <1>1, <1>5, <2>1
  <2>3. row \in [Field -> Held]
    BY <2>2 DEF Patched
  <2>4. UNCHANGED <<meant, misposted>> /\ records' = [records EXCEPT ![r] = row]
    BY <1>5 DEF ServePatch
  <2>5. \A f \in Field : Good(Told', r, f, row[f])
    BY <2>2, <2>4 DEF Good, Told
  <2> QED
    BY <1>4, <1>5, <2>3, <2>4, <2>5
<1>6. CASE saving.row \in {"new", "closed"} /\ ServePost
  <2> DEFINE found == Twins(p)
  <2>1. PICK r \in IF found = {} THEN Unborn ELSE found :
          LET old == IF found = {} THEN [f \in Field |-> Null] ELSE records[r]
          IN /\ records' = [records EXCEPT ![r] = Patched(old, p)]
             /\ meant' = meant \cup {<<r, f, old[f]>> : f \in IF found = {} THEN Field ELSE {}}
                           \cup {<<r, m[2], m[3]>> : m \in {n \in meant : n[1] = "new"}}
             /\ misposted' =
                  misposted \cup {<<r, f, p[f]>> :
                                    f \in {g \in DOMAIN p : found # {} \/ saving.row = "closed"}}
    BY <1>6 DEF ServePost
  <2> HIDE DEF found
  <2>2. r \in RowId /\ (found # {} => r \in RowId \ Absent)
    BY <2>1 DEF Unborn, Absent, Twins, found
  <2>3. meant \subseteq meant' /\ misposted \subseteq misposted' /\ Told \subseteq Told'
    BY <2>1 DEF Told
  <2> DEFINE old == IF found = {} THEN [f \in Field |-> Null] ELSE records[r]
             row == Patched(old, p)
  <2>4. ASSUME NEW f \in Field PROVE old[f] \in Held /\ Good(Told', r, f, old[f])
    <3>1. CASE found = {}
      <4>1. old[f] = Null
        BY <3>1
      <4>2. <<r, f, Null>> \in {<<r, g, old[g]>> : g \in Field}
        BY <3>1
      <4>3. meant' = meant \cup {<<r, g, old[g]>> : g \in Field}
                       \cup {<<r, m[2], m[3]>> : m \in {n \in meant : n[1] = "new"}}
        BY <2>1, <3>1
      <4> HIDE DEF old
      <4> QED
        BY <4>1, <4>2, <4>3, ContentIsHeld DEF Good, Told
    <3>2. CASE found # {}
      BY <1>1, <2>2, <2>3, <3>2 DEF Good
    <3> QED
      BY <3>1, <3>2
  <2>5. \A f \in Field : row[f] = IF f \in DOMAIN p THEN p[f] ELSE old[f]
    BY DEF Patched
  <2>6. records' = [records EXCEPT ![r] = row]
    BY <2>1
  <2>7. ASSUME NEW f \in Field, f \in DOMAIN p PROVE p[f] \in Held /\ Good(Told', r, f, p[f])
    <3>1. p[f] \in Held
      BY <1>1, <2>7
    <3>2. CASE found # {} \/ saving.row = "closed"
      <4>1. f \in {g \in DOMAIN p : found # {} \/ saving.row = "closed"}
        BY <2>7, <3>2
      <4>2. <<r, f, p[f]>> \in misposted'
        BY <2>1, <4>1
      <4> QED
        BY <3>1, <4>2 DEF Good, Told
    <3>3. CASE found = {} /\ saving.row = "new"
      <4>1. p[f] = "default" \/ <<"new", f, p[f]>> \in meant
        BY <1>1, <2>7, <3>3
      <4>2. ASSUME <<"new", f, p[f]>> \in meant PROVE <<r, f, p[f]>> \in meant'
        <5> DEFINE m == <<"new", f, p[f]>>
        <5>1. m \in {n \in meant : n[1] = "new"} /\ <<r, m[2], m[3]>> = <<r, f, p[f]>>
          BY <4>2
        <5>2. {<<r, k[2], k[3]>> : k \in {n \in meant : n[1] = "new"}} \subseteq meant'
          BY <2>1
        <5> QED
          BY <5>1, <5>2
      <4>3. Good(Told', r, f, Null)
        BY <2>4, <3>3
      <4>4. <<r, f, Null>> \in Told'
        BY <4>3, ContentIsHeld DEF Good
      <4> QED
        BY <3>1, <4>1, <4>2, <4>4 DEF Good, Told
    <3> QED
      BY <1>6, <3>2, <3>3
  <2> HIDE DEF old
  <2>8. \A f \in Field : row[f] \in Held /\ Good(Told', r, f, row[f])
    BY <2>4, <2>5, <2>7
  <2>9. row \in [Field -> Held]
    BY <2>8 DEF Patched
  <2> HIDE DEF row
  <2> QED
    BY <1>4, <2>2, <2>3, <2>6, <2>8, <2>9
<1>7. CASE UNCHANGED <<records, meant, misposted>>
  <2>1. CrudTypeOK'
    BY <1>1, <1>3, <1>7 DEF CrudInv, CrudTypeOK
  <2>2. Told \subseteq Told' /\ meant \subseteq meant'
    BY <1>7 DEF Told
  <2>3. SaveIsMeant'
    BY <1>1, <1>3, <2>2 DEF SaveIsMeant, Good
  <2> QED
    BY <1>1, <1>7, <2>1, <2>2, <2>3, RowsStay, ListStays, FormStays DEF CrudInv
<1> QED
  BY <1>5, <1>6, <1>7 DEF Serve

LEMMA SaveAnsweredKeeps ==
  ASSUME CrudInv, SaveAnswered
  PROVE  CrudInv'
<1>1. /\ saving' = NoSave /\ UNCHANGED <<records, shown, forms, meant, misposted>>
      /\ formError' \in BOOLEAN
      /\ \/ editing' = "closed" /\ typed' = {} /\ form' = [f \in Field |-> ""]
         \/ UNCHANGED <<editing, form, typed>>
  BY DEF SaveAnswered
<1>2. CrudTypeOK'
  <2>2. form' \in [Field -> Control] /\ editing' \in RowId \cup {"new", "closed"}
    BY <1>1, ContentIsHeld DEF CrudInv, CrudTypeOK
  <2> QED
    BY <1>1, <2>2, NoSaveType DEF CrudInv, CrudTypeOK
<1>3. SaveIsMeant'
  BY <1>1 DEF SaveIsMeant, NoSave
<1>4. FormIsMeant'
  <2>1. CASE editing' = "closed" /\ form' = [f \in Field |-> ""]
    BY <2>1 DEF FormIsMeant
  <2>2. CASE UNCHANGED <<editing, form, typed>>
    BY <1>1, <2>2, FormStays, ToldStays DEF CrudInv
  <2> QED
    BY <1>1, <2>1, <2>2
<1> QED
  BY <1>1, <1>2, <1>3, <1>4, RowsStay, ListStays, ToldStays DEF CrudInv

LEMMA DeleteKeeps ==
  ASSUME CrudInv, NEW r \in RowId, DeleteRow(r)
  PROVE  CrudInv'
<1>1. /\ forms < MaxForms /\ forms' = forms + 1
      /\ records' = records \/ records' = [records EXCEPT ![r] = NoRecord]
      /\ UNCHANGED <<shown, editing, form, saving, formError, typed, meant, misposted>>
  BY DEF DeleteRow
<1>2. /\ records \in [RowId -> RowType] /\ records' \in [RowId -> RowType]
      /\ \A x \in RowId : records'[x] = records[x] \/ records'[x] = NoRecord
  BY <1>1, ContentIsHeld DEF CrudInv, CrudTypeOK, RowType
<1>3. CrudTypeOK'
  BY <1>1, <1>2, CrudAssumption DEF CrudInv, CrudTypeOK, RowType
<1>4. RowsAreMeant'
  BY <1>1, <1>2 DEF CrudInv, RowsAreMeant, Absent, Good, Told
<1> QED
  BY <1>1, <1>3, <1>4, ListStays, FormStays, SaveStays, ToldStays DEF CrudInv

LEMMA ElsewhereKeeps ==
  ASSUME CrudInv, NEW r \in RowId, NEW f \in Field, NEW v \in Content, EditElsewhere(r, f, v)
  PROVE  CrudInv'
<1>1. /\ r \notin Absent /\ forms < MaxForms /\ forms' = forms + 1
      /\ records' = [records EXCEPT ![r][f] = v] /\ meant' = meant \cup {<<r, f, v>>}
      /\ UNCHANGED <<shown, editing, form, saving, formError, typed, misposted>>
  BY DEF EditElsewhere
<1>2. /\ records \in [RowId -> RowType] /\ v \in Held
  BY ContentIsHeld DEF CrudInv, CrudTypeOK, RowType
<1>3. /\ records' \in [RowId -> RowType]
      /\ \A x \in RowId : x # r => records'[x] = records[x]
      /\ \A g \in Field : records'[r][g] = IF g = f THEN v ELSE records[r][g]
  BY <1>1, <1>2 DEF RowType
<1>4. CrudTypeOK'
  BY <1>1, <1>3, CrudAssumption DEF CrudInv, CrudTypeOK, RowType
<1>5. ASSUME NEW x \in RowId, x \notin Absent', NEW g \in Field
      PROVE  records'[x][g] \in Held /\ Good(Told', x, g, records'[x][g])
  <2>1. CASE x = r /\ g = f
    BY <1>1, <1>2, <1>3, <2>1 DEF Good, Told
  <2>2. CASE ~ (x = r /\ g = f)
    <3>1. x \notin Absent /\ records'[x][g] = records[x][g]
      BY <1>1, <1>3, <1>5, <2>2 DEF Absent
    <3> QED
      BY <1>1, <3>1 DEF CrudInv, RowsAreMeant, Good, Told
  <2> QED
    BY <2>1, <2>2
<1>6. RowsAreMeant'
  BY <1>5 DEF RowsAreMeant, Good
<1> QED
  BY <1>1, <1>4, <1>6, ListStays, FormStays, SaveStays, ToldStays DEF CrudInv

LEMMA CrudStepKeeps == CrudInv /\ [CrudNext]_crudVars => CrudInv'
<1> SUFFICES ASSUME CrudInv, [CrudNext]_crudVars PROVE CrudInv'
  OBVIOUS
<1>1. CASE CloseForm
  <2>1. /\ editing' = "closed" /\ typed' = {}
        /\ UNCHANGED <<records, shown, form, saving, formError, forms, meant, misposted>>
    BY <1>1 DEF CloseForm
  <2>2. CrudTypeOK'
    BY <2>1 DEF CrudInv, CrudTypeOK
  <2>3. FormIsMeant'
    BY <2>1, CrudAssumption DEF CrudInv, FormIsMeant
  <2> QED
    BY <2>1, <2>2, <2>3, RowsStay, ListStays, SaveStays, ToldStays DEF CrudInv
<1>2. CASE UNCHANGED crudVars
  <2>1. /\ UNCHANGED <<records, shown, editing, form, saving, formError, typed, forms, meant, misposted>>
    BY <1>2 DEF crudVars
  <2>2. CrudTypeOK'
    BY <2>1 DEF CrudInv, CrudTypeOK
  <2> QED
    BY <2>1, <2>2, RowsStay, ListStays, FormStays, SaveStays, ToldStays DEF CrudInv
<1> QED
  BY <1>1, <1>2, FetchKeeps, OpenKeeps, UpdateKeeps, SaveKeeps, ServeKeeps,
     SaveAnsweredKeeps, DeleteKeeps, ElsewhereKeeps DEF CrudNext

LEMMA CrudInvHolds == CrudSpec => []CrudInv
<1>1. CrudInit => CrudInv
  <2> SUFFICES ASSUME CrudInit PROVE CrudInv
    OBVIOUS
  <2>1. /\ records = Given /\ shown = [r \in RowId |-> NoRecord] /\ editing = "closed"
        /\ form = [f \in Field |-> ""] /\ saving = NoSave /\ formError = FALSE
        /\ typed = {} /\ forms = 0 /\ misposted = {}
    BY DEF CrudInit
  <2>2. \A r \in RowId \ Absent : Given[r] \in [Field -> Content \cup {Null}]
    <3>1. \A r \in RowId : Given[r] \in [Field -> Content \cup {Null}] \/ Given[r] = NoRecord
      BY CrudAssumption DEF NoRecord
    <3> QED
      BY <2>1, <3>1 DEF Absent
  <2>3. Given \in [RowId -> RowType]
    <3>1. \A r \in RowId : Given[r] \in [Field -> Content \cup {Null}] \/ Given[r] = NoRecord
      BY CrudAssumption DEF NoRecord
    <3>2. [Field -> Content \cup {Null}] \subseteq RowType
      BY ContentIsHeld DEF RowType
    <3> QED
      BY <3>1, <3>2, ContentIsHeld, CrudAssumption
  <2>4. CrudTypeOK
    <3>2. shown \in [RowId -> RowType] /\ form \in [Field -> Control] /\ forms \in 0..MaxForms
      <4>1. [r \in RowId |-> NoRecord] \in [RowId -> RowType]
        BY ContentIsHeld
      <4>2. [f \in Field |-> ""] \in [Field -> Control]
        BY ContentIsHeld
      <4> QED
        BY <2>1, <4>1, <4>2, FormsCount
    <3> QED
      BY <2>1, <2>3, <3>2, NoSaveType DEF CrudTypeOK, RowType
  <2>5. RowsAreMeant
    <3> SUFFICES ASSUME NEW r \in RowId \ Absent, NEW f \in Field
                 PROVE  records[r][f] \in Held /\ Good(Told, r, f, records[r][f])
      BY DEF RowsAreMeant
    <3>1. records[r][f] \in Content \cup {Null}
      BY <2>1, <2>2
    <3>2. <<r, f, Given[r][f]>> \in {<<r, g, Given[r][g]>> : g \in Field}
      OBVIOUS
    <3>3. <<r, f, Given[r][f]>> \in Told
      BY <3>2 DEF CrudInit, Told
    <3> QED
      BY <2>1, <3>1, <3>3, ContentIsHeld DEF Good
  <2>6. ListIsMeant /\ FormIsMeant /\ SaveIsMeant
    BY <2>1 DEF ListIsMeant, FormIsMeant, SaveIsMeant, NoSave
  <2> QED
    BY <2>4, <2>5, <2>6 DEF CrudInv
<1> QED
  BY <1>1, CrudStepKeeps, PTL DEF CrudSpec

\* The rows, the list and the form keep their types.
THEOREM CrudTypeCorrect == CrudSpec => []CrudTypeOK
BY CrudInvHolds, PTL DEF CrudInv

\* No save, whichever forms were opened, closed or overtaken by an answer meanwhile,
\* leaves in a field what nobody meant it to hold, but masks and defaults.
THEOREM SavedIsMeant == CrudSpec => []SavesAreMeant
<1>1. CrudInv => SavesAreMeant
  BY DEF CrudInv, RowsAreMeant, Good, Told, SavesAreMeant
<1> QED
  BY <1>1, CrudInvHolds, PTL

-----------------------------------------------------------------------------
(* The back office as a whole.                                             *)

\* Every step of the back office is one of each part, or leaves the part alone.
LEMMA StepsAreTheParts ==
  [BackOfficeNext]_backOfficeVars =>
    /\ [PbxNext]_pbxVars /\ [TelegramNext]_telegramVars /\ [IntegrationsNext]_integrationVars
    /\ [CrudNext]_crudVars /\ [PageNext]_pageVars /\ [DeskNext]_deskVars
    /\ [NumbersNext]_numberVars /\ [AgentsNext]_agentVars /\ [FlowsNext]_flowVars
    /\ UNCHANGED part
<1> SUFFICES ASSUME [BackOfficeNext]_backOfficeVars
             PROVE  /\ [PbxNext]_pbxVars /\ [TelegramNext]_telegramVars
                    /\ [IntegrationsNext]_integrationVars /\ [CrudNext]_crudVars
                    /\ [PageNext]_pageVars /\ [DeskNext]_deskVars /\ [NumbersNext]_numberVars
                    /\ [AgentsNext]_agentVars /\ [FlowsNext]_flowVars /\ UNCHANGED part
  OBVIOUS
<1>1. CASE UNCHANGED backOfficeVars
  BY <1>1, Zenon DEF backOfficeVars
<1>2. CASE PbxStep
  BY <1>2, Zenon DEF PbxStep, OthersRest
<1>3. CASE TelegramStep
  BY <1>3, Zenon DEF TelegramStep, OthersRest
<1>4. CASE IntegrationsStep
  BY <1>4, Zenon DEF IntegrationsStep, OthersRest
<1>5. CASE CrudStep
  BY <1>5, Zenon DEF CrudStep, OthersRest
<1>6. CASE PageStep
  BY <1>6, Zenon DEF PageStep, OthersRest
<1>7. CASE DeskStep
  BY <1>7, Zenon DEF DeskStep, OthersRest
<1>8. CASE NumbersStep
  BY <1>8, Zenon DEF NumbersStep, OthersRest
<1>9. CASE AgentsStep
  BY <1>9, Zenon DEF AgentsStep, OthersRest
<1>10. CASE FlowsStep
  BY <1>10, Zenon DEF FlowsStep, OthersRest
<1> QED
  BY <1>1, <1>2, <1>3, <1>4, <1>5, <1>6, <1>7, <1>8, <1>9, <1>10, Zenon DEF BackOfficeNext

LEMMA StartsAreTheParts ==
  BackOfficeInit =>
    /\ PbxInit /\ TelegramInit /\ IntegrationsInit /\ CrudInit /\ PageInit /\ DeskInit
    /\ NumbersInit /\ AgentsInit /\ FlowsInit
    /\ part \in {"pbx", "telegram", "integrations", "crud", "page", "desk",
                 "numbers", "agents", "flows"}
BY Zenon DEF BackOfficeInit

\* What the back office does is, for each of its parts, something that part may do.
LEMMA BackOfficeRunsItsParts ==
  BackOfficeSpec => /\ PbxSpec /\ TelegramSpec /\ IntegrationsSpec /\ CrudSpec /\ PageSpec
                    /\ DeskSpec /\ NumbersSpec /\ AgentsSpec /\ FlowsSpec
BY StartsAreTheParts, StepsAreTheParts, PTL
   DEF BackOfficeSpec, PbxSpec, TelegramSpec, IntegrationsSpec, CrudSpec, PageSpec, DeskSpec,
       NumbersSpec, AgentsSpec, FlowsSpec

LEMMA PartStays ==
  BackOfficeSpec => [](part \in {"pbx", "telegram", "integrations", "crud", "page", "desk",
                                 "numbers", "agents", "flows"})
<1> DEFINE Fixed == part \in {"pbx", "telegram", "integrations", "crud", "page", "desk",
                              "numbers", "agents", "flows"}
<1>1. BackOfficeInit => Fixed
  BY StartsAreTheParts
<1>2. Fixed /\ [BackOfficeNext]_backOfficeVars => Fixed'
  BY StepsAreTheParts
<1> QED
  BY <1>1, <1>2, PTL DEF BackOfficeSpec

\* Whichever part runs, its columns, fields and states keep their types.
THEOREM BackOfficeTypeCorrect == BackOfficeSpec => []BackOfficeTypeOK
<1>1. /\ part \in {"pbx", "telegram", "integrations", "crud", "page", "desk",
                   "numbers", "agents", "flows"}
      /\ PbxTypeOK /\ TelegramTypeOK /\ IntegrationsTypeOK /\ CrudTypeOK /\ PageTypeOK
      /\ DeskPageTypeOK /\ NumbersTypeOK /\ AgentsTypeOK /\ FlowsTypeOK
      => BackOfficeTypeOK
  BY DEF BackOfficeTypeOK
<1> QED
  BY <1>1, PartStays, BackOfficeRunsItsParts, PbxTypeCorrect, TelegramTypeCorrect,
     IntegrationsTypeCorrect, CrudTypeCorrect, PageTypeCorrect, DeskPageTypeCorrect,
     NumbersTypeCorrect, AgentsTypeCorrect, FlowsTypeCorrect, PTL

\* The promises of all parts hold of the whole, whichever of them runs: no loose ends
\* in Asterisk's dialplan, no acknowledged Telegram update lost, every answer in step
\* with its log, nothing saved that nobody meant, no stale list, no lost text, sound
\* numbers, logs and flows.
THEOREM BackOfficeKeepsItsWord ==
  BackOfficeSpec => [](/\ LiveJumpsLand /\ DanglingOnlyByRetirement /\ AcknowledgedIsHandled
                       /\ AnswerMatchesLog /\ SavesAreMeant /\ OwnWritesShow
                       /\ TypedIsSentOrKept /\ NumbersAreSound /\ AgentsAreAccountedFor
                       /\ FlowsHoldTogether)
BY BackOfficeRunsItsParts, LiveJumpsStayLanded, DanglingIsRetired, AcknowledgedAreHandled,
   AnswersMatchLogs, SavedIsMeant, ReportedWritesShow, TypedStaysOrIsSent, NumbersStaySound,
   AgentsStayAccountedFor, FlowsStayTogether, PTL
=============================================================================
