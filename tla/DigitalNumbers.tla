---------------------------- MODULE DigitalNumbers ----------------------------
(***************************************************************************)
(* One digital (SIP) number: its ports, its status and the log of its      *)
(* registration tests, a JSON array in the row.  Every operation but       *)
(* create reads the row and writes it in another query.  The signalling    *)
(* ports (SIP, UDP, TLS, AMI) are treated alike and stand for one.         *)
(***************************************************************************)
EXTENDS Naturals, Sequences

CONSTANTS
  Port,
  RtpFloor,       \* the least port the DTO takes for RTP: 10000
  DefaultSignal, DefaultStart, DefaultEnd,
  PortBodies,     \* what bodies may name of the ports
  PostedLogs,     \* the logs that bodies may name
  Editor,         \* slots of requests being handled
  LogSize,        \* entries the log keeps: 100
  MaxTests        \* tests in all

\* A test, or 0: an entry that some body brought.
Entry == 0..MaxTests

ASSUME NumbersAssumption ==
  /\ Port \subseteq Nat /\ RtpFloor \in Nat
  /\ {DefaultSignal, DefaultStart, DefaultEnd} \subseteq Port
  /\ RtpFloor <= DefaultStart /\ DefaultStart < DefaultEnd
  /\ DefaultSignal < DefaultStart
  /\ LogSize \in Nat \ {0} /\ MaxTests \in Nat
  /\ PostedLogs \subseteq Seq(Entry)
  /\ \A b \in PortBodies : /\ DOMAIN b \subseteq {"signal", "start", "end"}
                          /\ \A k \in DOMAIN b : b[k] \in Port /\ (k # "signal" => b[k] >= RtpFloor)

VARIABLES
  number,         \* the row
  editor,         \* the requests being handled
  tests,          \* tests so far
  kept,           \* tests whose entries the log should have
  overwritten,    \* tests whose entries a log read before them replaced
  assumed,        \* an RTP range was written by an update that did not name the
                  \* signalling port, while the row had another than the default
  crossedPorts    \* ports were written that had been checked against older ones

numberVars == <<number, editor, tests, kept, overwritten, assumed, crossedPorts>>

RtpPort == {p \in Port : p >= RtpFloor}

\* A body names some of these keys.
Ports == [signal : Port, start : RtpPort, end : RtpPort]

DefaultPorts == [signal |-> DefaultSignal, start |-> DefaultStart, end |-> DefaultEnd]

\* What the body does not name is as in the row.
Or(b, k, old) == IF k \in DOMAIN b THEN b[k] ELSE old

Patch(row, b) == [signal |-> Or(b, "signal", row.signal),
                  start  |-> Or(b, "start", row.start),
                  end    |-> Or(b, "end", row.end)]

\* Faulty variant: only the order of the range is checked.
OrderOnly(p) == p.start < p.end

ValidatePorts(p) == p.start < p.end /\ p.signal \notin p.start..p.end

\* update() completes the body by the RTP ports of the row it read; for the
\* signalling ports the validation takes the defaults.
WithRow(b, row) == Patch([row EXCEPT !.signal = DefaultSignal], b)

\* "read" and "log" are what the first query returned; "later" are the tests
\* that were written since.
EditorRec == [op    : {"none", "update", "delete", "test"},
              body  : PortBodies \cup {<<>>},
              read  : Ports,
              log   : Seq(Entry),
              later : SUBSET (1..MaxTests)]

Unused == [op |-> "none", body |-> <<>>, read |-> DefaultPorts, log |-> <<>>, later |-> {}]

-----------------------------------------------------------------------------
\* create() checks the body and the defaults, which it then stores.  Status and
\* log are the body's, if it names them.
CreateNumber ==
  /\ number.status = "none"
  /\ \E b \in PortBodies, status \in {"other", "DISABLED"}, log \in {<<>>} \cup PostedLogs :
       /\ ValidatePorts(Patch(DefaultPorts, b))
       /\ number' = [ports |-> Patch(DefaultPorts, b), status |-> status,
                     active |-> TRUE, log |-> log]
  /\ UNCHANGED <<editor, tests, kept, overwritten, assumed, crossedPorts>>

\* The first query of update(), delete() and registerTest(), and the validation.
ReadNumber(d, op, b) ==
  /\ number.status # "none"
  /\ editor[d] = Unused
  /\ op = "update" => ValidatePorts(WithRow(b, number.ports))
  /\ editor' = [editor EXCEPT ![d] =
       CASE op = "update" -> [Unused EXCEPT !.op = op, !.body = b, !.read = number.ports]
         [] op = "test"   -> [Unused EXCEPT !.op = op, !.log = number.log]
         [] OTHER         -> [Unused EXCEPT !.op = op]]
  /\ UNCHANGED <<number, tests, kept, overwritten, assumed, crossedPorts>>

\* The body of an update may name status, isActive and logs, too: the log is then
\* the one it brings, of any length.
UpdateNumber(d) ==
  LET b == editor[d].body IN
  /\ editor[d].op = "update"
  /\ \E status \in {number.status, "other", "DISABLED"}, active \in BOOLEAN,
        log \in {number.log} \cup PostedLogs :
       /\ number' = [ports |-> Patch(number.ports, b), status |-> status,
                     active |-> active, log |-> log]
       /\ kept' = IF log = number.log THEN kept ELSE {}
  /\ crossedPorts' = (crossedPorts \/ number.ports # editor[d].read)
  /\ assumed' = (assumed \/ ("signal" \notin DOMAIN b /\ number.ports.signal # DefaultSignal
                             /\ DOMAIN b # {}))
  /\ editor' = [editor EXCEPT ![d] = Unused]
  /\ UNCHANGED <<tests, overwritten>>

\* Faulty variant: a status that the schema does not have.
DeleteInactive(d) ==
  /\ editor[d].op = "delete"
  /\ number' = [number EXCEPT !.active = FALSE, !.status = "INACTIVE"]
  /\ editor' = [editor EXCEPT ![d] = Unused]
  /\ UNCHANGED <<tests, kept, overwritten, assumed, crossedPorts>>

DeleteNumber(d) ==
  /\ editor[d].op = "delete"
  /\ number' = [number EXCEPT !.active = FALSE, !.status = "DISABLED"]
  /\ editor' = [editor EXCEPT ![d] = Unused]
  /\ UNCHANGED <<tests, kept, overwritten, assumed, crossedPorts>>

\* unshift and slice.
Logged(log, e) == SubSeq(<<e>> \o log, 1, IF Len(log) < LogSize THEN Len(log) + 1 ELSE LogSize)

\* A test gives the row a status, also to a number that was deleted.
RegisterTest(d) ==
  /\ editor[d].op = "test" /\ tests < MaxTests
  /\ tests' = tests + 1
  /\ \E status \in {"other", "DISABLED"} :
       number' = [number EXCEPT !.status = status, !.log = Logged(editor[d].log, tests')]
  /\ kept' = {e \in kept \cup {tests'} : tests' - e < LogSize}
  /\ overwritten' = overwritten \cup editor[d].later
  /\ editor' = [c \in Editor |-> IF c = d THEN Unused
                                 ELSE IF editor[c].op = "test"
                                   THEN [editor[c] EXCEPT !.later = @ \cup {tests'}]
                                   ELSE editor[c]]
  /\ UNCHANGED <<assumed, crossedPorts>>

EditorFails(d) ==
  /\ editor[d] # Unused
  /\ editor' = [editor EXCEPT ![d] = Unused]
  /\ UNCHANGED <<number, tests, kept, overwritten, assumed, crossedPorts>>

NumbersInit ==
  /\ number = [ports |-> DefaultPorts, status |-> "none", active |-> FALSE, log |-> <<>>]
  /\ editor = [d \in Editor |-> Unused]
  /\ tests = 0
  /\ kept = {} /\ overwritten = {}
  /\ assumed = FALSE /\ crossedPorts = FALSE

NumbersNext ==
  \/ CreateNumber
  \/ \E d \in Editor :
       \/ \E b \in PortBodies : ReadNumber(d, "update", b)
       \/ ReadNumber(d, "delete", <<>>) \/ ReadNumber(d, "test", <<>>)
       \/ UpdateNumber(d) \/ DeleteNumber(d) \/ RegisterTest(d)
       \/ EditorFails(d)

NumbersSpec == NumbersInit /\ [][NumbersNext]_numberVars

NumbersTypeOK ==
  /\ number \in [ports : Ports, status : {"none", "other", "DISABLED"}, active : BOOLEAN,
                 log : Seq(Entry)]
  /\ editor \in [Editor -> EditorRec]
  /\ tests \in 0..MaxTests
  /\ kept \subseteq 1..tests /\ overwritten \subseteq 1..MaxTests
  /\ assumed \in BOOLEAN /\ crossedPorts \in BOOLEAN
-----------------------------------------------------------------------------
(***************************************************************************)
(* The RTP range of a number is a range and keeps clear of the signalling  *)
(* ports, unless two updates overlapped or one of them set the range       *)
(* alone, which is checked against the default signalling ports.  The      *)
(* entry of a finished test is in the log until LogSize newer ones are,    *)
(* unless an overlapping test wrote back a log without it, or an update    *)
(* brought a log of its own.                                               *)
(***************************************************************************)
NumbersAreSound ==
  LET p == number.ports IN
  /\ p.start < p.end \/ crossedPorts
  /\ p.signal \notin p.start..p.end \/ assumed \/ crossedPorts
  /\ \A e \in kept \ overwritten : \E i \in DOMAIN number.log : number.log[i] = e
=============================================================================
