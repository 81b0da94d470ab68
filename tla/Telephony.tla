------------------------------ MODULE Telephony ------------------------------
(***************************************************************************)
(* TelephonyService holds two state machines: the connection to Asterisk   *)
(* (AmiConnection) and the calls table kept from the events that arrive on *)
(* it (CallTracking).  The latter takes the connection for a switch that   *)
(* may turn at any time, so neither waits for the other and a behaviour of *)
(* the service is one of each, side by side: it is enough to let one of    *)
(* them run and keep the other where it starts.                            *)
(***************************************************************************)
EXTENDS AmiConnection, CallTracking

VARIABLE half     \* the one that runs; fixed

telephonyVars == <<vars, callVars, half>>

\* Connected, logged in, and nothing is due.
Standing ==
  /\ proc = "up" /\ socket = "open"
  /\ amiConnected = TRUE /\ amiConnecting = FALSE /\ reconnectTimer = FALSE
  /\ messageBuffer = None /\ callbacks = {} /\ timers = {} /\ asked = {}
  /\ outcome = [a \in Action |-> "new"] /\ dispatched = "none"
  /\ goodSecret = TRUE /\ calm = TRUE

TelephonyInit ==
  /\ CallsInit
  /\ \/ half = "connection" /\ Init
     \/ half = "calls" /\ Standing

ConnectionStep == half = "connection" /\ Next /\ UNCHANGED <<callVars, half>>
CallsStep      == half = "calls" /\ CallsNext /\ UNCHANGED <<vars, half>>

TelephonyNext == ConnectionStep \/ CallsStep

\* Of the half that stays put nothing fair is enabled.
TelephonySpec ==
  TelephonyInit /\ [][TelephonyNext]_telephonyVars /\ AmiFairness /\ CallsFairness

TelephonyTypeOK == TypeOK /\ CallsTypeOK
=============================================================================
