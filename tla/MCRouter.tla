------------------------------ MODULE MCRouter ------------------------------
(***************************************************************************)
(* Constants of the instances of Router.tla that TLC checks: one           *)
(* peripheral p1 with command socket k1, commands "local" (answered by the *)
(* router) and "fwd" (registered by the peripheral), and the budgets of    *)
(* environment events that give each run its question.                     *)
(***************************************************************************)
EXTENDS Router, TLC

CONSTANTS p1, k1, c1, c2

MCcmd_fd == p1 :> k1
MCQrtrSockets == <<k1, p1>>
MCRoute == [c \in Command |-> IF c = "fwd" THEN {p1} ELSE {}]

NoEvents == [k \in Kinds |-> 0]

\* Two clients: a command, a close or a reset, a submission refused.
UnixBudget == "command" :> 1 @@ "close" :> 1 @@ "refuse" :> 1 @@ NoEvents

\* One client and a peripheral that restarts: commands forwarded and answered,
\* the server coming, going and coming back, a packet other than data.
QrtrBudget == "command" :> 1 @@ "server" :> 3 @@ "answer" :> 1 @@ "fault" :> 1
              @@ NoEvents

\* One client, and a server that is announced twice.
AgainBudget == "command" :> 1 @@ "server" :> 1 @@ "again" :> 1 @@ NoEvents

\* The host comes twice and sends a command.
UsbBudget == "command" :> 1 @@ "plug" :> 2 @@ NoEvents
=============================================================================
