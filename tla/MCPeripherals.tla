---------------------------- MODULE MCPeripherals ----------------------------
(***************************************************************************)
(* Constants of the instances of Peripherals.tla that TLC checks: an RPMSG *)
(* subsystem r and a QRTR subsystem q with their scripts.                  *)
(***************************************************************************)
EXTENDS Peripherals, TLC

CONSTANTS r, q

FeatureCmd(m) == [op |-> "feature", mask |-> m]
RegisterCmd(o, c, s, rs) == [op |-> o, cmd |-> c, subsys |-> s, ranges |-> rs]
DiagIdCmd(v, i, n) == [op |-> "diag_id", version |-> v, id |-> i, name |-> n]
Other(o) == [op |-> o]

Rs(a, b) == [first |-> a, last |-> b]

All == {"FEATURE_MASK_SUPPORT", "REQ_RSP", "DIAG_ID_FEATURE_MASK", "STM"}

\* Registrations: r registers two ranges of a subsystem and a process, takes the
\* ranges back and registers one of them again.
RTable ==
    << <<FeatureCmd(All), RegisterCmd("register", 255, 1, <<Rs(0, 4), Rs(8, 9)>>),
         DiagIdCmd(2, 0, "a")>>,
       <<RegisterCmd("deregister", 255, 1, <<Rs(0, 4), Rs(8, 9)>>),
         RegisterCmd("register", 75, 1, <<Rs(8, 9)>>), Other("unknown"), Other("truncated"), Other("unknown")>> >>

RestartScript == r :> RTable @@ q :> <<>>

\* Two subsystems at once.  Ranges: those of r and q overlap, q also registers a
\* plain command.  Diag ids: processes a and b of r are numbered by the router, c of
\* q brings its number along, a asks again through q, d is numbered by the router.
RBoth ==
    << <<FeatureCmd(All), RegisterCmd("register", 255, 1, <<Rs(0, 4), Rs(8, 9)>>),
         DiagIdCmd(2, 0, "a"), Other("num_presets"), DiagIdCmd(1, 0, "b")>> >>

QBoth ==
    << <<FeatureCmd(All), RegisterCmd("register", 75, 1, <<Rs(3, 8)>>),
         RegisterCmd("register", 255, 255, <<Rs(5, 5)>>), DiagIdCmd(3, 3, "c"),
         DiagIdCmd(1, 0, "a"), DiagIdCmd(2, 0, "d")>> >>

BothScript == r :> RBoth @@ q :> QBoth

WithCmd == r :> {"cntl", "data", "cmd"}
WithoutCmd == r :> {"cntl", "data"}

RTwice == r :> 2 @@ q :> 0
QTwice == r :> 1 @@ q :> 2

\* A request both registered, a plain one, and one of the router's own.
MCDmCommand == {[op |-> 75, subsys |-> 1, code |-> 8], [op |-> 5, subsys |-> 0, code |-> 0],
                [op |-> 125, subsys |-> 0, code |-> 0]}
=============================================================================
