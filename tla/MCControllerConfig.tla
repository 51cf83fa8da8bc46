------------------------- MODULE MCControllerConfig -------------------------
(* One controller of either kind: nothing relates two controllers.  The   *)
(* gains differ in one coefficient each; the frames are what the           *)
(* subsystems ask for; the current and voltage limits behave like the      *)
(* inversion.                                                              *)
EXTENDS ControllerConfig
CONSTANTS On

MCConstruction == <<"inverted", "neutral">>
MCValues ==
  [s \in {"inverted", "neutral", "gains", "frames", "forward_switch"} |->
     CASE s = "gains"  -> {ZeroGains, [p |-> 1, d |-> 0], [p |-> 1, d |-> -1]}
       [] s = "frames" -> {{"position", "velocity", "fault"}, {"position"}}
       [] s = "forward_switch" -> {[stop |-> TRUE, normally |-> "off"]}
       [] OTHER -> {On}]
MCParams == [m \in Slots |-> [s \in ToSet(MCConstruction) |-> On]]
=============================================================================
