---------------------------- MODULE MCClosedLoop ----------------------------
(* ClosedLoop on small instances: powers in watts, prices in thousandths of a
   euro per kWh, the clock as coarse as in MCBatteryActuation. *)
EXTENDS ClosedLoop

CONSTANTS Watts, LowSoc, HighSoc

MCDecisions ==
  {[action |-> "idle", power_w |-> 0]}
    \cup [action : {"charge", "discharge"}, power_w : Watts]

MCReadings == {LowSoc, HighSoc}

\* A sunny hour, and one with the oven and the heat pump on.
MCLoads == {-1000, 3000}

\* Dear now and no dearer later: the price strategies want to discharge.
Dear == [price |-> 400, average |-> 200, best |-> 300]

MCMarkets == {Dear}

=============================================================================
