------------------------ MODULE MCBatteryActuation ------------------------
(* BatteryActuation on small instances: small powers and a coarse clock,
   with MinDwell > WriteThrottle > MaxLatency as in the defaults. *)
EXTENDS BatteryActuation

CONSTANTS Watts, LowSoc, MidSoc, HighSoc

MCDecisions ==
  {[action |-> "idle", power_w |-> 0]}
    \cup [action : {"charge", "discharge"}, power_w : Watts]

MCReadings == {None, LowSoc, MidSoc, HighSoc}

\* Charging or not, where failures and reloads are what matters.
MCChargeDecisions == {d \in MCDecisions : d.action # "discharge"}

\* Both limits reached, as fast as telemetry can tell.
MCLimitReadings == {LowSoc, HighSoc}

\* Fewer levels where the SOC only has to reach the lower limit.
MCFloorReadings == {LowSoc, MidSoc}

=============================================================================
