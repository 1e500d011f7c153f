------------------------- MODULE MCHeatPumpControl -------------------------
(* HeatPumpControl on small instances: an average of 10, prices below, at and
   above it, no series at all, and a price to switch the optimisation off with. *)
EXTENDS HeatPumpControl

CONSTANTS Limits, Prices, Averages   \* what occurs in the readings

Read(enabled, limit, price, average) ==
  [enabled |-> enabled, max_offset |-> limit, price |-> price,
   average |-> average]

MCReadings ==
  {Read(TRUE, l, p, a) : l \in Limits, p \in Prices, a \in Averages}
    \cup {Read(TRUE, l, None, None) : l \in Limits}
    \cup {Read(FALSE, l, 4, 10) : l \in Limits}

=============================================================================
