--------------------------- MODULE MCTelemetryFeed ---------------------------
(* TelemetryFeed on a small instance: a meter, two batteries one of which is
   mapped in one choice of devices only, and an entity that is a forecast in one
   choice and a battery's power as well in the other. *)
EXTENDS TelemetryFeed, TLC

CONSTANTS Meter, Cell, Spare, Solar, Supplier, Low, High, Rest, Fixed

MCEntities == {Meter, Cell, Spare, Solar}

Off == [value |-> None, flag |-> None, unit |-> "none"]
Shows(v, u) == [value |-> v, flag |-> None, unit |-> u]

MCEntityStates ==
  Meter :> {Shows(1, "kw")} @@ Cell :> {Shows(20, "none"), Off}
    @@ Spare :> {Shows(80, "none")} @@ Solar :> {Shows(2, "kw"), None}

OneBattery ==
  [grid |-> Meter, pv |-> None, load |-> None, imbalance |-> None, per_mwh |-> FALSE,
   ev_connected |-> None, ev_power |-> None, ev_soc |-> None, heatpump |-> None,
   soc |-> <<Cell>>, power |-> <<Meter>>, capacity |-> 5000,
   pv_next_hour |-> Solar, pv_today |-> None]

\* The second battery, the power of the first, and no forecast of its own.
TwoBatteries ==
  [OneBattery EXCEPT !.soc = <<Cell, Spare>>, !.power = <<Solar>>]

MCChoices ==
  [values  |-> [preset : {Low, High}, rest : {Rest}],
   devices |-> {OneBattery, TwoBatteries},
   strategy |-> {Fixed}, control |-> {Fixed}, ev |-> {Fixed}, heatpump |-> {Fixed}]

MCDefaults ==
  [values  |-> [preset |-> High, rest |-> Rest],
   devices |-> OneBattery,
   strategy |-> Fixed, control |-> Fixed, ev |-> Fixed, heatpump |-> Fixed]

MCPreset == Supplier :> Low

=============================================================================
