---------------------------- MODULE MCEvControl ----------------------------
(* EvControl on small instances.  One ampere is two watts, so a surplus that is
   no whole number of amperes occurs; limits with the minimum above the maximum
   are among the options, as nothing in the code excludes them. *)
EXTENDS EvControl

CONSTANTS Enableds, Prices, MinAs, Cars   \* what occurs in the readings

Car(connected, soc, grid_w, ev_w) ==
  [connected |-> connected, soc |-> soc, grid_w |-> grid_w, ev_w |-> ev_w]

Full      == Car(TRUE, 80, -6, 0)
Charging  == Car(TRUE, 50, -1, 4)        \* the charger takes most of a surplus

MCFullOrNot    == {Full, Charging}

MCReadings ==
  {[enabled |-> e, min_a |-> m, max_a |-> 2, target_soc |-> 80, price |-> p,
    connected |-> c.connected, soc |-> c.soc, grid_w |-> c.grid_w, ev_w |-> c.ev_w]
     : e \in Enableds, m \in MinAs, p \in Prices, c \in Cars}

=============================================================================
