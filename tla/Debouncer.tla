----------------------------- MODULE Debouncer -----------------------------
(***************************************************************************)
(* The request debouncer that every DataUpdateCoordinator of Home          *)
(* Assistant owns.  It is library code (external); what is stated here is  *)
(* what the coordinators of coordinator.py rely on when an upstream        *)
(* listener calls async_request_refresh (lines 271, 356, 440 and 524).     *)
(*                                                                         *)
(* State: timer, whether the cooldown timer is running; again, the flag    *)
(* "execute at the end of the timer".  The third piece of state, the       *)
(* execute lock, is held exactly while a refresh awaits its write: the     *)
(* coordinators pass it as `busy'.                                         *)
(***************************************************************************)

DebouncerState == [timer : BOOLEAN, again : BOOLEAN]

\* No timer, no call queued.  A refresh starts by cancelling the debouncer,
\* so this is also its state while the refresh runs.
Quiet == [timer |-> FALSE, again |-> FALSE]

\* The cooldown that follows every debounced refresh, failed ones included.
CoolingDown == [timer |-> TRUE, again |-> FALSE]

\* A request runs at once when no cooldown is running and no call is active.
RunsNow(debouncer, busy) == ~debouncer.timer /\ ~busy

\* Otherwise a running cooldown queues one call for its end; with no cooldown
\* (a call is active) the request is dropped: "any call is good, so abort".
Requested(debouncer) ==
  IF debouncer.timer THEN [debouncer EXCEPT !.again = TRUE] ELSE debouncer

=============================================================================
