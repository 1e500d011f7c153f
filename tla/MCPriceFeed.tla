---------------------------- MODULE MCPriceFeed ----------------------------
(* PriceFeed and PriceDisplay on small instances: two tariffs, hours and days of two quarters. *)
EXTENDS PriceDisplay

CONSTANTS Cheap, Dear

NetMetering ==
  [energy_tax |-> 10, supplier_markup |-> 2, feed_in_markup |-> 1, vat |-> 21,
   saldering |-> TRUE]

AfterNetMetering == [NetMetering EXCEPT !.saldering = FALSE, !.vat = 9]

MCTariffs == {NetMetering, AfterNetMetering}

Quarter(date, price) == [date |-> date, price |-> price]

\* The day-ahead prices with one that is missing, and an answer that is valid JSON
\* but contains no valid price.
BothDays == [today    |-> {Quarter(0, Dear), Quarter(1, Cheap)},
             tomorrow |-> {Quarter(2, None), Quarter(3, Dear)}]
NoPrice  == [today |-> None, tomorrow |-> {Quarter(None, Cheap)}]

MCPayloads == {BothDays, NoPrice}

=============================================================================
