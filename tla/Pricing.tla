------------------------------- MODULE Pricing --------------------------------
(***************************************************************************)
(* MyContractor::on_cfp of src/src/strategy.rs: the price of a bid.  Times *)
(* and money are integers; a price is a number of ticks (10_000 ticks are  *)
(* 1 unit of money), and products with 0.98, 1.2, 1.6 and 0.08 are         *)
(* compared in hundredths of a tick, so that nothing but the final tick is *)
(* rounded.  Values that are not finite and a negative cost_rate are left  *)
(* out: with one the code refuses every task (strategy.rs:65).             *)
(***************************************************************************)
EXTENDS Integers

CONSTANTS Budget, Deadline,   \* of a task
          CostRate,           \* cost_rate: ticks per unit of time
          TimeWeight,         \* time_weight in ticks; 0 for lowest_price
          Extra,              \* 0.01 * max(cost_rate, 0.1), in hundredths of a tick
          None

ASSUME PricingAssumption ==
  {Budget, Deadline, CostRate, TimeWeight, Extra} \subseteq Nat

\* market::score
Score(price, seconds) == price + TimeWeight * seconds

Larger(a, b) == IF a >= b THEN a ELSE b
Smaller(a, b) == IF a <= b THEN a ELSE b

\* Reserved times beyond 98 % of the deadline are refused.
Admitted(reserved) == 100 * reserved <= 98 * Deadline

\* 120 % of the cautious cost, a small extra amount, and at least one tick.
Floor(reserved) == Larger(120 * reserved * CostRate + Extra, 100)

\* 2 % below the competing score, or a markup on the cost when there is none.
Ceiling(finish, reserved, competing) ==
  Smaller(IF competing = None THEN Larger(160 * reserved * CostRate, 8 * Budget)
          ELSE 98 * competing - 100 * Score(0, finish),
          98 * Budget)

\* The price offered, or None for a refusal.
Price(finish, reserved, competing) ==
  LET price == Ceiling(finish, reserved, competing) \div 100
  IN  IF Admitted(reserved) /\ finish > 0 /\ 100 * price >= Floor(reserved)
      THEN price ELSE None
=============================================================================
