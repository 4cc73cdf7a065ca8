----------------------------- MODULE RiskChecker -----------------------------
(***************************************************************************)
(* The RiskChecker singleton (src/engine/risk_checker.cpp): the pre-trade  *)
(* check of new orders.  Its mutex makes each call one step.               *)
(***************************************************************************)
EXTENDS BookOps

CONSTANTS MAX_PRICE, MAX_QUANTITY, MAX_ORDER_VALUE   \* limits, constants.hpp and validate_order

ASSUME LimitsAssumption ==
    MAX_PRICE \in Nat /\ MAX_QUANTITY \in Nat /\ MAX_ORDER_VALUE \in Nat

VARIABLES allowed_symbols, seen_order_ids

riskVars == <<allowed_symbols, seen_order_ids>>

\* As constructed, and after reset().
RiskInit == allowed_symbols = {} /\ seen_order_ids = {}

\* The first check that fails, in the code's order, or "Accepted".
Verdict(o) ==
    IF o.symbol \notin allowed_symbols THEN "Invalid Symbol"
    ELSE IF o.price = 0 \/ o.price > MAX_PRICE THEN "Invalid Price Bounds"
    ELSE IF o.quantity = 0 \/ o.quantity > MAX_QUANTITY THEN "Invalid Quantity Bounds"
    ELSE IF o.order_id \in seen_order_ids THEN "Duplicate Order ID"
    ELSE IF o.price * o.quantity > MAX_ORDER_VALUE THEN "Order Value Exceeds Limit"
    ELSE "Accepted"

\* An id is recorded only when every check passed.
validate_order(o) ==
    /\ seen_order_ids' = IF Verdict(o) = "Accepted"
                         THEN seen_order_ids \cup {o.order_id} ELSE seen_order_ids
    /\ UNCHANGED allowed_symbols

register_symbol(s) ==
    /\ allowed_symbols' = allowed_symbols \cup {s}
    /\ UNCHANGED seen_order_ids
=============================================================================
