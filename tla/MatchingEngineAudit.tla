------------------------ MODULE MatchingEngineAudit ------------------------
(***************************************************************************)
(* An auditor beside the matching engine.  It sees only what clients see:  *)
(* the orders they submit, the trades and the reports they get back, and   *)
(* keeps, for every order id, what was asked for, what traded and what was *)
(* given up (cancelled, or dropped at the end of an IOC or market order).  *)
(* ledger is a history variable: no step of the engine depends on it.      *)
(***************************************************************************)
EXTENDS MatchingEngine

VARIABLE ledger

Entry == [requested : Nat, executed : Nat, given_up : Nat]

AuditInit ==
  Init /\ ledger = [i \in Id |-> [requested |-> 0, executed |-> 0, given_up |-> 0]]

\* Quantity of the trade this step handed out that concerns order i.
TradedNow(i) ==
  IF Len(trades') > Len(trades)
  THEN LET trade == trades'[Len(trades')]
       IN  IF i \in {trade.buy_order_id, trade.sell_order_id}
           THEN trade.quantity ELSE 0
  ELSE 0

\* This step returned an accepted report about order i.
ReportedNow(i, command) ==
  /\ report' # report
  /\ report'.order_id = i /\ report'.command = command
  /\ report'.reject_reason = "NONE"

\* A cancel report says in requested_quantity how much it took off the book; a
\* remainder is dropped unless the client asked for good-till-cancel.
GivenUpNow(i) ==
  CASE ReportedNow(i, "CANCEL_ORDER") -> report'.requested_quantity
    [] ReportedNow(i, "NEW_ORDER") /\ ~IsGtcLimit(order) -> report'.remaining_quantity
    [] OTHER -> 0

RequestedNow(i) ==
  IF ReportedNow(i, "NEW_ORDER") THEN report'.requested_quantity ELSE 0

AuditNext ==
  /\ Next
  /\ ledger' = [i \in Id |->
                  [requested |-> ledger[i].requested + RequestedNow(i),
                   executed  |-> ledger[i].executed + TradedNow(i),
                   given_up  |-> ledger[i].given_up + GivenUpNow(i)]]

AuditSpec == AuditInit /\ [][AuditNext]_<<vars, ledger>>

\* Between calls, every unit an accepted order asked for has traded, was given
\* up, or rests in the book; an id that was never accepted has nothing.
QuantityConserved ==
  pc = "idle" =>
    \A i \in Id :
      ledger[i].requested = ledger[i].executed + ledger[i].given_up
                            + (IF contains(i) THEN OrderOf(i).quantity ELSE 0)

\* The engine implements price-time priority over a plain set of orders
\* (module PriceTimePriority): the lists, totals and index are invisible.
Outcome(r) == [id        |-> r.order_id,
               status    |-> r.status,
               reason    |-> r.reject_reason,
               executed  |-> r.executed_quantity,
               remaining |-> r.remaining_quantity]
Fills(ts) == [n \in DOMAIN ts |-> [buy      |-> ts[n].buy_order_id,
                                   sell     |-> ts[n].sell_order_id,
                                   price    |-> ts[n].price,
                                   quantity |-> ts[n].quantity]]
Market == INSTANCE PriceTimePriority
            WITH resting <- Resting("BUY") \cup Resting("SELL"),
                 taker   <- order,
                 used    <- seen_order_ids,
                 clock   <- sequence,
                 tape    <- Fills(trades),
                 outcome <- Outcome(report)
ImplementsPriceTimePriority == Market!Spec
=============================================================================
