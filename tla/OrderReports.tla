---------------------------- MODULE OrderReports ----------------------------
(***************************************************************************)
(* How the two order gateways translate: the shape checks of a REST order  *)
(* (models.rs), the command that a REST or a FIX order becomes (support.rs,*)
(* order_flow.rs), the REST answer and the FIX reports of what it did      *)
(* (orders.rs, order_flow.rs), and the FIX view of the order book          *)
(* (md_projection.rs).                                                     *)
(*                                                                         *)
(* An option of the code is a set of at most one value.  A translation     *)
(* that may fail answers the set of its result, {} when it refuses.        *)
(***************************************************************************)
EXTENDS Integers, Sequences, SequencesExt, FiniteSets, Validation

CONSTANTS MaxPriceCents, MaxOrderQuantity

-----------------------------------------------------------------------------
(* The checks of an order's shape; only the REST requests make them.       *)
OrderShapeError(type, price, quantity) ==
  FirstError(<<When(quantity = 0, "no quantity"),
               When(quantity > MaxOrderQuantity, "too many contracts"),
               When(type = "Limit" /\ price = {}, "no price"),
               When(type = "Market" /\ price # {}, "a price"),
               When(0 \in price, "price of zero"),
               When(\E p \in price : p > MaxPriceCents, "price too high")>>)

GtdExpiryError(tif, expiry, now) ==
  FirstError(<<When(tif = "Gtd" /\ \E e \in expiry : e <= now, "expiry not in the future"),
               When(tif = "Gtd" /\ expiry = {}, "no expiry"),
               When(tif # "Gtd" /\ expiry # {}, "an expiry")>>)

(* The time in force of the matching seam: a GTD one holds its instant.    *)
SeamTif(tif, expiry) ==
  IF tif = "Gtd" THEN {[is |-> tif, at |-> {e}] : e \in expiry} ELSE {[is |-> tif, at |-> {}]}
(* FIX: an instant before the epoch is no instant (to_epoch_ms).           *)
SeamTimeInForce(tif, expiry) == SeamTif(tif, {e \in expiry : e >= 0})
TifRests(tif) == tif.is \in {"Gtc", "Gtd", "Day"}

AddOrderCommand(who, order, type, price, tif) ==
  [op |-> "AddOrder", symbol |-> order.symbol, order_id |-> who.id, account |-> who.account,
   owner |-> who.owner, client_order_id |-> order.key, side |-> order.side, type |-> type,
   limit_price |-> price, quantity |-> order.quantity, time_in_force |-> tif, stp_mode |-> "None"]

PlaceLimitCommand(request, who, now) ==
  {AddOrderCommand(who, request, "Limit", request.price, tif) :
     tif \in {t \in SeamTif(request.tif, request.expiry) :
                /\ OrderShapeError("Limit", request.price, request.quantity) = {}
                /\ GtdExpiryError(request.tif, request.expiry, now) = {}}}
PlaceMarketCommand(request, who) ==
  {AddOrderCommand(who, request, "Market", {}, t) :
     t \in {t \in SeamTif("Ioc", {}) : OrderShapeError("Market", {}, request.quantity) = {}}}

ToAddCommand(order, who) ==
  IF order.type = "Market"
  THEN {AddOrderCommand(who, order, "Market", {}, t) : t \in SeamTif("Ioc", {})}
  ELSE {AddOrderCommand(who, order, "Limit", order.price, t) :
          t \in SeamTimeInForce(order.tif, order.expiry)}
ToCancelCommand(cancel, account, target) ==
  [op |-> "CancelOrder", symbol |-> cancel.symbol, order_id |-> target, account |-> account]
ReplacePrice(replace) == IF replace.type = "Limit" THEN replace.price ELSE {}
ToReplaceCommand(replace, account, target, fresh) ==
  [op |-> "Replace", symbol |-> replace.symbol, order_id |-> target, new_order_id |-> fresh,
   account |-> account, client_order_id |-> replace.key, orig_client_order_id |-> replace.orig,
   side |-> replace.side, limit_price |-> ReplacePrice(replace), quantity |-> replace.quantity,
   time_in_force |-> [is |-> "Gtc", at |-> {}], stp_mode |-> "None"]

OrdRejReason == [Invalid |-> 11, NotFound |-> 5, Authorization |-> 6, Throttle |-> 99, Internal |-> 99]
CxlRejReason(reason) == IF reason = "NotFound" THEN 1 ELSE 2

-----------------------------------------------------------------------------
(* Fill legs as the executions store holds them.                           *)
ExecutionId(underlying, sequence, index) == <<underlying, sequence, index>>
Quantity(legs) == FoldLeft(LAMBDA sum, leg : sum + leg.quantity, 0, legs)

ImmediateExecutionRecords(records, account, id, sequence) ==
  SelectSeq(records, LAMBDA r : /\ r.account = account /\ r.order_id = id
                                /\ r.sequence = sequence /\ r.liquidity = "Taker")
TakerLegsForOrder(records, account, id) ==
  SelectSeq(records, LAMBDA r : r.account = account /\ r.order_id = id /\ r.liquidity = "Taker")

(* What a REST caller is told.                                             *)
Remaining(total, taken) == IF taken <= total THEN total - taken ELSE 0
LimitStatus(tif, filled, quantity) ==
  CASE filled >= quantity -> "Filled"
    [] filled > 0 -> "Partial"
    [] tif \in {"Fok", "Ioc"} -> "Rejected"
    [] OTHER -> "Accepted"
MarketStatus(filled, quantity) ==
  CASE filled = 0 -> "Rejected" [] filled >= quantity -> "Filled" [] OTHER -> "Partial"
Notional(legs) == FoldLeft(LAMBDA sum, leg : sum + leg.price * leg.quantity, 0, legs)
VwapCents(legs) == IF Quantity(legs) = 0 THEN {} ELSE {Notional(legs) \div Quantity(legs)}

-----------------------------------------------------------------------------
(* What a FIX session is told.  A placement is what the report needs of    *)
(* its command; "last" is the fill a report is about, "fee" its commission *)
(* and liquidity.                                                          *)
Report(p, type, status, id, leaves, cum) ==
  [order_id |-> p.order_id, exec_id |-> id, exec_type |-> type, ord_status |-> status,
   symbol |-> p.symbol, side |-> p.side, leaves_qty |-> leaves, cum_qty |-> cum,
   last |-> {}, fee |-> {}, price |-> p.price, secondary_exec_id |-> p.sequence,
   transact_time |-> p.at]

RenderPlacementReports(accept, p, legs) ==
  LET n == Len(legs)
      Synthetic(index) == ExecutionId(p.underlying, p.sequence, index)
      Trade(k) ==
        LET cum == Quantity(SubSeq(legs, 1, k))
            status == IF cum >= p.quantity THEN "Filled" ELSE "PartiallyFilled"
        IN  [Report(p, "Trade", status, legs[k].execution_id, Remaining(p.quantity, cum), cum)
               EXCEPT !.last = {[quantity |-> legs[k].quantity, price |-> legs[k].price]},
                      !.fee = {[commission |-> legs[k].fee, liquidity |-> legs[k].liquidity]},
                      !.transact_time = legs[k].executed_at]
      killed == Quantity(legs) < p.quantity /\ ~TifRests(p.tif)
  IN  <<Report(p, accept, accept, Synthetic(n), p.quantity, 0)>>
      \o [k \in 1..n |-> Trade(k)]
      \o (IF killed
          THEN <<Report(p, "Canceled", "Canceled", Synthetic(n + 1), 0, Quantity(legs))>>
          ELSE <<>>)

RenderNewOrderReports(p, legs) == RenderPlacementReports("New", p, legs)
RenderReplaceReports(p, legs) ==
  RenderPlacementReports("Replaced", [p EXCEPT !.tif = [is |-> "Gtc", at |-> {}]], legs)

(* The report of a cancel carries neither price nor what was filled.       *)
RenderMassCancelLegReport(p, index) ==
  Report([p EXCEPT !.price = {}], "Canceled", "Canceled",
         ExecutionId(p.underlying, p.sequence, index), 0, 0)
RenderCancelReport(p) == RenderMassCancelLegReport(p, 0)
(* The legs of a sweep, the underlyings' legs after each other.            *)
RenderMassCancel(swept) ==
  [i \in DOMAIN swept |-> RenderMassCancelLegReport(swept[i], i - 1)]

(* The state of an order, from its committed taker fills alone.            *)
RenderStatusReport(p, legs) ==
  LET cum == Quantity(legs)
      status == CASE cum >= p.quantity /\ p.quantity > 0 -> "Filled"
                  [] cum > 0 -> "PartiallyFilled"
                  [] OTHER -> "New"
      last == IF legs = <<>> THEN {} ELSE {legs[Len(legs)]}
      sequence == IF legs = <<>> THEN 0 ELSE legs[Len(legs)].sequence
  IN  [Report([p EXCEPT !.price = {}], IF cum > 0 THEN "Trade" ELSE "New", status,
              ExecutionId(p.underlying, sequence, 0), Remaining(p.quantity, cum), cum)
         EXCEPT !.last = {[quantity |-> l.quantity, price |-> l.price] : l \in last},
                !.secondary_exec_id = sequence,
                !.transact_time = IF last = {} THEN p.at ELSE legs[Len(legs)].executed_at]

-----------------------------------------------------------------------------
(* The order book a FIX client is sent: W from a snapshot, X from a delta. *)
RequestsTradeTape(types) == "Trade" \in ToSet(types)
RequestedSides(types) ==
  {s \in {"Bid", "Ask"} : (IF s = "Bid" THEN "Bid" ELSE "Offer") \in ToSet(types)}
EntryTypeFor(side) == IF side = "Bid" THEN "Bid" ELSE "Offer"

SnapshotEntries(bids, asks, sides) ==
  LET Side(name, levels) ==
        IF name \in sides
        THEN [i \in DOMAIN levels |-> [type |-> EntryTypeFor(name), price |-> levels[i].price,
                                       size |-> levels[i].quantity]]
        ELSE <<>>
  IN  Side("Bid", bids) \o Side("Ask", asks)
IncrementalEntries(changes, sides) ==
  LET kept == SelectSeq(changes, LAMBDA c : c.side \in sides)
  IN  [i \in DOMAIN kept |->
         [action |-> IF kept[i].quantity = 0 THEN "Delete" ELSE "Change",
          type |-> EntryTypeFor(kept[i].side), price |-> kept[i].price, size |-> kept[i].quantity]]

SnapshotProjection(ws, sides) ==
  {<<ws.sequence, SnapshotEntries(ws.bids, ws.asks, sides)>> :
     m \in {m \in {ws} : m.is = "OrderbookSnapshot"}}
IncrementalProjection(ws, sides) ==
  {<<ws.sequence, IncrementalEntries(ws.changes, sides)>> :
     m \in {m \in {ws} : m.is = "OrderbookDelta"}}
=============================================================================
