------------------------- MODULE OrderReportsChecks -------------------------
(***************************************************************************)
(* What the two order gateways promise of commands, answers, reports and   *)
(* the FIX book, over small orders, fills and books.                       *)
(***************************************************************************)
EXTENDS OrderReports, TLC

Someone == [id |-> "o1", account |-> "alice", owner |-> "h1"]
CheckedOrders ==
  [symbol : {"s"}, key : {{}, {"k"}}, side : {"Buy", "Sell"}, type : {"Limit", "Market"},
   price : {{}} \cup {{p} : p \in 0..(MaxPriceCents + 1)}, quantity : 0..(MaxOrderQuantity + 1),
   tif : {"Day", "Gtc", "Ioc", "Fok", "Gtd"}, expiry : {{}, {-1}, {1}, {2}}]
RestCommand(order, now) ==
  IF order.type = "Limit" THEN PlaceLimitCommand(order, Someone, now)
  ELSE PlaceMarketCommand(order, Someone)
(* What REST can express: no day order, no price on a market order, no     *)
(* instant before the epoch.                                               *)
RestCanExpress(order) ==
  IF order.type = "Limit" THEN order.price # {} /\ order.tif # "Day" /\ order.expiry # {-1}
  ELSE order.price = {} /\ order.tif = "Gtc" /\ order.expiry = {}

(* An order that both gateways accept is one command, whichever it came    *)
(* by; FIX accepts all that REST does, and refuses an order only for an    *)
(* expiry that is no instant (order_flow.rs, to_add_command).              *)
ASSUME OneCommandForBothSurfaces ==
  \A order \in CheckedOrders : \A now \in 0..2 :
    LET fix == ToAddCommand(order, Someone)
    IN  /\ RestCanExpress(order) /\ RestCommand(order, now) # {} => fix = RestCommand(order, now)
        /\ Cardinality(fix) <= 1
        /\ fix = {} <=> order.type = "Limit" /\ order.tif = "Gtd" /\ order.expiry \in {{}, {-1}}
        /\ \A c \in fix : c.type = "Market" => c.limit_price = {} /\ ~TifRests(c.time_in_force)

(* What REST lets through has a quantity and a price in their ranges, and  *)
(* a GTD order time to rest (models.rs, validate_order_shape and           *)
(* validate_gtd_expiry).                                                   *)
ASSUME RestOrdersAreBounded ==
  \A order \in {o \in CheckedOrders : RestCanExpress(o)} : \A now \in 0..2 :
    RestCommand(order, now) # {} <=>
      /\ order.quantity \in 1..MaxOrderQuantity
      /\ order.type = "Limit" => order.price \subseteq 1..MaxPriceCents
      /\ order.expiry # {} <=> order.tif = "Gtd"
      /\ \A e \in order.expiry : e > now

-----------------------------------------------------------------------------
Legs(n) ==
  UNION {{[k \in 1..m |-> [execution_id |-> ExecutionId("u", 7, k - 1), order_id |-> "o1",
                           account |-> "alice", quantity |-> q[k], price |-> x[k], fee |-> 0,
                           liquidity |-> "Taker", sequence |-> 7, executed_at |-> 5]] :
            q \in [1..m -> 1..3], x \in [1..m -> {1, 2, 5}]} : m \in 0..n}
Placements ==
  [order_id : {"o1"}, underlying : {"u"}, symbol : {"s"}, side : {"Buy"}, price : {{5}},
   sequence : {7}, at : {4}, quantity : 1..4,
   tif : {[is |-> t, at |-> {}] : t \in {"Day", "Gtc", "Ioc", "Fok"}}]
(* A taker never fills more than it asked for.                             *)
Fits(p, legs) == Quantity(legs) <= p.quantity

(* The reports of one placement add up: the quantities of each are those   *)
(* of the order until it is over, each fill is told once, the last report  *)
(* says what became of the order, and no two share an id (order_flow.rs,   *)
(* render_placement_reports).                                              *)
ASSUME ReportsAddUp ==
  \A p \in Placements : \A legs \in {l \in Legs(3) : Fits(p, l)} :
    \A reports \in {RenderNewOrderReports(p, legs), RenderReplaceReports(p, legs)} :
      LET last == reports[Len(reports)]
          told == SelectSeq(reports, LAMBDA r : r.exec_type = "Trade")
          killed == last.exec_type = "Canceled"
      IN  /\ \A i, j \in DOMAIN reports : reports[i].exec_id = reports[j].exec_id => i = j
          /\ \A i \in DOMAIN reports :
               IF reports[i].exec_type = "Canceled" THEN reports[i].leaves_qty = 0
               ELSE reports[i].leaves_qty + reports[i].cum_qty = p.quantity
          /\ \A i, j \in DOMAIN reports : i < j => reports[i].cum_qty <= reports[j].cum_qty
          /\ Len(told) = Len(legs)
          /\ \A k \in DOMAIN told :
               /\ told[k].last = {[quantity |-> legs[k].quantity, price |-> legs[k].price]}
               /\ told[k].exec_id = legs[k].execution_id
          /\ last.cum_qty = Quantity(legs)
          /\ last.ord_status = "Filled" <=> Quantity(legs) = p.quantity
          /\ killed <=> /\ reports[1].ord_status = "New" /\ p.tif.is \in {"Ioc", "Fok"}
                        /\ last.ord_status # "Filled"

(* REST and FIX tell the same story of the same fills (orders.rs,          *)
(* limit_status).                                                          *)
ASSUME SurfacesAgreeOnTheOutcome ==
  \A p \in Placements : \A legs \in {l \in Legs(3) : Fits(p, l)} : p.tif.is # "Day" =>
    LET reports == RenderNewOrderReports(p, legs)
        last == reports[Len(reports)]
        rest == LimitStatus(p.tif.is, Quantity(legs), p.quantity)
    IN  /\ rest = "Filled" <=> last.ord_status = "Filled"
        /\ rest = "Accepted" <=> last.ord_status = "New"
        /\ rest = "Rejected" <=> last.ord_status = "Canceled" /\ last.cum_qty = 0
        /\ Remaining(p.quantity, Quantity(legs)) + last.cum_qty = p.quantity
        /\ p.tif.is = "Ioc" => MarketStatus(Quantity(legs), p.quantity) = rest

(* An average price is that of the fills, cut to whole cents (support.rs,  *)
(* vwap_cents).                                                            *)
ASSUME AverageIsOfTheFills ==
  \A legs \in Legs(3) :
    /\ VwapCents(legs) = {} <=> legs = <<>>
    /\ \A average \in VwapCents(legs) :
         /\ \E k \in DOMAIN legs : legs[k].price <= average
         /\ \E k \in DOMAIN legs : legs[k].price >= average
         /\ average * Quantity(legs) <= Notional(legs)
         /\ Notional(legs) < (average + 1) * Quantity(legs)

(* A status reports the taker fills of the order that is asked for, of     *)
(* whatever command, and of no other order or account; an answer to a      *)
(* placement those of its command (support.rs, taker_legs_for_order).      *)
ASSUME StatusFollowsTakerFills ==
  LET Records == [account : {"alice", "bob"}, order_id : {"o1", "o2"}, sequence : {7, 8},
                  liquidity : {"Maker", "Taker"}, quantity : {1}, price : {5},
                  execution_id : {ExecutionId("u", 7, 0)}, fee : {0}, executed_at : {5}]
  IN  \A a, b \in Records : \A p \in Placements :
        LET legs == TakerLegsForOrder(<<a, b>>, "alice", "o1")
            own == {i \in 1..2 : /\ <<a, b>>[i].account = "alice" /\ <<a, b>>[i].order_id = "o1"
                                 /\ <<a, b>>[i].liquidity = "Taker"}
            report == RenderStatusReport(p, legs)
        IN  /\ report.cum_qty = Cardinality(own)
            /\ Fits(p, legs) => report.leaves_qty + report.cum_qty = p.quantity
            /\ report.ord_status = "New" <=> own = {}
            /\ report.ord_status = "Filled" <=> Cardinality(own) >= p.quantity
            /\ \A s \in {7, 8} :
                 ToSet(ImmediateExecutionRecords(<<a, b>>, "alice", "o1", s))
                   = {<<a, b>>[i] : i \in {i \in own : <<a, b>>[i].sequence = s}}

(* The reports of one mass cancel have an id each, over all underlyings    *)
(* (order_flow.rs, render_mass_cancel_leg_report).                         *)
ASSUME SweptIdsDiffer ==
  \A swept \in [1..3 -> [order_id : {"o1"}, underlying : {"u", "v"}, symbol : {"s"},
                         side : {"Buy"}, price : {{5}}, sequence : {7, 8}, at : {4}]] :
    LET reports == RenderMassCancel(swept)
    IN  /\ \A i, j \in DOMAIN reports : reports[i].exec_id = reports[j].exec_id => i = j
        /\ \A i \in DOMAIN reports : reports[i].secondary_exec_id = swept[i].sequence

(* A cancel reject tells only the unknown order apart; no reason is lost   *)
(* on the way to a code (order_flow.rs, ord_rej_reason).                   *)
ASSUME RejectsHaveACode ==
  \A reason \in DOMAIN OrdRejReason :
    /\ CxlRejReason(reason) \in {1, 2} /\ (CxlRejReason(reason) = 1 <=> reason = "NotFound")
    /\ OrdRejReason[reason] = 99 <=> reason \in {"Throttle", "Internal"}

(* A replacement stands in for the order it names: it names both ids, has  *)
(* the price of a limit order only, and rests (order_flow.rs,              *)
(* to_replace_command).                                                    *)
ASSUME ReplacementsRest ==
  \A type \in {"Limit", "Market"} : \A price \in {{}, {5}} :
    LET replace == [symbol |-> "s", key |-> "k2", orig |-> "k1", side |-> "Sell", type |-> type,
                    price |-> price, quantity |-> 2]
        command == ToReplaceCommand(replace, "alice", "o1", "o2")
        cancel == ToCancelCommand(replace, "alice", "o1")
    IN  /\ command.order_id # command.new_order_id /\ command.order_id = cancel.order_id
        /\ command.client_order_id # command.orig_client_order_id
        /\ TifRests(command.time_in_force)
        /\ command.limit_price = {} <=> type = "Market" \/ price = {}

-----------------------------------------------------------------------------
(* The books a WebSocket and a FIX client keep.                            *)
Levels(side) == {<<>>, <<[price |-> 1, quantity |-> 2]>>,
                 <<[price |-> 1, quantity |-> 2], [price |-> 3, quantity |-> 1]>>}
Changes == [side : {"Bid", "Ask"}, price : {1, 3}, quantity : {0, 4}]
At(book, at, size) ==
  IF size = 0 THEN [p \in DOMAIN book \ {at} |-> book[p]] ELSE (at :> size) @@ book
WsSnapshot(bids, asks) ==
  FoldLeft(LAMBDA book, l : At(book, <<"Ask", l.price>>, l.quantity),
           FoldLeft(LAMBDA book, l : At(book, <<"Bid", l.price>>, l.quantity), <<>>, bids), asks)
WsDelta(book, changes) ==
  FoldLeft(LAMBDA b, c : At(b, <<c.side, c.price>>, c.quantity), book, changes)
SideOf(type) == IF type = "Bid" THEN "Bid" ELSE "Ask"
FixSnapshot(entries) ==
  FoldLeft(LAMBDA book, e : At(book, <<SideOf(e.type), e.price>>, e.size), <<>>, entries)
FixDelta(book, entries) ==
  FoldLeft(LAMBDA b, e : IF e.action = "Delete" THEN At(b, <<SideOf(e.type), e.price>>, 0)
                         ELSE At(b, <<SideOf(e.type), e.price>>, e.size), book, entries)
OfSides(book, sides) == [at \in {a \in DOMAIN book : a[1] \in sides} |-> book[at]]

(* The book a FIX client folds from its snapshot and its increments is the *)
(* WebSocket book of the sides it asked for, under the same sequence       *)
(* (md_projection.rs, snapshot_entries and incremental_entries).           *)
ASSUME FixBookIsTheWsBook ==
  \A types \in {<<"Bid">>, <<"Offer">>, <<"Offer", "Bid">>} :
    LET sides == RequestedSides(types)
    IN  \A bids \in Levels("Bid"), asks \in Levels("Ask") : \A changes \in [1..2 -> Changes] :
          LET snapshot == [is |-> "OrderbookSnapshot", sequence |-> 3, bids |-> bids, asks |-> asks]
              delta == [is |-> "OrderbookDelta", sequence |-> 4, changes |-> changes]
          IN  \A w \in SnapshotProjection(snapshot, sides) :
              \A x \in IncrementalProjection(delta, sides) :
                /\ SnapshotProjection(delta, sides) = {} /\ IncrementalProjection(snapshot, sides) = {}
                /\ w[1] = snapshot.sequence /\ x[1] = delta.sequence
                /\ FixDelta(FixSnapshot(w[2]), x[2])
                     = OfSides(WsDelta(WsSnapshot(bids, asks), changes), {SideOf(t) : t \in ToSet(types)})

(* A request is for the trade tape, which FIX does not serve, or for a     *)
(* side of the book (md_projection.rs, from_entry_types).                  *)
ASSUME RequestsAskForSomething ==
  \A types \in UNION {[1..n -> {"Bid", "Offer", "Trade"}] : n \in 1..3} :
    RequestsTradeTape(types) \/ RequestedSides(types) # {}
=============================================================================
