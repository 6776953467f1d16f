------------------------------ MODULE FixWire ------------------------------
(***************************************************************************)
(* The fields and the messages of the FIX dialect.                         *)
(*                                                                         *)
(* The text of one field and the value it stands for: decimal prices and   *)
(* integer cents (price.rs), the integers of the codec (codec.rs), UTC     *)
(* timestamps (header.rs) and the closed enumerations (enums.rs).  A text  *)
(* is a sequence of characters.  A reader answers the set of the values it *)
(* reads, {} when it refuses.  An instant is its days and the milliseconds *)
(* of its day: one number of milliseconds is the same value, out of the    *)
(* reach of 32 bits.                                                       *)
(*                                                                         *)
(* The messages (mod.rs, session.rs, order.rs, execution.rs,               *)
(* marketdata.rs): how a frame is decoded into a message, in the order the *)
(* code makes its checks, which reject a failure becomes (error.rs), and   *)
(* how a message is encoded.  A frame is its begin string, its message     *)
(* type and its fields, each a tag and a text; the framing itself (length, *)
(* checksum) is the codec library's.  A message is a function from the     *)
(* names of its fields to their values; an optional field that is absent   *)
(* is not in its domain, and a repeating group is the sequence of its      *)
(* entries.                                                                *)
(***************************************************************************)
EXTENDS Integers, Sequences, SequencesExt, Validation

CONSTANTS MaxU128, MaxU64, MaxI64, MaxU32, MaxU16  \* the widths of the code's integers

ASSUME FixWidths == /\ {MaxU128, MaxU64, MaxI64, MaxU32, MaxU16} \subseteq Nat
                    /\ 100 < MaxU16 /\ MaxU16 < MaxU32 /\ MaxU32 < MaxI64
                    /\ MaxI64 < MaxU64 /\ MaxU64 <= MaxU128

CentsScale == 2
Digits == <<"0", "1", "2", "3", "4", "5", "6", "7", "8", "9">>
NoUtf8 == "no utf-8"    \* a byte that is no text

IsDigit(c) == Contains(Digits, c)
DigitValue(c) == {d \in 0..9 : Digits[d + 1] = c}

(* What the digits of a text fold to with checked arithmetic.              *)
FoldDigits(text, max) ==
  FoldLeft(LAMBDA acc, c : {n \in {10 * a + d : a \in acc, d \in DigitValue(c)} : n <= max},
           {0}, text)

-----------------------------------------------------------------------------
(* Prices and cents.                                                       *)
Dots(text) == {i \in DOMAIN text : text[i] = "."}
WholePart(text) ==
  IF Dots(text) = {} THEN text
  ELSE SubSeq(text, 1, (CHOOSE i \in Dots(text) : TRUE) - 1)
FractionPart(text) ==
  IF Dots(text) = {} THEN <<>>
  ELSE SubSeq(text, (CHOOSE i \in Dots(text) : TRUE) + 1, Len(text))

FractionalCents(fraction) ==
  CHOOSE n \in FoldDigits(fraction \o [i \in 1..(CentsScale - Len(fraction)) |-> "0"], MaxU128) : TRUE

CentsOf(text) ==
  {c \in {100 * whole + FractionalCents(FractionPart(text)) :
            whole \in FoldDigits(WholePart(text), MaxU128)} : c <= MaxU64}

PriceError(text) ==
  IF text = <<>> THEN {"Empty"}
  ELSE IF \/ \E i \in DOMAIN text : ~(IsDigit(text[i]) \/ text[i] = ".")
          \/ \E i, j \in Dots(text) : i # j
          \/ WholePart(text) = <<>>
          \/ Dots(text) # {} /\ FractionPart(text) = <<>>
       THEN {"Malformed"}
  ELSE IF Len(FractionPart(text)) > CentsScale THEN {"TooManyFractionalDigits"}
  ELSE When(CentsOf(text) = {}, "OutOfRange")

ParseDecimalToCents(text) == IF PriceError(text) = {} THEN CentsOf(text) ELSE {}

(* The decimal digits of a number, and of its last n ones with their zeros.*)
DecimalDigits[n \in Nat] ==
  IF n < 10 THEN <<Digits[n + 1]>> ELSE Append(DecimalDigits[n \div 10], Digits[(n % 10) + 1])
Padded(n, width) ==
  [i \in 1..(width - Len(DecimalDigits[n])) |-> "0"] \o DecimalDigits[n]

RenderCentsToDecimal(cents) ==
  DecimalDigits[cents \div 100] \o <<".">> \o Padded(cents % 100, CentsScale)

IsNegative(text) == text # <<>> /\ text[1] = "-"
Magnitude(text) == IF IsNegative(text) THEN Tail(text) ELSE text
SignedError(text) ==
  FirstError(<<PriceError(Magnitude(text)),
               When(\E c \in ParseDecimalToCents(Magnitude(text)) : c > MaxI64, "OutOfRange")>>)
ParseSignedDecimalToCents(text) ==
  IF SignedError(text) # {} THEN {}
  ELSE {IF IsNegative(text) THEN -c ELSE c : c \in ParseDecimalToCents(Magnitude(text))}
RenderSignedCentsToDecimal(value) ==
  IF value < 0 THEN <<"-">> \o RenderCentsToDecimal(-value) ELSE RenderCentsToDecimal(value)

IsWireFormat(error) == error \in {"Empty", "Malformed", "TooManyFractionalDigits", "OutOfRange"}

(* The whole seam of an instrument with a tick.                            *)
ScaleError(tick) == When(tick = 0, "ZeroTick")
TickError(tick, text) ==
  FirstError(<<PriceError(text),
               When(\E c \in ParseDecimalToCents(text) : c % tick # 0, "OffTick")>>)

-----------------------------------------------------------------------------
(* Integers: digits, with a plus sign allowed in front of them.            *)
ParseUint(text, max) ==
  LET digits == IF Len(text) > 1 /\ text[1] = "+" THEN Tail(text) ELSE text
  IN  IF digits = <<>> THEN {} ELSE FoldDigits(digits, max)
ParseU32(text) == {n \in ParseUint(text, MaxU64) : n <= MaxU32}

ParseBool(text) == CASE text = <<"Y">> -> {TRUE} [] text = <<"N">> -> {FALSE} [] OTHER -> {}
RenderBool(flag) == IF flag THEN <<"Y">> ELSE <<"N">>

-----------------------------------------------------------------------------
(* Timestamps.                                                             *)
MsPerDay == 86400000
IsValidUtcTimestamp(text) ==
  /\ Len(text) \in {17, 21, 24, 27}
  /\ \A i \in DOMAIN text :
       CASE i = 9 -> text[i] = "-"
         [] i \in {12, 15} -> text[i] = ":"
         [] i = 18 -> text[i] = "."
         [] OTHER -> IsDigit(text[i])

CivilFromDays(days) ==
  LET z == days + 719468
      doe == z % 146097
      yoe == (doe - doe \div 1460 + doe \div 36524 - doe \div 146096) \div 365
      doy == doe - (365 * yoe + yoe \div 4 - yoe \div 100)
      mp == (5 * doy + 2) \div 153
      month == IF mp < 10 THEN mp + 3 ELSE mp - 9
      year == yoe + 400 * (z \div 146097)
  IN  [year |-> IF month <= 2 THEN year + 1 ELSE year, month |-> month,
       day |-> doy - (153 * mp + 2) \div 5 + 1]

DaysFromCivil(year, month, day) ==
  LET y == IF month <= 2 THEN year - 1 ELSE year
      yoe == y % 400
      mp == IF month > 2 THEN month - 3 ELSE month + 9
      doy == (153 * mp + 2) \div 5 + day - 1
  IN  146097 * (y \div 400) + 365 * yoe + yoe \div 4 - yoe \div 100 + doy - 719468

FromEpochMs(instant) ==
  LET date == CivilFromDays(instant.days)
      secs == instant.ms \div 1000
  IN  Padded(date.year, 4) \o Padded(date.month, 2) \o Padded(date.day, 2) \o <<"-">>
      \o Padded(secs \div 3600, 2) \o <<":">> \o Padded((secs % 3600) \div 60, 2) \o <<":">>
      \o Padded(secs % 60, 2) \o <<".">> \o Padded(instant.ms % 1000, 3)

(* The instant of a valid text, and none before the epoch.                 *)
ToEpochMs(text) ==
  LET Number(from, to) == CHOOSE n \in FoldDigits(SubSeq(text, from, to), 9999) : TRUE
      millis == IF Len(text) = 17 THEN 0 ELSE Number(19, 21)
      days == DaysFromCivil(Number(1, 4), Number(5, 6), Number(7, 8))
      ms == 1000 * (3600 * Number(10, 11) + 60 * Number(13, 14) + Number(16, 17)) + millis
  IN  {i \in {[days |-> days + ms \div MsPerDay, ms |-> ms % MsPerDay]} : i.days >= 0}

-----------------------------------------------------------------------------
(* The closed enumerations: what each of their members is on the wire.     *)
FixEnums ==
  [OrderSide |-> [Buy |-> "1", Sell |-> "2"],
   OrdType |-> [Market |-> "1", Limit |-> "2"],
   TimeInForce |-> [Day |-> "0", Gtc |-> "1", Ioc |-> "3", Fok |-> "4", Gtd |-> "6"],
   ExecType |-> [New |-> "0", Trade |-> "F", Canceled |-> "4", Replaced |-> "5",
                 Rejected |-> "8", Expired |-> "C"],
   OrdStatus |-> [New |-> "0", PartiallyFilled |-> "1", Filled |-> "2", Canceled |-> "4",
                  Replaced |-> "5", Rejected |-> "8", Expired |-> "C"],
   MassCancelRequestType |-> [Security |-> "1", All |-> "7"],
   MassCancelResponse |-> [Rejected |-> "0", Security |-> "1", All |-> "7"],
   MdEntryType |-> [Bid |-> "0", Offer |-> "1", Trade |-> "2"],
   SubscriptionRequestType |-> [SnapshotPlusUpdates |-> "1", Unsubscribe |-> "2"],
   MdUpdateAction |-> [New |-> "0", Change |-> "1", Delete |-> "2"],
   CxlRejResponseTo |-> [OrderCancelRequest |-> "1", OrderCancelReplaceRequest |-> "2"],
   LastLiquidityInd |-> [Maker |-> "1", Taker |-> "2"],
   CommType |-> [Absolute |-> "3"]]

ToFix(enum, member) == <<FixEnums[enum][member]>>
FromFix(enum, text) == {v \in DOMAIN FixEnums[enum] : ToFix(enum, v) = text}
DefaultTimeInForce == "Gtc"
-----------------------------------------------------------------------------
(* The messages.                                                            *)

CONSTANTS Symbols,           \* the texts that are canonical symbols
          CompIdBytes,       \* the longest CompID
          MaxFields,         \* MAX_FIELDS_PER_MESSAGE
          MaxGroupEntries    \* MAX_GROUP_ENTRIES

BeginString == "FIX.4.4"

TagOf ==
  [SenderCompID |-> 49, TargetCompID |-> 56, MsgSeqNum |-> 34, SendingTime |-> 52,
   EncryptMethod |-> 98, HeartBtInt |-> 108, Username |-> 553, Password |-> 554,
   ResetSeqNumFlag |-> 141, Text |-> 58, TestReqID |-> 112, BeginSeqNo |-> 7,
   EndSeqNo |-> 16, NewSeqNo |-> 36, GapFillFlag |-> 123, RefSeqNum |-> 45,
   SessionRejectReason |-> 373, RefTagID |-> 371, RefMsgType |-> 372, Account |-> 1,
   ClOrdID |-> 11, OrigClOrdID |-> 41, Symbol |-> 55, Side |-> 54, TransactTime |-> 60,
   OrdType |-> 40, Price |-> 44, OrderQty |-> 38, TimeInForce |-> 59, ExpireTime |-> 126,
   OrderID |-> 37, ExecID |-> 17, ExecType |-> 150, OrdStatus |-> 39, LeavesQty |-> 151,
   CumQty |-> 14, LastQty |-> 32, LastPx |-> 31, SecondaryExecID |-> 527, Commission |-> 12,
   CommType |-> 13, LastLiquidityInd |-> 851, OrdRejReason |-> 103, CxlRejResponseTo |-> 434,
   CxlRejReason |-> 102, MassCancelRequestType |-> 530, MassCancelResponse |-> 531,
   TotalAffectedOrders |-> 533, NoAffectedOrders |-> 534, AffectedOrderID |-> 535,
   MDReqID |-> 262, SubscriptionRequestType |-> 263, MarketDepth |-> 264,
   NoMDEntryTypes |-> 267, MDEntryType |-> 269, NoRelatedSym |-> 146, RptSeq |-> 83,
   NoMDEntries |-> 268, MDEntryPx |-> 270, MDEntrySize |-> 271, MDUpdateAction |-> 279,
   MDReqRejReason |-> 281, BusinessRejectReason |-> 380]

(* The field readers of the codec, and what each makes of a text.          *)
CompIds == {"SenderCompID", "TargetCompID"}
U64Fields == {"MsgSeqNum", "EncryptMethod", "BeginSeqNo", "EndSeqNo", "NewSeqNo", "RefSeqNum",
              "OrderQty", "LeavesQty", "CumQty", "LastQty", "SecondaryExecID", "RptSeq",
              "MDEntrySize"}
U32Fields == {"HeartBtInt", "TotalAffectedOrders", "MarketDepth"}
U16Fields == {"SessionRejectReason", "RefTagID", "OrdRejReason", "CxlRejReason",
              "MDReqRejReason", "BusinessRejectReason"}
BoolFields == {"ResetSeqNumFlag", "GapFillFlag"}
TimeFields == {"SendingTime", "TransactTime", "ExpireTime"}
PriceFields == {"Price", "LastPx", "MDEntryPx"}
EnumOf == [Side |-> "OrderSide", OrdType |-> "OrdType", TimeInForce |-> "TimeInForce",
           ExecType |-> "ExecType", OrdStatus |-> "OrdStatus", CommType |-> "CommType",
           MassCancelRequestType |-> "MassCancelRequestType",
           MassCancelResponse |-> "MassCancelResponse", MDEntryType |-> "MdEntryType",
           SubscriptionRequestType |-> "SubscriptionRequestType",
           MDUpdateAction |-> "MdUpdateAction", CxlRejResponseTo |-> "CxlRejResponseTo",
           LastLiquidityInd |-> "LastLiquidityInd"]

ReadText(name, text) ==
  CASE Contains(text, NoUtf8) -> {}
    [] name \in CompIds -> {t \in {text} : Len(t) <= CompIdBytes}
    [] name \in U64Fields -> ParseUint(text, MaxU64)
    [] name \in U32Fields -> ParseU32(text)
    [] name \in U16Fields -> ParseUint(text, MaxU16)
    [] name \in BoolFields -> ParseBool(text)
    [] name \in TimeFields -> {t \in {text} : IsValidUtcTimestamp(t)}
    [] name \in PriceFields -> ParseDecimalToCents(text)
    [] name = "Commission" -> ParseSignedDecimalToCents(text)
    [] name = "Symbol" -> {text} \cap Symbols
    [] name \in DOMAIN EnumOf -> FromFix(EnumOf[name], text)
    [] OTHER -> {text}

WriteText(name, value) ==
  CASE name \in U64Fields \cup U32Fields \cup U16Fields -> DecimalDigits[value]
    [] name \in BoolFields -> RenderBool(value)
    [] name \in PriceFields -> RenderCentsToDecimal(value)
    [] name = "Commission" -> RenderSignedCentsToDecimal(value)
    [] name \in DOMAIN EnumOf -> ToFix(EnumOf[name], value)
    [] OTHER -> value

FieldError(kind, name) == [kind |-> kind, tag |-> TagOf[name]]
TextError(name, text) ==
  CASE Contains(text, NoUtf8) -> {FieldError("IncorrectDataFormat", name)}
    [] name = "EncryptMethod" /\ ParseUint(text, MaxU64) \notin {{}, {0}} ->
         {FieldError("ValueIsIncorrect", name)}
    [] ReadText(name, text) # {} -> {}
    [] name \in PriceFields \cup {"Commission"} -> {FieldError("Price", name)}
    [] name = "Symbol" -> {FieldError("MalformedSymbol", name)}
    [] name \in DOMAIN EnumOf -> {FieldError("ValueIsIncorrect", name)}
    [] OTHER -> {FieldError("IncorrectDataFormat", name)}

-----------------------------------------------------------------------------
(* The fields of each message: in the order they are written, the optional *)
(* ones, and the steps of its decoder, which are names and conditions.     *)
HeaderFields == <<"SenderCompID", "TargetCompID", "MsgSeqNum", "SendingTime">>
Plain(fields, optional) == [encode |-> fields, decode |-> fields, optional |-> optional]
LogonLayout ==
  Plain(<<"EncryptMethod", "HeartBtInt", "Username", "Password", "ResetSeqNumFlag">>,
                {"ResetSeqNumFlag"})
LogoutLayout == Plain(<<"Text">>, {"Text"})
HeartbeatLayout == Plain(<<"TestReqID">>, {"TestReqID"})
TestRequestLayout == Plain(<<"TestReqID">>, {})
ResendRequestLayout == Plain(<<"BeginSeqNo", "EndSeqNo">>, {})
SequenceResetLayout == Plain(<<"NewSeqNo", "GapFillFlag">>, {"GapFillFlag"})
RejectLayout ==
  [encode |-> <<"RefSeqNum", "RefTagID", "SessionRejectReason", "Text">>,
   decode |-> <<"SessionRejectReason", "RefSeqNum", "RefTagID", "Text">>,
   optional |-> {"SessionRejectReason", "RefTagID", "Text"}]
NewOrderSingleLayout ==
  [encode |-> <<"ClOrdID", "Account", "Symbol", "Side", "TransactTime", "OrdType",
                "Price", "OrderQty", "TimeInForce", "ExpireTime">>,
   decode |-> <<"OrdType", "Price", "limit needs price", "TimeInForce", "ExpireTime",
                "gtd needs expiry", "ClOrdID", "Account", "Symbol", "Side",
                "TransactTime", "OrderQty">>,
   optional |-> {"Account", "Price", "TimeInForce", "ExpireTime"}]
OrderCancelRequestLayout == Plain(<<"OrigClOrdID", "ClOrdID", "Symbol", "Side">>, {})
OrderCancelReplaceRequestLayout ==
  [encode |-> <<"OrigClOrdID", "ClOrdID", "Symbol", "Side", "OrdType", "Price",
                "OrderQty">>,
   decode |-> <<"OrdType", "Price", "limit needs price", "OrigClOrdID", "ClOrdID",
                "Symbol", "Side", "OrderQty">>,
   optional |-> {"Price"}]
OrderMassCancelRequestLayout ==
  [encode |-> <<"ClOrdID", "MassCancelRequestType", "Symbol">>,
   decode |-> <<"MassCancelRequestType", "Symbol", "security needs symbol", "ClOrdID">>,
   optional |-> {"Symbol"}]
OrderStatusRequestLayout ==
  [encode |-> <<"OrderID", "ClOrdID", "Symbol">>,
   decode |-> <<"OrderID", "ClOrdID", "one of the ids", "Symbol">>,
   optional |-> {"OrderID", "ClOrdID"}]
ExecutionReportLayout ==
  [encode |-> <<"OrderID", "ExecID", "ExecType", "OrdStatus", "Symbol", "Side",
                "LeavesQty", "CumQty", "LastQty", "LastPx", "Price", "SecondaryExecID",
                "TransactTime", "Commission", "CommType", "LastLiquidityInd",
                "OrdRejReason", "Text">>,
   decode |-> <<"Commission", "CommType", "fee and its type", "LastLiquidityInd",
                "OrderID", "ExecID", "ExecType", "OrdStatus", "Symbol", "Side",
                "LeavesQty", "CumQty", "LastQty", "LastPx", "Price", "SecondaryExecID",
                "TransactTime", "OrdRejReason", "Text">>,
   optional |-> {"LastQty", "LastPx", "Price", "Commission", "CommType",
                 "LastLiquidityInd", "OrdRejReason", "Text"}]
OrderCancelRejectLayout ==
  Plain(<<"OrderID", "ClOrdID", "OrigClOrdID", "OrdStatus", "CxlRejResponseTo",
          "CxlRejReason", "Text">>, {"Text"})
OrderMassCancelReportLayout ==
  [encode |-> <<"MassCancelResponse", "TotalAffectedOrders", "NoAffectedOrders">>,
   decode |-> <<"NoAffectedOrders", "MassCancelResponse", "TotalAffectedOrders">>,
   optional |-> {}]
BusinessMessageRejectLayout ==
  Plain(<<"RefSeqNum", "RefMsgType", "BusinessRejectReason", "Text">>, {"Text"})
MarketDataRequestLayout ==
  [encode |-> <<"MDReqID", "SubscriptionRequestType", "MarketDepth", "NoMDEntryTypes",
                "NoRelatedSym">>,
   decode |-> <<"NoMDEntryTypes", "NoRelatedSym", "MDReqID", "SubscriptionRequestType",
                "MarketDepth">>,
   optional |-> {}]
MarketDataSnapshotFullRefreshLayout ==
  [encode |-> <<"MDReqID", "Symbol", "RptSeq", "NoMDEntries">>,
   decode |-> <<"NoMDEntries", "MDReqID", "Symbol", "RptSeq">>,
   optional |-> {}]
MarketDataIncrementalRefreshLayout ==
  [encode |-> <<"MDReqID", "RptSeq", "NoMDEntries">>,
   decode |-> <<"NoMDEntries", "MDReqID", "RptSeq">>,
   optional |-> {}]
MarketDataRequestRejectLayout == Plain(<<"MDReqID", "MDReqRejReason", "Text">>, {"Text"})
Layouts ==
  [Logon |-> LogonLayout,
   Logout |-> LogoutLayout,
   Heartbeat |-> HeartbeatLayout,
   TestRequest |-> TestRequestLayout,
   ResendRequest |-> ResendRequestLayout,
   SequenceReset |-> SequenceResetLayout,
   Reject |-> RejectLayout,
   NewOrderSingle |-> NewOrderSingleLayout,
   OrderCancelRequest |-> OrderCancelRequestLayout,
   OrderCancelReplaceRequest |-> OrderCancelReplaceRequestLayout,
   OrderMassCancelRequest |-> OrderMassCancelRequestLayout,
   OrderStatusRequest |-> OrderStatusRequestLayout,
   ExecutionReport |-> ExecutionReportLayout,
   OrderCancelReject |-> OrderCancelRejectLayout,
   OrderMassCancelReport |-> OrderMassCancelReportLayout,
   BusinessMessageReject |-> BusinessMessageRejectLayout,
   MarketDataRequest |-> MarketDataRequestLayout,
   MarketDataSnapshotFullRefresh |-> MarketDataSnapshotFullRefreshLayout,
   MarketDataIncrementalRefresh |-> MarketDataIncrementalRefreshLayout,
   MarketDataRequestReject |-> MarketDataRequestRejectLayout]

(* The members of each repeating group; the first one delimits an entry.   *)
GroupMembers(type, name) ==
  CASE name = "NoAffectedOrders" -> <<"AffectedOrderID">>
    [] name = "NoMDEntryTypes" -> <<"MDEntryType">>
    [] name = "NoRelatedSym" -> <<"Symbol">>
    [] type = "MarketDataSnapshotFullRefresh" -> <<"MDEntryType", "MDEntryPx", "MDEntrySize">>
    [] OTHER -> <<"MDUpdateAction", "MDEntryType", "Symbol", "MDEntryPx", "MDEntrySize">>
GroupNames == {"NoAffectedOrders", "NoMDEntryTypes", "NoRelatedSym", "NoMDEntries"}
NeededGroups == {"NoMDEntryTypes", "NoRelatedSym"}

-----------------------------------------------------------------------------
(* FieldBag: the first text of a tag, and the entries of a group.          *)
Find(fields, name) ==
  LET found == {i \in DOMAIN fields : fields[i].tag = TagOf[name]}
  IN  {fields[i].text : i \in {i \in found : \A j \in found : i <= j}}
Has(fields, name) == Find(fields, name) # {}

ReqError(fields, name) ==
  IF Has(fields, name) THEN UNION {TextError(name, t) : t \in Find(fields, name)}
  ELSE {FieldError("MissingRequiredField", name)}
OptError(fields, name) == UNION {TextError(name, t) : t \in Find(fields, name)}
ValuesOf(fields, name) == UNION {ReadText(name, t) : t \in Find(fields, name)}

MemberTags(type, name) == {TagOf[m] : m \in ToSet(GroupMembers(type, name))}
Delimiter(type, name) == TagOf[GroupMembers(type, name)[1]]

(* The fields after the count, up to the first that is not of the group.   *)
GroupRegion(type, fields, name) ==
  LET count == CHOOSE i \in DOMAIN fields :
                 /\ fields[i].tag = TagOf[name]
                 /\ \A j \in DOMAIN fields : fields[j].tag = TagOf[name] => i <= j
      ends == {i \in (count + 1)..Len(fields) : fields[i].tag \notin MemberTags(type, name)}
                \cup {Len(fields) + 1}
  IN  SubSeq(fields, count + 1, (CHOOSE i \in ends : \A j \in ends : i <= j) - 1)
GroupStarts(type, fields, name) ==
  LET region == GroupRegion(type, fields, name)
  IN  {i \in DOMAIN region : region[i].tag = Delimiter(type, name)}
GroupEntries(type, fields, name) ==
  LET region == GroupRegion(type, fields, name)
      starts == GroupStarts(type, fields, name)
      order == SetToSortSeq(starts, <)
      End(k) == IF k < Len(order) THEN order[k + 1] - 1 ELSE Len(region)
  IN  [k \in DOMAIN order |-> SubSeq(region, order[k], End(k))]

DeclaredCount(fields, name) == UNION {ParseU32(t) : t \in Find(fields, name)}
GroupError(type, fields, name) ==
  IF ~Has(fields, name) THEN {FieldError("MissingRequiredField", name)}
  ELSE IF DeclaredCount(fields, name) = {} THEN {FieldError("IncorrectDataFormat", name)}
  ELSE IF \E n \in DeclaredCount(fields, name) : n > MaxGroupEntries
       THEN {FieldError("TooManyGroupEntries", name)}
  ELSE LET region == GroupRegion(type, fields, name)
           entries == GroupEntries(type, fields, name)
       IN  IF \/ region # <<>> /\ region[1].tag # Delimiter(type, name)
              \/ DeclaredCount(fields, name) # {Len(entries)}
           THEN {FieldError("GroupCountMismatch", name)}
           ELSE IF name \in NeededGroups /\ entries = <<>> THEN {FieldError("EmptyGroup", name)}
           ELSE FirstError(FlattenSeq([k \in DOMAIN entries |->
                  [i \in DOMAIN GroupMembers(type, name) |->
                     ReqError(entries[k], GroupMembers(type, name)[i])]]))
GroupValue(type, fields, name) ==
  LET entries == GroupEntries(type, fields, name)
  IN  [k \in DOMAIN entries |->
         [m \in ToSet(GroupMembers(type, name)) |->
            CHOOSE v \in ValuesOf(entries[k], m) : TRUE]]

(* A tag twice, unless it is one only groups have or a symbol that repeats.*)
PureGroupMembers == {TagOf[n] : n \in {"MDEntryType", "MDEntryPx", "MDEntrySize",
                                       "MDUpdateAction", "AffectedOrderID"}}
SymbolRepeatsIn(type) == type \in {"MarketDataRequest", "MarketDataIncrementalRefresh"}
DuplicateError(type, fields) ==
  LET repeated == {i \in DOMAIN fields :
                     /\ fields[i].tag \notin PureGroupMembers
                     /\ ~(fields[i].tag = TagOf["Symbol"] /\ SymbolRepeatsIn(type))
                     /\ \E j \in 1..(i - 1) : fields[j].tag = fields[i].tag}
  IN  {[kind |-> "DuplicateTag", tag |-> fields[i].tag] :
         i \in {i \in repeated : \A j \in repeated : i <= j}}

-----------------------------------------------------------------------------
(* What a decoder asks of several fields together.                         *)
ConditionError(fields, condition) ==
  CASE condition = "limit needs price" ->
         When("Limit" \in ValuesOf(fields, "OrdType") /\ ~Has(fields, "Price"),
              FieldError("MissingConditionalField", "Price"))
    [] condition = "gtd needs expiry" ->
         When("Gtd" \in ValuesOf(fields, "TimeInForce") /\ ~Has(fields, "ExpireTime"),
              FieldError("MissingConditionalField", "ExpireTime"))
    [] condition = "security needs symbol" ->
         When("Security" \in ValuesOf(fields, "MassCancelRequestType") /\ ~Has(fields, "Symbol"),
              FieldError("MissingConditionalField", "Symbol"))
    [] condition = "one of the ids" ->
         When(~Has(fields, "OrderID") /\ ~Has(fields, "ClOrdID"),
              FieldError("MissingRequiredChoice", "OrderID"))
    [] condition = "fee and its type" ->
         When(Has(fields, "Commission") # Has(fields, "CommType"),
              FieldError("MissingConditionalField",
                         IF Has(fields, "Commission") THEN "CommType" ELSE "Commission"))

StepError(type, fields, step) ==
  CASE step \in GroupNames -> GroupError(type, fields, step)
    [] step \notin DOMAIN TagOf -> ConditionError(fields, step)
    [] step \in Layouts[type].optional -> OptError(fields, step)
    [] OTHER -> ReqError(fields, step)

(* The errors of decode: the frame, its header, then the body of its type. *)
DecodeError(frame) ==
  LET steps == Layouts[frame.type].decode
      body == CASE frame.type = "custom" -> <<{[kind |-> "UnsupportedMsgType", tag |-> 35]}>>
                [] frame.type = "other" ->
                     <<{[kind |-> "UnsupportedApplicationMsgType", tag |-> 35]}>>
                [] OTHER -> [i \in DOMAIN steps |-> StepError(frame.type, frame.fields, steps[i])]
  IN  FirstError(<<When(frame.begin # BeginString, [kind |-> "BeginStringMismatch", tag |-> 8]),
                   When(Len(frame.fields) > MaxFields, [kind |-> "TooManyFields", tag |-> 0]),
                   DuplicateError(frame.type, frame.fields)>>
                 \o [i \in DOMAIN HeaderFields |-> ReqError(frame.fields, HeaderFields[i])]
                 \o body)

Decode(frame) ==
  LET layout == Layouts[frame.type]
      names == ToSet(HeaderFields) \cup
               {n \in ToSet(layout.encode) : n \notin layout.optional \/ Has(frame.fields, n)}
      fix == IF frame.type = "NewOrderSingle" THEN {"TimeInForce"} ELSE {}
  IN  [n \in names \cup fix |->
         IF n \in GroupNames THEN GroupValue(frame.type, frame.fields, n)
         ELSE IF n \in names THEN CHOOSE v \in ValuesOf(frame.fields, n) : TRUE
         ELSE DefaultTimeInForce]

Field(name, value) == <<[tag |-> TagOf[name], text |-> WriteText(name, value)]>>
EncodeGroup(type, name, entries) ==
  <<[tag |-> TagOf[name], text |-> DecimalDigits[Len(entries)]]>>
  \o FlattenSeq([k \in DOMAIN entries |->
       FlattenSeq([i \in DOMAIN GroupMembers(type, name) |->
         LET m == GroupMembers(type, name)[i] IN Field(m, entries[k][m])])])
Encode(type, message) ==
  LET names == HeaderFields \o Layouts[type].encode
  IN  [begin |-> BeginString, type |-> type,
       fields |-> FlattenSeq([i \in DOMAIN names |->
         CASE names[i] \notin DOMAIN message -> <<>>
           [] names[i] \in GroupNames -> EncodeGroup(type, names[i], message[names[i]])
           [] OTHER -> Field(names[i], message[names[i]])])]

-----------------------------------------------------------------------------
(* The reject a failure becomes: the session's, with a reason and the tag  *)
(* it is about, or that of an application message nobody handles.          *)
ReasonCode ==
  [RequiredTagMissing |-> 1, ValueIsIncorrect |-> 5, IncorrectDataFormat |-> 6,
   CompIdProblem |-> 9, SendingTimeAccuracy |-> 10, InvalidMsgType |-> 11,
   TagAppearsMoreThanOnce |-> 13, IncorrectNumInGroupCount |-> 16]
ReasonOf(code) ==
  IF \E r \in DOMAIN ReasonCode : ReasonCode[r] = code
  THEN CHOOSE r \in DOMAIN ReasonCode : ReasonCode[r] = code ELSE "Other"

RejectRoute(error) ==
  LET session(reason) == [reject |-> "SessionReject", reason |-> ReasonCode[reason],
                          ref_tag |-> {error.tag}]
  IN  CASE error.kind \in {"MissingRequiredField", "MissingConditionalField",
                           "MissingRequiredChoice"} -> session("RequiredTagMissing")
        [] error.kind \in {"BeginStringMismatch", "IncorrectDataFormat", "Price"} ->
             session("IncorrectDataFormat")
        [] error.kind \in {"ValueIsIncorrect", "MalformedSymbol"} -> session("ValueIsIncorrect")
        [] error.kind \in {"EmptyGroup", "GroupCountMismatch", "TooManyGroupEntries"} ->
             session("IncorrectNumInGroupCount")
        [] error.kind = "UnsupportedMsgType" -> session("InvalidMsgType")
        [] error.kind = "DuplicateTag" -> session("TagAppearsMoreThanOnce")
        [] error.kind = "TooManyFields" ->
             [reject |-> "SessionReject", reason |-> 99, ref_tag |-> {}]
        [] OTHER -> [reject |-> "BusinessMessageReject", reason |-> 0, ref_tag |-> {}]
=============================================================================
