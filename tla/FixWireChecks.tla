--------------------------- MODULE FixWireChecks ---------------------------
(***************************************************************************)
(* What the FIX dialect promises of texts and messages, over short texts   *)
(* and small messages.                                                     *)
(***************************************************************************)
EXTENDS FixWire, TLC

ChecksSymbols == {<<"s">>, <<"t">>}
Chars == {"0", "1", "9", ".", "-", "+"}
Texts(n) == UNION {[1..m -> Chars] : m \in 0..n}

(* The canonical form of a decimal: no zero in front, a fraction in full.  *)
TrimZeros(text) ==
  LET kept == {i \in DOMAIN text : text[i] # "0"} \cup {Len(text)}
  IN  SubSeq(text, CHOOSE i \in kept : \A j \in kept : i <= j, Len(text))
IsDecimal(text) ==
  LET at == {i \in DOMAIN text : text[i] = "."}
  IN  /\ \A i \in DOMAIN text \ at : IsDigit(text[i])
      /\ text # <<>> /\ at \cap {1, Len(text)} = {} /\ \A i, j \in at : i = j
FullDecimal(text) ==
  TrimZeros(WholePart(text)) \o <<".">> \o FractionPart(text)
  \o [i \in 1..(2 - Len(FractionPart(text))) |-> "0"]

(* A price is exact or refused: the text the venue accepts is the decimal  *)
(* it will render, up to zeros nobody needs, and a decimal is refused only *)
(* for a part of a cent or a value no u64 holds (price.rs,                 *)
(* parse_decimal_to_cents).                                                *)
ASSUME PricesAreExact ==
  /\ \A c \in 0..MaxU64 : ParseDecimalToCents(RenderCentsToDecimal(c)) = {c}
  /\ \A t \in Texts(5) :
       /\ \A c \in ParseDecimalToCents(t) :
            c \in 0..MaxU64 /\ IsDecimal(t) /\ RenderCentsToDecimal(c) = FullDecimal(t)
       /\ PriceError(t) \subseteq {"Empty", "Malformed"} /\ PriceError(t) # {} <=> ~IsDecimal(t)
       /\ PriceError(t) = {"TooManyFractionalDigits"} => Len(FractionPart(t)) > 2
       /\ Cardinality(PriceError(t)) + Cardinality(ParseDecimalToCents(t)) = 1

(* A fee reads back with its sign, for every amount but the least one,     *)
(* whose magnitude is no i64: that one is refused, not changed.            *)
ASSUME FeesReadBack ==
  /\ \A v \in (-MaxI64)..MaxI64 : ParseSignedDecimalToCents(RenderSignedCentsToDecimal(v)) = {v}
  /\ SignedError(RenderSignedCentsToDecimal(-MaxI64 - 1)) = {"OutOfRange"}
  /\ \A t \in Texts(4) : \A v \in ParseSignedDecimalToCents(t) :
       v \in (-MaxI64)..MaxI64 /\ (v # 0 => (v < 0 <=> t[1] = "-"))

(* A tick refuses exactly the prices between its steps, in the order's own *)
(* context, and never a price that is no text of a price.                  *)
ASSUME TicksRefuseBetween ==
  \A tick \in 1..4, t \in Texts(4) :
    /\ ScaleError(tick) = {} /\ ScaleError(0) # {}
    /\ TickError(tick, t) = {} <=> \E c \in ParseDecimalToCents(t) : \E k \in 0..c : c = k * tick
    /\ \A e \in TickError(tick, t) : IsWireFormat(e) <=> PriceError(t) # {}

(* An integer field is read to the value its digits have, and to nothing   *)
(* when that is wider than the field.                                      *)
ASSUME IntegersAreChecked ==
  /\ \A n \in 0..MaxU64 : ParseUint(DecimalDigits[n], MaxU64) = {n}
  /\ \A n \in 0..(2 * MaxU32) : ParseU32(DecimalDigits[n]) = {n} \cap (0..MaxU32)
  /\ \A n \in 0..(2 * MaxU16) : ParseUint(DecimalDigits[n], MaxU16) = {n} \cap (0..MaxU16)
  /\ \A t \in Texts(4) : \A n \in ParseUint(t, MaxU64) :
       DecimalDigits[n] = TrimZeros(IF t[1] = "+" THEN Tail(t) ELSE t)

-----------------------------------------------------------------------------
(* The calendar, one day after the other.                                  *)
IsLeap(y) == y % 4 = 0 /\ (y % 100 # 0 \/ y % 400 = 0)
MonthDays(y, m) ==
  CASE m = 2 -> IF IsLeap(y) THEN 29 ELSE 28 [] m \in {4, 6, 9, 11} -> 30 [] OTHER -> 31
DayAfter(d) ==
  CASE d.day < MonthDays(d.year, d.month) -> [d EXCEPT !.day = @ + 1]
    [] d.month < 12 -> [d EXCEPT !.month = @ + 1, !.day = 1]
    [] OTHER -> [year |-> d.year + 1, month |-> 1, day |-> 1]

LastDay == 48000    \* past the end of February 2100, which is not a leap year
TimesOfDay == {0, 1, 999, 1000, 59999, 60000, 3599999, 3600000, 86399999}

(* The days the venue names are the days of the calendar, and every        *)
(* instant reads back from the stamp written for it (header.rs,            *)
(* from_epoch_ms and to_epoch_ms).                                         *)
ASSUME StampsReadBack ==
  /\ CivilFromDays(0) = [year |-> 1970, month |-> 1, day |-> 1]
  /\ \A d \in 0..LastDay :
       LET date == CivilFromDays(d)
       IN  /\ CivilFromDays(d + 1) = DayAfter(date)
           /\ DaysFromCivil(date.year, date.month, date.day) = d
  /\ \A d \in {0, 58, 59, 11015, 11016, 47540, 47541}, ms \in TimesOfDay :
       LET stamp == FromEpochMs([days |-> d, ms |-> ms])
       IN  /\ IsValidUtcTimestamp(stamp)
           /\ ToEpochMs(stamp) = {[days |-> d, ms |-> ms]}
           /\ ToEpochMs(SubSeq(stamp, 1, 17)) = {[days |-> d, ms |-> ms - (ms % 1000)]}
           /\ ToEpochMs(stamp \o <<"9", "9", "9">>) = {[days |-> d, ms |-> ms]}
           /\ \A i \in 1..20 : ~IsValidUtcTimestamp(SubSeq(stamp, 1, i)) \/ i = 17
  /\ ToEpochMs(FromEpochMs([days |-> -1, ms |-> 0])) = {}

(* No two members of an enumeration share a wire value and no two fields a *)
(* tag, so a text names one member and a tag one field; a reason code      *)
(* survives a Reject both ways.                                            *)
ASSUME CodesTellApart ==
  /\ \A e \in DOMAIN FixEnums : \A v, w \in DOMAIN FixEnums[e] :
       ToFix(e, v) = ToFix(e, w) => v = w
  /\ \A m, n \in DOMAIN TagOf : TagOf[m] = TagOf[n] => m = n
  /\ \A r, s \in DOMAIN ReasonCode : ReasonCode[r] = ReasonCode[s] => r = s
  /\ \A r \in DOMAIN ReasonCode : ReasonOf(ReasonCode[r]) = r

-----------------------------------------------------------------------------
(* Small messages of every type: the optional fields there and not, and    *)
(* each field with each of its values.                                     *)
Stamp == FromEpochMs([days |-> 59, ms |-> 3600001])
OneGroup(type, name, k) ==
  [m \in ToSet(GroupMembers(type, name)) |->
     CASE m = "MDEntryType" -> IF k = 1 THEN "Offer" ELSE "Bid"
       [] m = "MDUpdateAction" -> "Change"
       [] m \in U64Fields -> 7 [] m \in PriceFields -> 105
       [] m = "Symbol" -> CHOOSE s \in Symbols : TRUE
       [] OTHER -> <<"x", Digits[k]>>]
Values(type, name) ==
  CASE name = "EncryptMethod" -> {0}
    [] name \in U64Fields -> {0, MaxU64} [] name \in U32Fields -> {0, MaxU32}
    [] name \in U16Fields -> {1, MaxU16} [] name \in BoolFields -> BOOLEAN
    [] name \in TimeFields -> {Stamp, SubSeq(Stamp, 1, 17)}
    [] name \in PriceFields -> {0, 105} [] name = "Commission" -> {-10, 0, 250}
    [] name = "Symbol" -> Symbols [] name \in DOMAIN EnumOf -> DOMAIN FixEnums[EnumOf[name]]
    [] name \in GroupNames ->
         {[k \in 1..n |-> OneGroup(type, name, k)] :
            n \in (IF name \in NeededGroups THEN {1, 2} ELSE {0, 1, 2})}
    [] OTHER -> {<<"x">>, <<"y", "z">>}
Names(type) == ToSet(HeaderFields) \cup ToSet(Layouts[type].encode)
SomeMessage(type) == [n \in Names(type) |-> CHOOSE v \in Values(type, n) : TRUE]
IsWhole(type, m) ==
  /\ type \in {"NewOrderSingle", "OrderCancelReplaceRequest"} =>
       "Price" \in DOMAIN m \/ m.OrdType = "Market"
  /\ type = "NewOrderSingle" =>
       {"ExpireTime", "TimeInForce"} \cap DOMAIN m # {"TimeInForce"} \/ m.TimeInForce # "Gtd"
  /\ type = "OrderMassCancelRequest" =>
       "Symbol" \in DOMAIN m \/ m.MassCancelRequestType = "All"
  /\ type = "OrderStatusRequest" => {"OrderID", "ClOrdID"} \cap DOMAIN m # {}
  /\ type = "ExecutionReport" => ("Commission" \in DOMAIN m <=> "CommType" \in DOMAIN m)
Defaulted(type, m) ==
  IF type = "NewOrderSingle" THEN m @@ [TimeInForce |-> "Gtc"] ELSE m
Without(m, names) == [n \in DOMAIN m \ names |-> m[n]]
SomeMessages(type) ==
  {Without(SomeMessage(type), left) : left \in SUBSET Layouts[type].optional}
  \cup UNION {{Without([SomeMessage(type) EXCEPT ![n] = v], {left}) :
                 v \in Values(type, n), left \in Layouts[type].optional \cup {"none"}} :
              n \in Names(type)}

(* A message is accepted when it has what the dialect asks of its fields   *)
(* together (a limit its price, a GTD order its expiry, a fee its type),   *)
(* and then it is read back as it was written.                             *)
ASSUME MessagesReadBack ==
  \A type \in DOMAIN Layouts : \A m \in SomeMessages(type) :
    LET frame == Encode(type, m)
    IN  /\ DecodeError(frame) = {} <=> IsWhole(type, m)
        /\ IsWhole(type, m) => Decode(frame) = Defaulted(type, m)
        /\ \A e \in DecodeError(frame) :
             RejectRoute(e).reason = ReasonCode["RequiredTagMissing"]

-----------------------------------------------------------------------------
WireOf(type) == Encode(type, SomeMessage(type))
NameOf(tag) == CHOOSE n \in DOMAIN TagOf : TagOf[n] = tag
HasGroups(type) == ToSet(Layouts[type].encode) \cap GroupNames # {}
InGroup(type, tag) ==
  \E g \in ToSet(Layouts[type].encode) \cap GroupNames : tag \in MemberTags(type, g)

IsFree(name) == name \in {"Username", "Password", "Text", "TestReqID", "RefMsgType", "Account",
                         "ClOrdID", "OrigClOrdID", "OrderID", "ExecID", "AffectedOrderID",
                         "MDReqID"}
IsOfASet(name) == name \in DOMAIN EnumOf \cup {"Symbol", "EncryptMethod"}
Wrong(name) == IF name = "EncryptMethod" THEN <<"1">> ELSE [i \in 1..(CompIdBytes + 1) |-> "?"]

(* A message with one field left out or unreadable is refused for that     *)
(* field, and the reject says so: nothing is read in its place and no      *)
(* other field is blamed.  Left out, only what the dialect leaves open     *)
(* passes (error.rs, reject_route).                                        *)
ASSUME RefusalsNameTheField ==
  \A type \in DOMAIN Layouts : \A i \in DOMAIN WireOf(type).fields :
    LET frame == WireOf(type)
        tag == frame.fields[i].tag
        left == [frame EXCEPT !.fields = RemoveAt(@, i)]
        broken == [frame EXCEPT !.fields[i].text = <<NoUtf8>>]
        wrong == [frame EXCEPT !.fields[i].text = Wrong(NameOf(tag))]
        told == IF InGroup(type, tag)
                THEN {TagOf[g] : g \in {g \in ToSet(Layouts[type].encode) \cap GroupNames :
                                           tag \in MemberTags(type, g)}} \cup {tag}
                ELSE {tag}
    IN  /\ \A e \in DecodeError(broken) :
             RejectRoute(e) = [reject |-> "SessionReject", ref_tag |-> {tag},
                               reason |-> ReasonCode["IncorrectDataFormat"]]
        /\ DecodeError(broken) # {}
        /\ IsFree(NameOf(tag)) <=> DecodeError(wrong) = {}
        /\ \A e \in DecodeError(wrong) :
             /\ RejectRoute(e).ref_tag = {tag}
             /\ RejectRoute(e).reason = ReasonCode[IF IsOfASet(NameOf(tag))
                                      THEN "ValueIsIncorrect" ELSE "IncorrectDataFormat"]
        /\ \A e \in DecodeError(left) : RejectRoute(e).ref_tag \subseteq told
        /\ DecodeError(left) = {} => NameOf(tag) \in Layouts[type].optional

(* A field that is there twice is refused, so what a message means does    *)
(* not depend on which of the two is found; and without groups it does not *)
(* depend on the order of the fields either (codec.rs,                     *)
(* reject_duplicate_scalar_tags).                                          *)
ASSUME OneMeaningPerMessage ==
  \A type \in DOMAIN Layouts : \A i, j \in DOMAIN WireOf(type).fields :
    LET frame == WireOf(type)
        tag == frame.fields[i].tag
        twice == [frame EXCEPT !.fields = InsertAt(@, j, [tag |-> tag, text |-> <<"1">>])]
        swapped == [frame EXCEPT !.fields[i] = frame.fields[j], !.fields[j] = frame.fields[i]]
    IN  /\ ~InGroup(type, tag) => DecodeError(twice) = {[kind |-> "DuplicateTag", tag |-> tag]}
        /\ ~HasGroups(type) => DecodeError(swapped) = {} /\ Decode(swapped) = Decode(frame)

(* A group is read whole: the entries are the fields after the count, in   *)
(* order, up to the first that is not the group's, cut where an entry      *)
(* begins, and there are as many as the count says (codec.rs, group).      *)
GroupField == {[tag |-> t, text |-> <<"1">>] : t \in {269, 270, 271, 279, 55}}
ASSUME GroupsAreWhole ==
  \A type \in {"MarketDataSnapshotFullRefresh", "MarketDataIncrementalRefresh"}, n \in 0..3 :
    \A rest \in UNION {[1..m -> GroupField] : m \in 0..4} :
      LET name == "NoMDEntries"
          fields == <<[tag |-> TagOf[name], text |-> DecimalDigits[n]]>> \o rest
          entries == GroupEntries(type, fields, name)
          cuts == {k \in 0..Len(rest) : FlattenSeq(entries) = SubSeq(rest, 1, k)}
          counted == GroupError(type, fields, name) \cap
                       {FieldError("GroupCountMismatch", name), FieldError("TooManyGroupEntries", name)}
      IN  /\ \A k \in DOMAIN entries : \A i \in DOMAIN entries[k] :
               /\ i = 1 <=> entries[k][i].tag = Delimiter(type, name)
               /\ entries[k][i].tag \in MemberTags(type, name)
          /\ counted = {} =>
               /\ Len(entries) = n /\ n <= MaxGroupEntries
               /\ \E k \in cuts : k < Len(rest) => rest[k + 1].tag \notin MemberTags(type, name)

(* Frames of another dialect, of types the venue does not serve and over   *)
(* the ceilings are refused whatever they carry, a type that is known but  *)
(* not served by a business reject and all others by the session.          *)
ASSUME FramesAreGuarded ==
  LET frame == WireOf("Heartbeat")
      long == [frame EXCEPT !.fields = @ \o [i \in 1..MaxFields |-> [tag |-> 270, text |-> <<>>]]]
      Route(f) == {RejectRoute(e) : e \in DecodeError(f)}
  IN  /\ {r.ref_tag : r \in Route([frame EXCEPT !.begin = "FIX.4.2"])} = {{8}}
      /\ {r.reason : r \in Route(long)} = {99}
      /\ {r.reason : r \in Route([frame EXCEPT !.type = "custom"])} = {ReasonCode["InvalidMsgType"]}
      /\ {r.reject : r \in Route([frame EXCEPT !.type = "other"])} = {"BusinessMessageReject"}
      /\ {r.ref_tag : r \in Route(Encode("MarketDataRequest",
             [SomeMessage("MarketDataRequest") EXCEPT !.NoRelatedSym = <<>>]))} =
           {{TagOf["NoRelatedSym"]}}
      /\ {r.ref_tag : r \in Route([frame EXCEPT !.type = "other", !.fields = Tail(@)])} =
           {{TagOf["SenderCompID"]}}
=============================================================================
