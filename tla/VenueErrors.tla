---------------------------- MODULE VenueErrors ----------------------------
(***************************************************************************)
(* One failure on three surfaces (error.rs): the HTTP status and envelope, *)
(* the FIX reject of the message that failed, the WebSocket error.         *)
(*                                                                         *)
(* An error is its variant and its detail.  A message is "redacted", a     *)
(* fixed text of the variant, or the variant's text with the detail.       *)
(***************************************************************************)
EXTENDS Integers

CONSTANT RetryAfterMs    \* RATE_LIMIT_RETRY_AFTER_MS

Variants == {"NotFound", "InvalidOrder", "Unauthorized", "Forbidden", "InstrumentHalted",
             "RateLimited", "Overflow", "SequenceExhausted", "JournalUnavailable",
             "ShuttingDown", "Upstream"}

HttpStatus(error) ==
  CASE error.is = "NotFound" -> 404
    [] error.is = "InvalidOrder" -> 400
    [] error.is = "Unauthorized" -> 401
    [] error.is = "Forbidden" -> 403
    [] error.is = "InstrumentHalted" -> 409
    [] error.is = "RateLimited" -> 429
    [] error.is = "ShuttingDown" -> 503
    [] OTHER -> 500

MachineCode(error) ==
  CASE error.is = "NotFound" -> "not_found"
    [] error.is = "InvalidOrder" -> "invalid_order"
    [] error.is = "Unauthorized" -> "unauthorized"
    [] error.is = "Forbidden" -> "forbidden"
    [] error.is = "InstrumentHalted" -> "instrument_halted"
    [] error.is = "RateLimited" -> "throttled"
    [] error.is = "ShuttingDown" -> "unavailable"
    [] OTHER -> "internal"

RedactedMessage(error) ==
  CASE error.is \in {"NotFound", "InvalidOrder", "Forbidden", "InstrumentHalted"} ->
         <<error.is, error.detail>>
    [] error.is \in {"Unauthorized", "RateLimited", "ShuttingDown"} -> <<error.is>>
    [] OTHER -> <<"redacted">>

(* The answer of a REST request that failed.                               *)
IntoResponse(error) ==
  [status |-> HttpStatus(error), code |-> MachineCode(error), message |-> RedactedMessage(error),
   retry_after |-> IF error.is = "RateLimited" THEN {60} ELSE {}]

-----------------------------------------------------------------------------
(* FIX: the context selects the message, the error its reason.             *)
RejectKindOf ==
  [NewOrder |-> "ExecutionReportRejected", CancelReplace |-> "OrderCancelReject",
   MarketData |-> "MarketDataRequestReject", OtherApplication |-> "BusinessMessageReject",
   Session |-> "SessionReject"]
RejectMsgType ==
  [ExecutionReportRejected |-> "8", OrderCancelReject |-> "9", MarketDataRequestReject |-> "Y",
   BusinessMessageReject |-> "j", SessionReject |-> "3"]
ReasonFieldTag ==
  [ExecutionReportRejected |-> 103, OrderCancelReject |-> 102, MarketDataRequestReject |-> 281,
   BusinessMessageReject |-> 380, SessionReject |-> 373]

FixReason(error) ==
  CASE error.is = "NotFound" -> "NotFound"
    [] error.is \in {"InvalidOrder", "InstrumentHalted"} -> "Invalid"
    [] error.is \in {"Unauthorized", "Forbidden"} -> "Authorization"
    [] error.is \in {"RateLimited", "ShuttingDown"} -> "Throttle"
    [] OTHER -> "Internal"
FixReject(error, context) ==
  [kind |-> RejectKindOf[context], reason |-> FixReason(error), text |-> RedactedMessage(error)]

-----------------------------------------------------------------------------
(* WebSocket.                                                              *)
WsCode(error) == MachineCode(error)
WsCategory(error) ==
  CASE error.is = "NotFound" -> "not_found"
    [] error.is \in {"InvalidOrder", "InstrumentHalted"} -> "validation"
    [] error.is \in {"Unauthorized", "Forbidden"} -> "authorization"
    [] error.is = "RateLimited" -> "throttle"
    [] error.is = "ShuttingDown" -> "unavailable"
    [] OTHER -> "internal"
WsError(error, request) ==
  [code |-> WsCode(error), category |-> WsCategory(error), message |-> RedactedMessage(error),
   request_id |-> request, retryable |-> error.is \in {"RateLimited", "ShuttingDown"},
   retry_after_ms |-> IF error.is = "RateLimited" THEN {RetryAfterMs} ELSE {},
   terminal |-> error.is = "Unauthorized"]

-----------------------------------------------------------------------------
(* The errors of the modules below the gateways.                           *)
Err(variant, detail) == [is |-> variant, detail |-> detail]
FromMoneyError(kind, detail) ==
  IF kind = "Overflow" THEN Err("Overflow", "") ELSE Err("InvalidOrder", detail)
FromSymbolError(detail) == Err("InvalidOrder", detail)
ReplayErrors == {"JournalCorruption", "SchemaRefused", "VersionMismatch", "BundleDecode",
                 "ResourceLimit", "ConfigRejected", "PriceOutOfBand", "Backend"}
FromReplayError(kind, detail) ==
  IF kind = "Backend" THEN Err("JournalUnavailable", "") ELSE Err("InvalidOrder", detail)

(* The error of a cancel that the order path refused.                      *)
RejectKinds == {"NotFound", "NotOwner", "NotResting", "InstrumentNotActive", "InvalidOrder",
                "NotFillable", "Internal"}
MaskedCancelReject(kind, masked) ==
  CASE kind \in {"NotFound", "NotOwner", "NotResting"} -> Err("NotFound", masked)
    [] kind = "InstrumentNotActive" -> Err("InstrumentHalted", masked)
    [] kind \in {"InvalidOrder", "NotFillable"} -> Err("InvalidOrder", masked)
    [] kind = "Internal" -> Err("JournalUnavailable", "")
-----------------------------------------------------------------------------
(* What a caller may conclude from an error, on whichever surface.         *)

Errors == [is : Variants, detail : {"d", "e"}]
Contexts == DOMAIN RejectKindOf
(* All that a client sees of an error.                                     *)
Surfaces(error) ==
  [rest |-> IntoResponse(error), ws |-> WsError(error, "r"),
   fix |-> [c \in Contexts |-> FixReject(error, c)]]

(* The three surfaces put an error in the same class: two errors that REST *)
(* reports under one status have one code, one WebSocket category and one  *)
(* FIX reason, and only FIX joins classes that REST keeps apart (error.rs).*)
ASSUME SurfacesAgree ==
  \A a, b \in Errors :
    /\ HttpStatus(a) = HttpStatus(b) <=> MachineCode(a) = MachineCode(b)
    /\ HttpStatus(a) = HttpStatus(b) =>
         WsCategory(a) = WsCategory(b) /\ FixReason(a) = FixReason(b)
    /\ WsCategory(a) = WsCategory(b) => FixReason(a) = FixReason(b)
    /\ FixReason(a) = FixReason(b) /\ WsCategory(a) # WsCategory(b) =>
         {a.is, b.is} = {"RateLimited", "ShuttingDown"}

(* Nothing of an internal failure reaches a client: two of them look the   *)
(* same on every surface (error.rs, redacted_message).                     *)
ASSUME InternalsAreRedacted ==
  \A a, b \in Errors :
    HttpStatus(a) = 500 /\ HttpStatus(b) = 500 => Surfaces(a) = Surfaces(b)

(* A caller is told to try again exactly when the command never ran: the   *)
(* throttle and the shutdown are refused before the actor takes them, an   *)
(* outcome the venue cannot vouch for is never retryable (error.rs,        *)
(* ws_error).                                                              *)
ASSUME RetryOnlyWhatNeverRan ==
  \A a \in Errors :
    /\ WsError(a, "r").retryable <=> HttpStatus(a) \in {429, 503}
    /\ WsError(a, "r").retryable => FixReason(a) = "Throttle"
    /\ HttpStatus(a) = 500 => ~WsError(a, "r").retryable
    /\ WsError(a, "r").retry_after_ms # {} <=> IntoResponse(a).retry_after # {}
    /\ WsError(a, "r").retry_after_ms # {} => WsError(a, "r").retryable
    /\ IntoResponse(a).retry_after = {60} => WsError(a, "r").retry_after_ms = {1000 * 60}

(* Only a caller without a credential loses the connection (error.rs,      *)
(* ws_error).                                                              *)
ASSUME OnlyTheUnknownAreDropped ==
  \A a \in Errors : WsError(a, "r").terminal <=> HttpStatus(a) = 401

(* Whoever cancels an order cannot tell an order of somebody else, one     *)
(* that is gone and one that never was apart (error.rs,                    *)
(* masked_cancel_reject).                                                  *)
ASSUME CancelsDoNotProbe ==
  LET hidden == {"NotFound", "NotOwner", "NotResting"}
  IN  \A k, l \in RejectKinds :
        Surfaces(MaskedCancelReject(k, "d")) = Surfaces(MaskedCancelReject(l, "d"))
          <=> k = l \/ {k, l} \subseteq hidden \/ {k, l} \subseteq {"InvalidOrder", "NotFillable"}

(* A FIX reject answers the message that failed: its type and its reason   *)
(* field belong to one context only (error.rs, FixRejectKind).             *)
ASSUME RejectAnswersTheMessage ==
  \A c, d \in Contexts :
    LET k == RejectKindOf[c]  l == RejectKindOf[d]
    IN  /\ RejectMsgType[k] = RejectMsgType[l] <=> c = d
        /\ ReasonFieldTag[k] = ReasonFieldTag[l] <=> c = d

(* What a client submitted is the client's mistake, what the venue could   *)
(* not do is not (error.rs, From).                                         *)
ASSUME BlameIsPlaced ==
  /\ \A k \in ReplayErrors : HttpStatus(FromReplayError(k, "d")) = 400 <=> k # "Backend"
  /\ HttpStatus(FromSymbolError("d")) = 400
  /\ \A k \in {"Overflow", "NegativeCents"} :
       HttpStatus(FromMoneyError(k, "d")) = 500 <=> k = "Overflow"
=============================================================================
