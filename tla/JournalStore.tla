---------------------------- MODULE JournalStore ----------------------------
(***************************************************************************)
(* The durable journal as a store (exchange/journal.rs, db/journal.rs,     *)
(* exchange/identity.rs): which records it takes, what a bounded read of   *)
(* it answers, and the header that ties a stream to one lineage.  When the *)
(* actor appends and what it makes of a failure is UnderlyingActor.        *)
(*                                                                         *)
(* The bytes of a record are numbers: a string is its length.  A stored    *)
(* row is [seq, kind, bytes, payload], the rows of a stream a sequence in  *)
(* the order of their ids.  A command or an outcome layer is a record from *)
(* its string fields to their lengths; an outcome is the sequence of its   *)
(* layers, a Duplicate wrapping the terminal outcome it repeats.           *)
(***************************************************************************)
EXTENDS Integers, Sequences, FiniteSets

LOCAL INSTANCE FiniteSetsExt

CONSTANTS
  MaxRecordBytes,     \* MAX_JOURNAL_RECORD_BYTES
  MaxRecords,         \* MAX_JOURNAL_RECORDS
  MaxStreamBytes,     \* MAX_JOURNAL_STREAM_BYTES
  EscapeFactor,       \* JSON_STRING_ESCAPE_FACTOR: the most bytes one byte becomes
  BaseBytes,          \* RECORD_ESTIMATE_BASE_BYTES: keys, numbers, punctuation
  PerElementBytes     \* PER_ELEMENT_ESTIMATE_BYTES: the same for a list element

ASSUME CeilingsAssumption ==
  /\ {MaxRecordBytes, MaxRecords, MaxStreamBytes} \subseteq Nat
  /\ {EscapeFactor, BaseBytes, PerElementBytes} \subseteq Nat \ {0}

RecordKind == {"command", "event", "epoch"}

-----------------------------------------------------------------------------
(* The size of a record, estimated without serialising it. *)

(* The string fields of each command that the estimate counts.             *)
CommandFields ==
  [AddOrder            |-> {"symbol", "order_id", "account", "client_order_id"},
   CancelOrder         |-> {"symbol", "order_id", "account"},
   Replace             |-> {"symbol", "order_id", "new_order_id", "account",
                            "client_order_id", "orig_client_order_id"},
   MassCancel          |-> {"symbol", "account"},
   SetInstrumentStatus |-> {"symbol"},
   SimStep             |-> {"underlying"},
   EvictExpiredOrders  |-> {},
   Clock               |-> {},
   MarketMakerControl  |-> {}]

(* The string fields of each outcome, its lists apart.                     *)
OutcomeFields ==
  [Added                   |-> {},
   Market                  |-> {},
   Cancelled               |-> {"order_id"},
   Replace                 |-> {"reason"},
   MassCancelled           |-> {},
   InstrumentStatusChanged |-> {"symbol"},
   Evicted                 |-> {},
   ControlApplied          |-> {},
   Rejected                |-> {"reason"},
   Duplicate               |-> {"original_order_id"}]

(* The strings of each element of an outcome's lists.                      *)
FillFields == {"execution_id", "order_id", "account"}
LegFields == {"order_id", "symbol"}
EvictedFields == {"order_id"}

(* An optional field may be absent.                                        *)
LengthOf(r, fields) == MapThenSumSet(LAMBDA f : r[f], fields \cap DOMAIN r)

LengthOfAll(s, fields) == MapThenSumSet(LAMBDA i : LengthOf(s[i], fields), DOMAIN s)

CommandStrings(c) == LengthOf(c.fields, CommandFields[c.kind])

LayerStrings(o) == LengthOf(o.fields, OutcomeFields[o.kind]) + LengthOfAll(o.fills, FillFields)
                   + LengthOfAll(o.legs, LegFields) + LengthOfAll(o.evicted, EvictedFields)

OutcomeStrings(os) == MapThenSumSet(LAMBDA i : LayerStrings(os[i]), DOMAIN os)

Elements(os) ==
  MapThenSumSet(LAMBDA i : Len(os[i].fills) + Len(os[i].legs) + Len(os[i].evicted), DOMAIN os)

(* A record is [kind, schema, command, outcome] or an epoch marker.        *)
RecordStrings(r) ==
  IF r.kind = "command" THEN CommandStrings(r.command)
  ELSE IF r.kind = "event" THEN r.schema + CommandStrings(r.command) + OutcomeStrings(r.outcome)
  ELSE r.schema + r.snapshot_id + r.lineage_id

Estimate(r) ==
  BaseBytes + EscapeFactor * RecordStrings(r)
    + PerElementBytes * (IF r.kind = "event" THEN Elements(r.outcome) ELSE 0)

(* A record whose estimate fits is not serialised to be measured.          *)
RecordFits(r, bytes) == Estimate(r) <= MaxRecordBytes \/ bytes <= MaxRecordBytes

-----------------------------------------------------------------------------
(* Appending and reading. *)

Stored(rows, row) == {i \in DOMAIN rows : rows[i].seq = row.seq /\ rows[i].kind = row.kind}

(* What an append answers, and what it leaves: an insert that yields to a  *)
(* row at the same sequence and kind, which must then hold the same bytes. *)
AppendAnswer(rows, row) ==
  IF row.bytes > MaxRecordBytes THEN "ResourceLimit"
  ELSE IF Stored(rows, row) = {} THEN "Ok"
  ELSE IF \A i \in Stored(rows, row) : rows[i].payload = row.payload THEN "Ok"
  ELSE "Conflict"

Appended(rows, row) ==
  IF AppendAnswer(rows, row) = "Ok" /\ Stored(rows, row) = {} THEN Append(rows, row) ELSE rows

From(rows, from) == SelectSeq(rows, LAMBDA row : row.seq >= from)

StreamBytes(rows) == MapThenSumSet(LAMBDA i : rows[i].bytes, DOMAIN rows)

StreamCountFits(n) == n <= MaxRecords
StreamBytesFit(n) == n <= MaxStreamBytes

Refused(limit) == [ok |-> FALSE, limit |-> limit, rows |-> <<>>]
Answer(rows) == [ok |-> TRUE, limit |-> "", rows |-> rows]

(* A read measures the stream with one query and fetches it with another;  *)
(* `later` is the stream at the second.  One row more than the ceiling is  *)
(* asked for, so that a stream that grew in between is noticed, and a row  *)
(* beyond the record ceiling arrives without its payload.                  *)
ReadFrom(rows, later, from) ==
  LET measured == From(rows, from)
      all == From(later, from)
      fetched == SubSeq(all, 1, IF Len(all) <= MaxRecords + 1 THEN Len(all) ELSE MaxRecords + 1)
  IN  IF ~StreamCountFits(Len(measured)) THEN Refused("stream_records")
      ELSE IF ~StreamBytesFit(StreamBytes(measured)) THEN Refused("stream_bytes")
      ELSE IF ~StreamCountFits(Len(fetched)) THEN Refused("stream_records")
      ELSE IF \E i \in DOMAIN fetched : fetched[i].bytes > MaxRecordBytes
           THEN Refused("record_bytes")
      ELSE Answer(fetched)

(* The store in memory reads without a bound.                              *)
ReadInMemory(rows, from) == Answer(From(rows, from))

(* The highest sequence, {} for an empty stream.  A query that fails says  *)
(* {} as well.                                                             *)
LastSequence(rows) ==
  LET seqs == {rows[i].seq : i \in DOMAIN rows}
  IN  {n \in seqs : \A k \in seqs : k <= n}

-----------------------------------------------------------------------------
(* The header: one lineage and one schema per underlying. *)

Schema == "venue.v1"
NewHeader(lineage) == [schema |-> Schema, lineage |-> lineage]
IsCurrentSchema(header) == header.schema = Schema

(* Opening to write inserts the header when there is none and refuses one  *)
(* that differs, in one transaction.                                       *)
OpenToWrite(headers, u, supplied) ==
  IF u \notin DOMAIN headers
  THEN [ok |-> TRUE,
        headers |-> [x \in DOMAIN headers \cup {u} |->
                       IF x = u THEN supplied ELSE headers[x]]]
  ELSE [ok |-> headers[u] = supplied, headers |-> headers]

(* Opening to recover writes nothing and needs a header.                   *)
OpenToRecover(headers, u) == {headers[x] : x \in DOMAIN headers \cap {u}}

(* The ids of a run: what is minted is a function of the lineage, the      *)
(* underlying, the sequence and an index within the command.               *)
Composite(lineage, u, seq, index) == <<lineage, u, seq, index>>
=============================================================================
