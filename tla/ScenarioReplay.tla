--------------------------- MODULE ScenarioReplay ---------------------------
(***************************************************************************)
(* Replaying a recorded run (simulation/replay.rs, simulation/manifest.rs):*)
(* a bundle carries a manifest, a microstructure configuration and one     *)
(* journal stream per underlying.  It is admitted or refused by its        *)
(* versions and its configuration, each stream is rebuilt as a journal and *)
(* recovered, and the events of all streams are projected into one pair of *)
(* stores, underlying by underlying.                                       *)
(*                                                                         *)
(* A version is {} when it does not parse as MAJOR.MINOR.PATCH, or the set *)
(* of its one pair <<major, minor>>.  What recovering a stream yields is   *)
(* the operator Recover: [ok, error, events].                              *)
(***************************************************************************)
EXTENDS JournalStore, TradeStores

CONSTANTS
  Recover(_, _),        \* recovery of a journal under a configuration
  CurrentVersions,      \* DependencyVersions::current()
  BundleSchema,         \* SCENARIO_BUNDLE_SCHEMA
  Fingerprint(_),       \* MicrostructureConfig::fingerprint
  Provable(_),          \* MicrostructureConfig::validate
  NameRank(_)           \* the place of an underlying in the order of the names

-----------------------------------------------------------------------------
(* Versions. *)

VersionFields == <<"fauxchange", "optionstratlib", "envelope_schema">>

(* A journal replays on its own minor or a later one of the same major;    *)
(* before 1.0 only on its own.                                             *)
Compatible(running, recorded) ==
  \E run \in running, rec \in recorded :
    /\ run[1] = rec[1]
    /\ IF run[1] = 0 THEN run[2] = rec[2] ELSE rec[2] <= run[2]

FirstIncompatibility(v) ==
  IF v.envelope_schema # CurrentVersions.envelope_schema THEN {"envelope_schema"}
  ELSE IF ~Compatible(CurrentVersions.fauxchange, v.fauxchange) THEN {"fauxchange"}
  ELSE {}

(* Not a gate: a difference is only reported.                              *)
FirstMismatch(v) ==
  LET differ == {i \in DOMAIN VersionFields :
                   v[VersionFields[i]] # CurrentVersions[VersionFields[i]]}
  IN  {VersionFields[i] : i \in {i \in differ : \A j \in differ : i <= j}}

VerifyVersions(bundle) ==
  IF bundle.schema # BundleSchema THEN {"bundle_schema"}
  ELSE FirstIncompatibility(bundle.manifest.versions)

(* The configuration must pass its own proof, and be the recorded one.     *)
VerifyMicrostructure(bundle) ==
  IF ~Provable(bundle.microstructure) THEN {"ConfigRejected"}
  ELSE IF Fingerprint(bundle.microstructure) # bundle.manifest.fingerprint
       THEN {"microstructure_fingerprint"}
  ELSE {}

-----------------------------------------------------------------------------
(* Streams. *)

Failed(error, u) == [ok |-> FALSE, error |-> error, underlying |-> u]

(* The kinds of a journal error, as a replay reports them.                 *)
FromJournal(error) ==
  IF error \in {"Conflict", "AppendFailed", "Ambiguous"} THEN "BundleDecode"
  ELSE IF error = "SchemaTooNew" THEN "SchemaRefused"
  ELSE IF error = "Corruption" THEN "JournalCorruption"
  ELSE error                                 \* Backend, ResourceLimit and the rest

(* The records appended one after the other, up to the first that is       *)
(* refused.                                                                *)
BuildJournal(records) ==
  LET Step(r, row) ==
        IF ~r.ok THEN r
        ELSE IF AppendAnswer(r.rows, row) = "Ok"
             THEN [ok |-> TRUE, error |-> "", rows |-> Appended(r.rows, row)]
        ELSE [ok |-> FALSE, error |-> AppendAnswer(r.rows, row), rows |-> r.rows]
      Built[i \in 0..Len(records)] ==
        IF i = 0 THEN [ok |-> TRUE, error |-> "", rows |-> <<>>]
        ELSE Step(Built[i - 1], records[i])
  IN  Built[Len(records)]

(* The events of one stream into the shared stores.                        *)
ProjectEvents(venue, events) ==
  LET V[i \in 0..Len(events)] == IF i = 0 THEN venue ELSE Emit(V[i - 1], events[i])
  IN  V[Len(events)]

EmptyReport == [ok |-> TRUE, error |-> "", underlying |-> "",
                summaries |-> <<>>, venue |-> EmptyVenue]

(* One more underlying.  A stream that cannot be rebuilt, recovered or     *)
(* projected ends the replay: no partial report is handed out.             *)
ReplayStream(report, stream, config) ==
  LET built == BuildJournal(stream.records)
      recovered == Recover(built.rows, config)
      venue == ProjectEvents(report.venue, recovered.events)
  IN  IF ~report.ok THEN report
      ELSE IF ~built.ok THEN Failed(FromJournal(built.error), stream.underlying)
      ELSE IF ~recovered.ok THEN Failed(FromJournal(recovered.error), stream.underlying)
      ELSE IF venue.sealed THEN Failed("JournalCorruption", stream.underlying)
      ELSE [report EXCEPT
              !.summaries = Append(@, [underlying |-> stream.underlying,
                                       events |-> Len(recovered.events)]),
              !.venue = venue]

(* The streams by underlying.                                              *)
Ordered(streams) ==
  LET Before(i, j) == \/ NameRank(streams[i].underlying) < NameRank(streams[j].underlying)
                      \/ NameRank(streams[i].underlying) = NameRank(streams[j].underlying) /\ i < j
      Place(i) == Cardinality({j \in DOMAIN streams : Before(j, i)}) + 1
  IN  [n \in DOMAIN streams |-> streams[CHOOSE i \in DOMAIN streams : Place(i) = n]]

ReplayStreams(streams, config) ==
  LET sorted == Ordered(streams)
      R[i \in 0..Len(sorted)] ==
        IF i = 0 THEN EmptyReport ELSE ReplayStream(R[i - 1], sorted[i], config)
  IN  R[Len(sorted)]

(* The gates come first, versions before configuration.                    *)
ReplayBundle(bundle) ==
  LET versions == VerifyVersions(bundle)
      config == VerifyMicrostructure(bundle)
  IN  IF versions # {} THEN Failed("VersionMismatch", "")
      ELSE IF config = {"ConfigRejected"} THEN Failed("ConfigRejected", "")
      ELSE IF config # {} THEN Failed("VersionMismatch", "")
      ELSE ReplayStreams(bundle.streams, bundle.microstructure)

-----------------------------------------------------------------------------
(* A snapshot is restored into the run it was taken from only. *)

ValidateAgainst(metadata, lineage, fingerprint) ==
  /\ metadata.schema = Schema
  /\ metadata.lineage = lineage
  /\ metadata.fingerprint = fingerprint
=============================================================================
