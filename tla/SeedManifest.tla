---------------------------- MODULE SeedManifest ----------------------------
(***************************************************************************)
(* What a run starts with (config.rs, seed.rs): the accounts, instruments  *)
(* and personas of the file, resolved when it is loaded, and the phase     *)
(* that applies them before the venue serves.  With them the rules of an   *)
(* instrument's identity (symbol.rs, instrument.rs).                       *)
(*                                                                         *)
(* An optional value is {} or the set of the value.  A result is the set   *)
(* of its errors.  A symbol is <<underlying, date, strike, style>>.        *)
(***************************************************************************)
EXTENDS Integers, Sequences, FiniteSets, SequencesExt, Bitwise, Validation

CONSTANTS
  GoodNames,      \* the underlyings the symbol grammar accepts
  Canonical,      \* the second of the day that identifies an expiration
  KnobMin, KnobMax, KnobDefault,    \* the ranges and defaults of a persona's shapes
  DefaultBaseSize, DefaultBaseSpread,
  OwnerBytes,     \* the length of an owner
  MakerId, MakerOwner               \* the identity reserved for the maker

Only(set) == CHOOSE x \in set : TRUE

(* The keys of a map, in order.                                            *)
Sorted(set) == SetToSortSeq(set, <)

-----------------------------------------------------------------------------
(* Instruments.  An expiration is <<"Days", n>> or <<"DateTime", date,     *)
(* second>>; what the file writes is <<"date", d>>, <<"days", n>>,         *)
(* <<"instant", d, second>> or <<"junk">>.                                 *)

ValidateVenueExpiry(expiry) ==
  IF expiry[1] = "Days" THEN {"RelativeExpiryRefused"}
  ELSE When(expiry[3] # Canonical, "NonCanonicalExpiryInstant")

ParsedSymbolError(underlying, strike) ==
  When(underlying \notin GoodNames \/ strike = 0, "InvalidSymbol")

TryNewError(i) ==
  FirstError(<<ValidateVenueExpiry(i.expiration), ParsedSymbolError(i.underlying, i.strike)>>)

SymbolOf(i) == <<i.underlying, i.expiration[2], i.strike, i.style>>

(* A stored instrument is built again, and must carry the same symbol.     *)
FromWireError(wire) ==
  FirstError(<<TryNewError(wire), When(SymbolOf(wire) # wire.symbol, "InvalidSymbol")>>)

ParseYyyymmdd(date) == <<"DateTime", date, Canonical>>

ParseSeedExpiry(raw) ==
  CASE raw[1] = "date" -> {ParseYyyymmdd(raw[2])}
    [] raw[1] = "days" -> {<<"Days", raw[2]>>}
    [] raw[1] = "instant" -> {<<"DateTime", raw[2], raw[3]>>}
    [] OTHER -> {}

SeedExpiryError(raw) ==
  IF ParseSeedExpiry(raw) = {} THEN {"SeedInvalidExpiry"}
  ELSE LET error == ValidateVenueExpiry(Only(ParseSeedExpiry(raw)))
       IN  IF "RelativeExpiryRefused" \in error THEN {"SeedDaysExpiry"}
           ELSE When(error # {}, "SeedInvalidExpiry")

(* The reasons the seed of a file is refused for, and a phase is.          *)
SeedConfigErrors ==
  {"SeedDaysExpiry", "SeedInvalidExpiry", "SeedInvalidStrikeLadder", "SeedInvalidInstrument",
   "SeedInvalidAccount", "SeedInvalidPersona"}
SeedErrors == {"Provisioning", "AccountConflict", "InstrumentPriceConflict", "UnknownUnderlying"}

StyleNames == [call |-> "Call", c |-> "Call", put |-> "Put", p |-> "Put"]

StylesError(styles) ==
  When(\E list \in styles : list = <<>> \/ ~(Range(list) \subseteq DOMAIN StyleNames),
       "SeedInvalidInstrument")

(* Calls before puts, whatever the order they are written in.              *)
ResolveStyles(styles) ==
  LET named == IF styles = {} THEN {"Call", "Put"} ELSE {StyleNames[n] : n \in Range(Only(styles))}
      Named(style) == style \in named
  IN  SelectSeq(<<"Call", "Put">>, Named)

InstrumentError(underlying, file, personas) ==
  LET strikes == file.strikes
      dates == [i \in DOMAIN file.expirations |-> SeedExpiryError(file.expirations[i])]
  IN  FirstError(<<
        When(file.opening_price = 0, "SeedInvalidInstrument"),
        When(file.expirations = <<>>, "SeedInvalidInstrument"),
        When(strikes = <<>> \/ 0 \in Range(strikes) \/ Cardinality(Range(strikes)) < Len(strikes),
             "SeedInvalidStrikeLadder"),
        When(~(file.persona \subseteq DOMAIN personas), "SeedInvalidPersona"),
        FirstError(dates),
        StylesError(file.styles),
        When(underlying \notin GoodNames, "SeedInvalidInstrument")>>)

(* The contracts, by expiration, strike and style.                         *)
ResolveInstrument(underlying, file, default) ==
  LET dates == Sorted({Only(ParseSeedExpiry(raw))[2] : raw \in Range(file.expirations)})
      strikes == Sorted(Range(file.strikes))
      styles == ResolveStyles(file.styles)
      OfStrike(d, k) == [n \in DOMAIN styles |-> <<underlying, d, k, styles[n]>>]
      OfDate(d) == FlattenSeq([n \in DOMAIN strikes |-> OfStrike(d, strikes[n])])
  IN  [underlying |-> underlying, opening_price |-> file.opening_price,
       contracts |-> FlattenSeq([n \in DOMAIN dates |-> OfDate(dates[n])]),
       persona |-> IF file.persona # {} THEN file.persona ELSE default]

-----------------------------------------------------------------------------
(* Personas.  A shape is [finite, value]. *)

ShapeKnobs == <<"spread_multiplier", "size_scalar", "directional_skew">>

Setting(file, k) == IF k \in DOMAIN file THEN file[k] ELSE KnobDefault[k]
BaseSize(file) == IF "base_size" \in DOMAIN file THEN file["base_size"] ELSE DefaultBaseSize

CheckPersonaKnob(k, shape) ==
  When(~shape.finite \/ shape.value < KnobMin[k] \/ shape.value > KnobMax[k], "SeedInvalidPersona")

PersonaError(file) ==
  FirstError([i \in 1..3 |-> CheckPersonaKnob(ShapeKnobs[i], Setting(file, ShapeKnobs[i]))]
             \o <<When(BaseSize(file) = 0, "SeedInvalidPersona")>>)

ResolvePersona(file) ==
  [shapes |-> [k \in Range(ShapeKnobs) |-> Setting(file, k).value],
   base_size |-> BaseSize(file),
   base_spread_bps |-> IF "base_spread_bps" \in DOMAIN file THEN file["base_spread_bps"]
                       ELSE DefaultBaseSpread]

(* A lone persona is the default when none is named.                       *)
DefaultPersona(named, personas) ==
  IF named = {} /\ Cardinality(DOMAIN personas) = 1 THEN DOMAIN personas ELSE named

-----------------------------------------------------------------------------
(* Accounts.  A name is a sequence of bytes.  An owner that is written is  *)
(* [hex, bytes]: whether it has the form of one, and its value.            *)

RotateLeft(byte, n) == ((byte * (2 ^ n)) % 256) + (byte \div (2 ^ (8 - n)))

DeriveOwner(id) ==
  LET Into(slot) == {i \in DOMAIN id : (i - 1) % OwnerBytes = slot}
      Mix(acc, i) == acc ^^ RotateLeft(id[i], (i - 1) % 8)
  IN  [slot \in 0..(OwnerBytes - 1) |->
         (FoldLeft(Mix, 0, Sorted(Into(slot))) ^^ (Len(id) % 256)) ^^ slot]

AccountError(file) ==
  FirstError(<<
    When(file.permissions = {}, "SeedInvalidAccount"),
    When(\E owner \in file.owner : ~owner.hex, "SeedInvalidAccount"),
    When(file.fix_password # {} /\ file.fix_username = {}, "SeedInvalidAccount"),
    When((file.sender = {}) # (file.target = {}), "SeedInvalidAccount")>>)

ResolveAccount(id, file) ==
  [id |-> id, permissions |-> file.permissions,
   owner |-> IF file.owner = {} THEN DeriveOwner(id) ELSE Only(file.owner).bytes,
   fix_username |-> file.fix_username, fix_password |-> file.fix_password,
   fix_comp_ids |-> file.sender \X file.target]

-----------------------------------------------------------------------------
(* The manifest: personas first, then the accounts, then the instruments,  *)
(* each in the order of its keys.  The sections are sequences of           *)
(* [key, file].                                                            *)

PersonasOf(file) ==
  [name \in {e.key : e \in Range(file.personas)} |->
     ResolvePersona(Only({e \in Range(file.personas) : e.key = name}).file)]

ManifestError(file) ==
  LET personas == PersonasOf(file)
      Each(section, Error(_)) == FirstError([i \in DOMAIN section |-> Error(section[i])])
      OfPersona(e) == PersonaError(e.file)
      OfAccount(e) == AccountError(e.file)
      OfInstrument(e) == InstrumentError(e.key, e.file, personas)
  IN  FirstError(<<Each(file.personas, OfPersona),
                   When(~(file.default_persona \subseteq DOMAIN personas), "SeedInvalidPersona"),
                   Each(file.accounts, OfAccount),
                   Each(file.instruments, OfInstrument)>>)

ResolveSeedManifest(file) ==
  LET personas == PersonasOf(file)
      default == DefaultPersona(file.default_persona, personas)
  IN  [accounts |-> [i \in DOMAIN file.accounts |->
                       ResolveAccount(file.accounts[i].key, file.accounts[i].file)],
       instruments |-> [i \in DOMAIN file.instruments |->
                          ResolveInstrument(file.instruments[i].key, file.instruments[i].file, default)],
       personas |-> personas, default_persona |-> default]

-----------------------------------------------------------------------------
(* Applying it.  A venue is [accounts, registered, prices, hosted,         *)
(* recovered, room, journal]: the accounts by id, the persona of every     *)
(* contract the maker quotes, the maker's prices, the assets of the price  *)
(* seam, the underlyings that came back from the journal, how many steps   *)
(* the seam's queue still takes, and the steps it took.                    *)

ProvisionError(venue, account) ==
  FirstError(<<
    When(account.id = MakerId, "Provisioning"),
    When(account.owner = MakerOwner, "Provisioning"),
    When(account.id \in DOMAIN venue.accounts, "Provisioning"),
    When(\E id \in DOMAIN venue.accounts :
           account.fix_username # {} /\ venue.accounts[id].fix_username = account.fix_username,
         "Provisioning")>>)

InsertAccount(venue, account) == [venue EXCEPT !.accounts = (account.id :> account) @@ @]

SameShape(existing, account) ==
  existing.permissions = account.permissions /\ existing.fix_username = account.fix_username

(* One account after the other; those before a refusal stay.               *)
ProvisionSeedAccount(run, account) ==
  LET present == account.id \in DOMAIN run.venue.accounts
      error == IF present
               THEN When(~SameShape(run.venue.accounts[account.id], account), "AccountConflict")
               ELSE ProvisionError(run.venue, account)
  IN  IF run.error # {} THEN run
      ELSE IF error # {} THEN [run EXCEPT !.error = error]
      ELSE IF present THEN [run EXCEPT !.unchanged = @ + 1]
      ELSE [run EXCEPT !.venue = InsertAccount(@, account), !.provisioned = @ + 1]

(* The maker registers a contract once; what comes later does not rebind.  *)
Register(venue, set) ==
  [venue EXCEPT !.registered = @ @@ [s \in Range(set.contracts) |-> set.persona]]

(* A recovered underlying keeps its price, whatever the file says.         *)
RegisterSet(run, set) ==
  LET u == set.underlying
      conflict == u \notin run.venue.recovered /\ u \in DOMAIN run.venue.prices
                    /\ run.venue.prices[u] # set.opening_price
  IN  IF run.error # {} THEN run
      ELSE IF conflict THEN [run EXCEPT !.error = {"InstrumentPriceConflict"}]
      ELSE [run EXCEPT !.venue = Register(@, set)]

(* The price reaches the maker only if its step enters the queue.          *)
SetPrice(venue, u, price) ==
  IF venue.room = 0 THEN venue
  ELSE [venue EXCEPT !.room = @ - 1, !.journal = Append(@, <<u, price>>),
                     !.prices = (u :> price) @@ @]

PriceSet(run, set) ==
  IF run.error # {} \/ set.underlying \in run.venue.recovered THEN run
  ELSE IF set.underlying \notin run.venue.hosted THEN [run EXCEPT !.error = {"UnknownUnderlying"}]
  ELSE [run EXCEPT !.venue = SetPrice(@, set.underlying, set.opening_price)]

ApplySeedPhase(venue, manifest) ==
  LET start == [venue |-> venue, error |-> {}, provisioned |-> 0, unchanged |-> 0]
      accounts == FoldLeft(ProvisionSeedAccount, start, manifest.accounts)
      registered == FoldLeft(RegisterSet, accounts, manifest.instruments)
  IN  FoldLeft(PriceSet, registered, manifest.instruments)

(* The assets the price seam is built with, at their opening prices.       *)
AssetConfigs(manifest) ==
  [i \in DOMAIN manifest.instruments |->
     <<manifest.instruments[i].underlying, manifest.instruments[i].opening_price>>]
=============================================================================
