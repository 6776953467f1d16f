------------------------ MODULE SeedManifestChecks -------------------------
(***************************************************************************)
(* What the seed promises, over small files and small venues.              *)
(***************************************************************************)
EXTENDS SeedManifest, TLC

ChecksKnobs(low, mid, high) ==
  [k \in {"spread_multiplier", "size_scalar", "directional_skew"} |->
     CASE k = "spread_multiplier" -> mid [] k = "size_scalar" -> high [] OTHER -> low]
ChecksMinKnob == ChecksKnobs(-1, 1, 0)
ChecksMaxKnob == ChecksKnobs(1, 3, 1)
ChecksDefaultKnob == [k \in DOMAIN ChecksMinKnob |-> [finite |-> TRUE, value |-> IF k = "directional_skew" THEN 0 ELSE 1]]
ChecksMakerId == <<77>>

UpTo(S, n) == UNION {[1..m -> S] : m \in 0..n}

-----------------------------------------------------------------------------
Expirations == {<<"Days", 3>>} \cup ({"DateTime"} \X {1, 2} \X {0, Canonical})
Instruments == [underlying : {"BTC", "ETH", "bad"}, expiration : Expirations,
                strike : 0..2, style : {"Call", "Put"}]

(* No two instruments the venue accepts share a symbol: an expiration is   *)
(* one instant of its day, and never a number of days from now, which      *)
(* would be another day when the run is replayed (symbol.rs,               *)
(* validate_venue_expiry).  One that was stored reads back only under its  *)
(* own symbol.                                                             *)
ASSUME SymbolsIdentify ==
  LET accepted == {i \in Instruments : TryNewError(i) = {}}
  IN  /\ \A i, j \in accepted : SymbolOf(i) = SymbolOf(j) => i = j
      /\ \A i \in accepted : i.expiration[1] = "DateTime"
      /\ \A i \in accepted, s \in {SymbolOf(j) : j \in Instruments} :
           FromWireError([symbol |-> s] @@ i) = {} <=> s = SymbolOf(i)

-----------------------------------------------------------------------------
Tokens == {<<"date", 1>>, <<"date", 2>>, <<"days", 1>>, <<"instant", 1, Canonical>>,
           <<"instant", 2, 0>>, <<"junk">>}
InstrumentFiles ==
  [opening_price : {0, 5}, expirations : UpTo(Tokens, 2), strikes : UpTo(0..2, 2),
   styles : {{}} \cup {{list} : list \in UpTo({"c", "put", "call", "x"}, 2)},
   persona : {{}, {"tight"}, {"nobody"}}]

PersonaFile == "size_scalar" :> [finite |-> TRUE, value |-> 1]
TwoPersonas == [tight |-> ResolvePersona(PersonaFile), wide |-> ResolvePersona(PersonaFile)]

AcceptedFiles == {f \in InstrumentFiles : InstrumentError("BTC", f, TwoPersonas) = {}}

(* The chain of an underlying is every expiration with every strike and    *)
(* style, each contract once, in an order that does not depend on how the  *)
(* file lists them; and none of them is refused later.                     *)
ASSUME ChainsAreComplete ==
  \A f \in AcceptedFiles :
    LET set == ResolveInstrument("BTC", f, {})
        dates == {t[2] : t \in Range(f.expirations)}
        kinds == Range(ResolveStyles(f.styles))
        Lex(a, b) == \/ a[2] < b[2]
                     \/ a[2] = b[2] /\ a[3] < b[3]
                     \/ a[2] = b[2] /\ a[3] = b[3] /\ a[4] = "Call" /\ b[4] = "Put"
    IN  /\ Range(set.contracts) = {"BTC"} \X dates \X Range(f.strikes) \X kinds
        /\ Len(set.contracts) = Cardinality(dates) * Len(f.strikes) * Cardinality(kinds)
        /\ set.contracts # <<>>
        /\ \A i \in 1..(Len(set.contracts) - 1) : Lex(set.contracts[i], set.contracts[i + 1])
        /\ set.contracts = ResolveInstrument("BTC",
             [f EXCEPT !.expirations = Reverse(@), !.strikes = Reverse(@),
                       !.styles = {Reverse(list) : list \in @}], {}).contracts
        /\ \A c \in Range(set.contracts) :
             TryNewError([underlying |-> c[1], expiration |-> ParseYyyymmdd(c[2]),
                          strike |-> c[3], style |-> c[4]]) = {}
        /\ set.persona \subseteq DOMAIN TwoPersonas

-----------------------------------------------------------------------------
ShapeValues == {[finite |-> f, value |-> v] : f \in BOOLEAN, v \in -2..4}
PersonaFiles ==
  {[k \in {knob} |-> v] : knob \in Range(ShapeKnobs), v \in ShapeValues}
  \cup {("base_size" :> n) @@ ("base_spread_bps" :> n) : n \in 0..2} \cup {<<>>}

(* A persona that is accepted is one the maker can quote with, and leaving *)
(* everything out is such a persona.                                       *)
ASSUME PersonasCanQuote ==
  /\ PersonaError(<<>>) = {}
  /\ \A f \in PersonaFiles :
       PersonaError(f) = {} =>
         LET p == ResolvePersona(f)
         IN  /\ \A k \in Range(ShapeKnobs) : p.shapes[k] \in KnobMin[k]..KnobMax[k]
             /\ \A k \in DOMAIN f \cap Range(ShapeKnobs) : f[k].finite
             /\ p.base_size > 0

Files ==
  [personas : {<<>>, <<[key |-> "tight", file |-> <<>>]>>,
               <<[key |-> "tight", file |-> <<>>], [key |-> "wide", file |-> PersonaFile]>>},
   default_persona : {{}, {"tight"}, {"wide"}},
   accounts : {<<>>},
   instruments : {<<[key |-> "BTC", file |-> f]>> :
                    f \in {g \in InstrumentFiles : g.strikes = <<1>> /\ g.styles = {}}}]

(* Every instrument of an accepted file is bound to a persona that is      *)
(* defined, or to none when the file leaves the choice between several     *)
(* open.                                                                   *)
ASSUME BindingsAreDefined ==
  \A f \in Files :
    ManifestError(f) = {} =>
      LET m == ResolveSeedManifest(f)
      IN  \A set \in Range(m.instruments) :
            /\ set.persona \subseteq DOMAIN m.personas
            /\ set.persona = {} => m.default_persona = {} /\ Cardinality(DOMAIN m.personas) # 1

-----------------------------------------------------------------------------
Bytes == {1, 2, 3, 129, 255}
Ids == UpTo(Bytes, OwnerBytes)

(* The owner of an account is found from its name alone.  Names of one     *)
(* length, up to that of an owner, have different owners: their trades     *)
(* are never taken for self-trades.  The code claims no more: longer names *)
(* may meet.                                                               *)
ASSUME OwnersTellApart ==
  /\ \A id \in Ids : \A slot \in 0..(OwnerBytes - 1) : DeriveOwner(id)[slot] \in 0..255
  /\ \A n \in 0..OwnerBytes : \A a, b \in [1..n -> Bytes] :
       DeriveOwner(a) = DeriveOwner(b) => a = b

AccountFiles ==
  [permissions : {{}, {"Read"}, {"Trade"}},
   owner : {{}, {[hex |-> TRUE, bytes |-> "o"]}, {[hex |-> FALSE, bytes |-> "o"]}},
   fix_username : {{}, {"u"}}, fix_password : {{}, {"pw"}}, sender : {{}, {"S"}}, target : {{}, {"T"}}]

(* An account that is accepted can do something, has a password only with  *)
(* a user name, and both FIX names or neither.                             *)
ASSUME AccountsAreWhole ==
  \A f \in AccountFiles :
    AccountError(f) = {} <=>
      /\ f.permissions # {} /\ \A o \in f.owner : o.hex
      /\ LET a == ResolveAccount(<<65>>, f)
         IN  /\ (a.fix_password = {} \/ a.fix_username # {})
             /\ Cardinality(a.fix_comp_ids) = Cardinality(f.sender \cup f.target) \div 2
             /\ Cardinality(f.sender) = Cardinality(f.target)

-----------------------------------------------------------------------------
Account(id, permissions, username) ==
  [id |-> id, permissions |-> permissions, owner |-> "o", fix_username |-> username,
   fix_password |-> {}, fix_comp_ids |-> {}]
Accounts ==
  UpTo({Account(<<65>>, {"Read"}, {}), Account(<<65>>, {"Trade"}, {}), Account(<<66>>, {"Read"}, {"u"}),
        Account(<<67>>, {"Read"}, {"u"}), Account(ChecksMakerId, {"Read"}, {})}, 2)
Sets == {<<>>} \cup {<<[underlying |-> "BTC", opening_price |-> 5, contracts |-> <<<<"BTC", 1, 1, "Call">>>>,
                        persona |-> {"tight"}],
                       [underlying |-> "ETH", opening_price |-> p, contracts |-> <<<<"ETH", 1, 1, "Put">>>>,
                        persona |-> {}]>> : p \in {5, 6}}
Manifests == [accounts : Accounts, instruments : Sets]

Venues == [accounts : {<<>>}, registered : {<<>>}, prices : {<<>>, [BTC |-> 5], [ETH |-> 6]},
           hosted : {{"BTC", "ETH"}, {"BTC"}}, recovered : SUBSET {"BTC", "ETH"},
           room : 0..4, journal : {<<>>}]

(* An underlying that came back from the journal is given no second        *)
(* opening price, and its contracts are registered all the same; a         *)
(* conflict of accounts or of prices is found before a price is journaled. *)
ASSUME SeedRespectsRecovery ==
  \A venue \in Venues, m \in Manifests :
    LET run == ApplySeedPhase(venue, m)
    IN  /\ \A i \in DOMAIN run.venue.journal : run.venue.journal[i][1] \notin venue.recovered
        /\ \A u \in venue.recovered \cap DOMAIN venue.prices : run.venue.prices[u] = venue.prices[u]
        /\ run.error = {} =>
             /\ \A set \in Range(m.instruments) : Range(set.contracts) \subseteq DOMAIN run.venue.registered
             /\ run.provisioned + run.unchanged = Len(m.accounts)
        /\ run.error = {"InstrumentPriceConflict"} =>
             \E set \in Range(m.instruments) : set.underlying \notin venue.recovered
                                               /\ set.underlying \in DOMAIN venue.prices
        /\ run.error # {} /\ run.error # {"UnknownUnderlying"} => run.venue.journal = venue.journal
        /\ \A a, b \in DOMAIN run.venue.accounts :
             a # b => run.venue.accounts[a].fix_username \cap run.venue.accounts[b].fix_username = {}

(* Each reason the seed or the phase can be refused for is the answer to   *)
(* some input, and there is no other.                                      *)
ASSUME SeedRefusalsAreTheDeclaredOnes ==
  /\ UNION {InstrumentError("BTC", f, TwoPersonas) : f \in InstrumentFiles}
       \cup UNION {AccountError(f) : f \in AccountFiles}
       \cup UNION {PersonaError(f) : f \in PersonaFiles} = SeedConfigErrors
  /\ UNION {ApplySeedPhase(venue, m).error : venue \in Venues, m \in Manifests} = SeedErrors

(* Applied again, a manifest changes no account and no binding.  It is no  *)
(* no-op on the journal: every opening price is journaled once more.       *)
ASSUME SeedAgainKeepsEverything ==
  \A venue \in Venues, m \in Manifests :
    LET once == ApplySeedPhase(venue, m)
        again == ApplySeedPhase(once.venue, m)
    IN  once.error = {} /\ once.venue.room >= 2 =>
          /\ again.error = {} /\ again.provisioned = 0
          /\ again.venue.accounts = once.venue.accounts
          /\ again.venue.registered = once.venue.registered
          /\ again.venue.prices = once.venue.prices
          /\ again.venue.journal = once.venue.journal \o once.venue.journal

(* With room in the queue every underlying opens at its price.  Without,   *)
(* the phase ends well all the same and the maker has no price for it.     *)
ASSUME OpeningPricesNeedRoom ==
  \A venue \in Venues, m \in Manifests :
    LET run == ApplySeedPhase(venue, m)
    IN  run.error = {} =>
          \A set \in Range(m.instruments) :
            set.underlying \notin venue.recovered =>
              \/ set.underlying \in DOMAIN run.venue.prices
                   /\ run.venue.prices[set.underlying] = set.opening_price
              \/ run.venue.room = 0
=============================================================================
