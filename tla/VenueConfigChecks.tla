------------------------- MODULE VenueConfigChecks -------------------------
(***************************************************************************)
(* What the configuration promises, over small layers, files, command      *)
(* lines and messages.                                                     *)
(***************************************************************************)
EXTENDS VenueConfig, TLC

Number(n) == <<"number", n>>
Text(t) == <<"text", t>>
At(h, m, s) == <<"time", h, m, s>>

ChecksDefaults ==
  [k \in Knobs \ SecretKnobs |->
     CASE k \in AddressKnobs -> Text("addr")
       [] k = "fix_enabled" -> Text("false")
       [] k = "clock" -> Text("realtime")
       [] k = "log_format" -> Text("pretty")
       [] k = "expiry_time" -> At(8, 0, 0)
       [] k = "settlement_time" -> At(8, 30, 0)
       [] k = "seed" -> Number(0)
       [] OTHER -> Number(3)]
ChecksMin == [k \in RangedKnobs |-> IF k = "fix_max_frame_bytes" THEN 2 ELSE 1]
ChecksMax == [k \in RangedKnobs |-> IF k = "fix_logon_timeout_secs" THEN 4 ELSE 6]
ChecksLimits == [k \in RateLimitKeys |-> 3]

Texts == {"", "addr", "true", "false", "stepped", "accelerated", "json", "--seed"}
Times == {At(0, 0, 0), At(8, 0, 0), At(8, 15, 59), At(23, 59, 58), At(23, 59, 59),
          At(24, 0, 0), At(8, 60, 0), At(8, 0, 60)}
Plain == {Number(n) : n \in {0, 1, 2, 4, 5, 6, 7, MaxU32, MaxU32 + 1, MaxU64, MaxU64 + 1}}
           \cup {Text(t) : t \in Texts} \cup Times
Raws == Plain \cup {<<"padded", v>> : v \in Plain}

With(k, raw) == Overlay(Defaults, k :> raw)
PairedKnobs == <<{"fix_connection_cap", "fix_max_frame_bytes"}, TimeKnobs>>
Layers ==
  {With(k, raw) : k \in Knobs, raw \in Raws}
  \cup UNION {{Overlay(Defaults, l) : l \in [PairedKnobs[i] -> Raws]} : i \in 1..2}

(* A run that boots is inside every bound the venue relies on: the read    *)
(* buffers of all sessions together, a multiplier and a step that move the *)
(* clock, times of a day that close before they settle and settle before   *)
(* the expiration's own instant (config.rs, RawConfig::validate).          *)
ASSUME AcceptedConfigsAreBounded ==
  /\ ValidateError(Defaults) = {}
  /\ \A layer \in Layers :
       ValidateError(layer) = {} =>
         LET c == Validated(layer)
         IN  /\ c["fix_connection_cap"] * c["fix_max_frame_bytes"] <= MaxAggregateFrameBytes
             /\ \A k \in RangedKnobs : c[k] \in MinOf[k]..MaxOf[k]
             /\ \A k \in ClampedKnobs : c[k] >= 1
             /\ \A k \in {"db_pool_max_connections", "clock_multiplier"} : c[k] <= MaxU32
             /\ c["expiry_time"] <= c["settlement_time"]
             /\ c["settlement_time"] < IdentityExpirySecs
             /\ \A k \in AddressKnobs : c[k] \in Addresses
             /\ ToVenueClock(c) \in {<<"realtime">>} \cup ({"accelerated"} \X (1..MaxU32))
                                      \cup ({"stepped"} \X (1..MaxU64))

(* One error is answered, and it names a knob that differs from a working  *)
(* configuration.                                                          *)
ASSUME RefusalNamesTheKnob ==
  \A layer \in Layers :
    /\ Cardinality(ValidateError(layer)) <= 1
    /\ \A e \in ValidateError(layer) :
         \/ layer[e[2]] # Defaults[e[2]]
         \/ \E i \in 1..2 : e[2] \in PairedKnobs[i]
                              /\ \E k \in PairedKnobs[i] : layer[k] # Defaults[k]

-----------------------------------------------------------------------------
(* Each layer marks what it sets with its own number. *)
Marked == {"clock", "seed", "bootstrap_secret", "fix_connection_cap"}
Marks(knobs, n) == {[k \in ks |-> Number(n)] : ks \in SUBSET knobs}

(* The value of a knob is the one of the last layer that sets it; a knob   *)
(* without a variable or a flag is out of reach of those layers, and an    *)
(* empty variable sets nothing.                                            *)
ASSUME LaterLayerWins ==
  \A file \in Marks(Marked, 1), vars \in Marks(Marked, 2), cli \in Marks({"clock", "seed"}, 3),
     empty \in SUBSET Marked :
    LET env == [k \in DOMAIN vars |-> IF k \in empty THEN Empty ELSE vars[k]]
        merged == Assembled(file, RawFromEnv(env), cli)
    IN  \A k \in Marked :
          LET setters == {n \in 1..3 : \/ n = 1 /\ k \in DOMAIN file
                                       \/ n = 2 /\ k \in (DOMAIN vars \cap EnvKnobs) \ empty
                                       \/ n = 3 /\ k \in DOMAIN cli}
          IN  IF setters = {} THEN IF k \in DOMAIN Defaults THEN merged[k] = Defaults[k]
                                                            ELSE k \notin DOMAIN merged
              ELSE merged[k] = Number(CHOOSE n \in setters : \A m \in setters : m <= n)

-----------------------------------------------------------------------------
Pairs == {"--seed", "--database-url", "--config"} \X {Number(1), Number(2), Text("--seed"), Empty}
Lists(S, n) == UNION {[1..m -> S] : m \in 0..n}

Spread(pairs) == FlattenSeq([i \in DOMAIN pairs |-> <<Text(pairs[i][1]), pairs[i][2]>>])
Joined(pairs) == [i \in DOMAIN pairs |-> <<"inline", pairs[i][1], pairs[i][2]>>]

(* A flag and its value in one argument or in two is the same, the last    *)
(* of several wins, and a value that looks like a flag is still a value:   *)
(* a flag that ends the line is the only one without (parse_cli).          *)
ASSUME CommandLineIsRead ==
  \A pairs \in Lists(Pairs, 3) :
    LET cli == ParseCli(Joined(pairs))
        last == [f \in {p[1] : p \in Range(pairs)} |->
                   pairs[CHOOSE i \in DOMAIN pairs : pairs[i][1] = f
                            /\ \A j \in DOMAIN pairs : pairs[j][1] = f => j <= i][2]]
    IN  /\ cli = ParseCli(Spread(pairs))
        /\ cli.error = {}
        /\ cli.raw = [k \in {CliKnob[f] : f \in DOMAIN last \ {"--config"}} |->
                        last[CHOOSE f \in DOMAIN CliKnob : CliKnob[f] = k]]
        /\ cli.path = IF "--config" \in DOMAIN last THEN {last["--config"]} ELSE {}
        /\ \A f \in CliFlags :
             ParseCli(Append(Spread(pairs), Text(f))).error = {<<"MissingCliValue", "cli", f>>}
        /\ \A word \in {Text("--sed"), Number(4), <<"inline", "--sed", Number(4)>>} :
             ParseCli(Append(Spread(pairs), word)).error # {}

-----------------------------------------------------------------------------
(* A secret in any layer, beside a knob that may be refused. *)
SecretIn(layer, secret) ==
  CASE layer = "file" -> [args |-> <<<<"inline", "--config", Text("f")>>>>,
         file |-> [persistence |-> [database_url |-> <<"string", secret>>]], env |-> <<>>]
    [] layer = "env" -> [args |-> <<>>, file |-> <<>>, env |-> "bootstrap_secret" :> secret]
    [] OTHER -> [args |-> <<Text("--database-url"), secret>>, file |-> <<>>, env |-> <<>>]

(* Neither an error nor the effective configuration tells one secret from  *)
(* another (config.rs, Secret).                                            *)
ASSUME SecretsStayHidden ==
  \A layer \in {"file", "env", "cli"}, raw \in Raws, k \in {"seed", "clock"} :
    LET Input(secret) ==
          LET x == SecretIn(layer, secret)
          IN  [x EXCEPT !.env = (k :> raw) @@ @]
        Disk(x) == {[sections |-> x.file, seed |-> {}, microstructure |-> {}]}
        Error(x) == LoadError(x.args, Disk(x), x.env, ChecksLimits)
        a == Input(Text("secret one"))
        b == Input(Text("secret two"))
    IN  /\ Error(a) = Error(b)
        /\ Error(a) = {} => /\ RenderEffective(Loaded(a.args, Disk(a), a.env))
                                 = RenderEffective(Loaded(b.args, Disk(b), b.env))
                            /\ Loaded(a.args, Disk(a), a.env) # Loaded(b.args, Disk(b), b.env)

-----------------------------------------------------------------------------
Typed(section, key) ==
  IF section = "rate_limits" \/ KnobKeys[section][key]
                                  \in RangedKnobs \cup ClampedKnobs \cup PlainKnobs
  THEN <<"integer", 2>>
  ELSE IF key = "enabled" THEN <<"bool", TRUE>> ELSE <<"string", Text("stepped")>>

(* Every knob has one place in the file, a value written there reaches it  *)
(* and no other, and a value of another type or a misspelt key stops the   *)
(* boot.                                                                   *)
ASSUME EveryKnobHasItsKey ==
  /\ UNION {Range(KnobKeys[s]) : s \in DOMAIN KnobKeys} = Knobs
  /\ \A s \in FileSections : \A key \in KeysOf(s) :
       LET file == s :> (key :> Typed(s, key))
       IN  /\ FileErrors(file) = {}
           /\ s # "rate_limits" => IntoRaw(file) = (KnobKeys[s][key] :> ToText(Typed(s, key)))
           /\ FileErrors(s :> (key :> <<"string", Text("x")>>)) = {}
                <=> Typed(s, key)[1] = "string"
           /\ FileErrors(s :> ((key :> Typed(s, key)) @@ ("typo" :> <<"integer", 1>>)))
                = {<<"UnknownKey", "file", "typo">>}

(* Each reason a run can be refused for is the answer to some input, and   *)
(* there is no other.                                                      *)
ASSUME RefusalsAreTheDeclaredOnes ==
  LET Kinds(errors) == {e[1] : e \in errors}
      config == <<<<"inline", "--config", Text("f")>>>>
      Holding(sections) == {[sections |-> sections, seed |-> {}, microstructure |-> {}]}
      Of(args, disk) == Kinds(LoadError(args, disk, <<>>, ChecksLimits))
  IN  UNION {Kinds(ValidateError(layer)) : layer \in Layers}
        \cup Of(<<Text("--seed")>>, {}) \cup Of(<<Text("--sed")>>, {}) \cup Of(config, {})
        \cup Of(config, Holding([servers |-> <<>>]))
        \cup Of(config, Holding([clock |-> [mode |-> <<"integer", 1>>]]))
        \cup Of(config, Holding([rate_limits |-> [window_secs |-> <<"integer", 0>>]]))
      = ConfigErrors

(* Accepted limits open every tier, for a window whose milliseconds are    *)
(* exact: the saturation in to_budgets is never reached.                   *)
ASSUME BudgetsAreExact ==
  \A window, limit \in 0..MaxU64, k \in RateLimitKeys \ {"window_secs"} :
    LET limits == [ChecksLimits EXCEPT !.window_secs = window, ![k] = limit]
        budgets == ToBudgets(limits)
    IN  RateLimitError(limits) = {} =>
          /\ budgets.window_ms = window * MillisPerSec /\ budgets.window_ms > 0
          /\ \A tier \in {"Read", "Trade", "Admin"} : budgets[tier] > 0

(* A time of day reads back from what it is written as, and is written as  *)
(* what it was read from: no two texts without blanks are one time.        *)
ASSUME TimesReadBack ==
  /\ \A secs \in 0..(24 * 3600 - 1) : ParseTime(FmtTime(secs)) = {secs}
  /\ \A t \in Times : \A secs \in ParseTime(t) : FmtTime(secs) = t

-----------------------------------------------------------------------------
Words == {Quote, "literal", "password", "word"}

(* Of a message that names a secret's key nothing that stood between       *)
(* quotes is left, everything else is, in order, and the quotes still      *)
(* close (scrub_secret_literals).                                          *)
ASSUME LiteralsAreScrubbed ==
  \A message \in Lists(Words, 6) :
    LET out == ScrubSecretLiterals(message)
        Quotes(seq) == Cardinality({i \in DOMAIN seq : seq[i] = Quote})
        Outside(i) == Quotes(SubSeq(message, 1, i)) % 2 = 0
        kept == [i \in {i \in DOMAIN message : message[i] # Quote /\ Outside(i)} |-> message[i]]
        IsWord(w) == w \notin {Quote, "<redacted>"}
    IN  "password" \in Range(message) =>
          /\ SelectSeq(out, IsWord) =
               SelectSeq([i \in DOMAIN message |->
                            IF i \in DOMAIN kept THEN message[i] ELSE Quote], IsWord)
          /\ Quotes(out) % 2 = 0

(* The line is one more than the line ends before the error, the column    *)
(* counts from the last of them.                                           *)
ASSUME PositionsAreTrue ==
  \A text \in Lists({"newline", "x"}, 6), index \in 0..7 :
    LET before == {i \in DOMAIN text : i <= index /\ text[i] = "newline"}
        end == IF index < Len(text) THEN index ELSE Len(text)
        line == LineCol(text, index)
    IN  /\ line[1] = 1 + Cardinality(before)
        /\ line[2] = 1 + end - (IF before = {} THEN 0 ELSE CHOOSE i \in before : \A j \in before : j <= i)
=============================================================================
