---------------------------- MODULE VenueConfig ----------------------------
(***************************************************************************)
(* The configuration of a run (config.rs): four layers, the defaults, the  *)
(* file, the environment and the command line, merged so that the later    *)
(* one wins, and validated once, before the venue serves.                  *)
(*                                                                         *)
(* A layer is a function from the knobs it sets to raw values.  A raw      *)
(* value is what a text is to the parsers: <<"number", n>>, <<"text", t>>, *)
(* <<"time", h, m, s>>, or <<"padded", v>>, a value between blanks.  A     *)
(* result is the set of its errors, {} when there is none; an error is     *)
(* <<kind, knob, value>>, with what its message shows.                     *)
(***************************************************************************)
EXTENDS Integers, Sequences, FiniteSets, SequencesExt, Validation

CONSTANTS
  MaxU32, MaxU64,          \* the widths of the numbers
  Addresses,               \* the texts that parse as a socket address
  Defaults,                \* the layer of the defaults
  MinOf, MaxOf,            \* the accepted range of every numeric [fix] knob
  MaxAggregateFrameBytes,  \* ceiling of connection_cap * max_frame_bytes
  MaxWindowSecs            \* ceiling of the rate-limit window

ASSUME ConfigWidths == MaxU32 \in Nat /\ MaxU64 \in Nat /\ MaxU32 <= MaxU64

-----------------------------------------------------------------------------
(* The knobs, by the parser that reads them. *)

AddressKnobs == {"http_addr", "fix_addr"}
RangedKnobs ==
  {"fix_connection_cap", "fix_mailbox_depth", "fix_max_frame_bytes",
   "fix_idle_timeout_secs", "fix_logon_timeout_secs", "fix_max_heart_bt_int_secs"}
ClampedKnobs == {"db_pool_max_connections", "clock_multiplier", "clock_step_interval_ms"}
PlainKnobs == {"db_slow_acquire_ms", "seed"}
TimeKnobs == {"expiry_time", "settlement_time"}
SecretKnobs == {"database_url", "bootstrap_secret"}
Knobs == AddressKnobs \cup RangedKnobs \cup ClampedKnobs \cup PlainKnobs \cup TimeKnobs
           \cup SecretKnobs \cup {"fix_enabled", "clock", "log_format"}

ClockModes == {"realtime", "accelerated", "stepped"}
LogFormats == {"json", "pretty"}

(* Every knob but the secrets has a default.                               *)
ASSUME DefaultLayer == DOMAIN Defaults = Knobs \ SecretKnobs

Overlay(lower, upper) ==
  [k \in DOMAIN lower \cup DOMAIN upper |->
     IF k \in DOMAIN upper THEN upper[k] ELSE lower[k]]

Assembled(file, env, cli) == Overlay(Overlay(Overlay(Defaults, file), env), cli)

-----------------------------------------------------------------------------
(* The environment: an empty variable counts as unset. *)

EnvKnobs == {"http_addr", "fix_addr", "database_url", "db_pool_max_connections",
             "db_slow_acquire_ms", "clock", "seed", "bootstrap_secret", "log_format"}

Empty == <<"text", "">>

RawFromEnv(env) ==
  [k \in {k \in DOMAIN env \cap EnvKnobs : env[k] # Empty} |-> env[k]]

-----------------------------------------------------------------------------
(* The command line.  An argument is <<"inline", flag, value>>, written    *)
(* flag=value, or a raw value, which is a flag when its text is one.  The  *)
(* argument after a flag without a value is its value whatever it is.      *)

CliKnob ==
  "--http-addr" :> "http_addr" @@ "--fix-addr" :> "fix_addr"
  @@ "--database-url" :> "database_url" @@ "--db-max-connections" :> "db_pool_max_connections"
  @@ "--db-slow-acquire-ms" :> "db_slow_acquire_ms" @@ "--clock" :> "clock"
  @@ "--seed" :> "seed" @@ "--log-format" :> "log_format"
CliFlags == DOMAIN CliKnob \cup {"--config"}

IsInline(arg) == arg[1] = "inline"
FlagOf(arg) == IF arg[1] \in {"text", "inline"} THEN arg[2] ELSE "not a flag"

(* want is {} or the set of the flag whose value is the next argument.     *)
NoArguments == [want |-> {}, path |-> {}, raw |-> <<>>, error |-> {}]

TakeValue(cli, flag, value) ==
  IF flag = "--config" THEN [cli EXCEPT !.want = {}, !.path = {value}]
  ELSE [cli EXCEPT !.want = {}, !.raw = (CliKnob[flag] :> value) @@ @]

ParseArgument(cli, arg) ==
  IF cli.error # {} THEN cli
  ELSE IF cli.want # {} THEN TakeValue(cli, CHOOSE f \in cli.want : TRUE, arg)
  ELSE IF FlagOf(arg) \notin CliFlags
       THEN [cli EXCEPT !.error = {<<"UnknownCliFlag", "cli", FlagOf(arg)>>}]
  ELSE IF IsInline(arg) THEN TakeValue(cli, arg[2], arg[3])
  ELSE [cli EXCEPT !.want = {FlagOf(arg)}]

ParseCli(args) ==
  LET cli == FoldLeft(ParseArgument, NoArguments, args)
  IN  IF cli.want = {} THEN cli
      ELSE [cli EXCEPT !.error = {<<"MissingCliValue", "cli", f>> : f \in cli.want}]

-----------------------------------------------------------------------------
(* The parsers. *)

Trim(raw) == IF raw[1] = "padded" THEN raw[2] ELSE raw

IsNumber(raw, width) == Trim(raw)[1] = "number" /\ Trim(raw)[2] \in 0..width
IsText(raw, texts) == raw[1] = "text" /\ raw[2] \in texts

Width(k) == IF k \in {"db_pool_max_connections", "clock_multiplier"} THEN MaxU32 ELSE MaxU64

AtLeastOne(n) == IF n = 0 THEN 1 ELSE n

FromHms(h, m, s) == IF h > 23 \/ m > 59 \/ s > 59 THEN {} ELSE {h * 3600 + m * 60 + s}
ParseTime(raw) ==
  LET t == Trim(raw) IN IF t[1] = "time" THEN FromHms(t[2], t[3], t[4]) ELSE {}
FmtTime(secs) == <<"time", secs \div 3600, (secs % 3600) \div 60, secs % 60>>

IdentityExpirySecs == 23 * 3600 + 59 * 60 + 59

(* The reasons a run does not start for.                                   *)
ConfigErrors ==
  {"FileRead", "UnknownKey", "TomlParse", "BadAddress", "InvalidClock", "InvalidLogFormat",
   "BadSeed", "BadPersistenceValue", "BadClockValue", "BadFixValue", "BadRateLimitValue",
   "BadOperationalTime", "OperationalSettlementBeforeExpiry",
   "OperationalTimeNotBeforeIdentity", "MissingCliValue", "UnknownCliFlag"}

(* A knob's value, once it has no error.                                   *)
Value(k, raw) ==
  CASE k \in RangedKnobs \cup PlainKnobs -> Trim(raw)[2]
    [] k \in ClampedKnobs -> AtLeastOne(Trim(raw)[2])
    [] k \in TimeKnobs -> CHOOSE secs \in ParseTime(raw) : TRUE
    [] k = "fix_enabled" -> Trim(raw)[2] = "true"
    [] k \in SecretKnobs -> raw
    [] OTHER -> raw[2]

KnobError(k, raw) ==
  CASE k \in AddressKnobs -> When(~IsText(raw, Addresses), <<"BadAddress", k, raw>>)
    [] k = "fix_enabled" -> When(~IsText(Trim(raw), {"true", "false"}), <<"BadFixValue", k, raw>>)
    [] k \in RangedKnobs ->
         When(~IsNumber(raw, MaxU64) \/ Trim(raw)[2] \notin MinOf[k]..MaxOf[k],
              <<"BadFixValue", k, raw>>)
    [] k = "clock" -> When(~IsText(raw, ClockModes), <<"InvalidClock", k, raw>>)
    [] k \in {"clock_multiplier", "clock_step_interval_ms"} ->
         When(~IsNumber(raw, Width(k)), <<"BadClockValue", k, raw>>)
    [] k \in TimeKnobs -> When(ParseTime(raw) = {}, <<"BadOperationalTime", k, raw>>)
    [] k = "log_format" -> When(~IsText(raw, LogFormats), <<"InvalidLogFormat", k, raw>>)
    [] k = "seed" -> When(~IsNumber(raw, MaxU64), <<"BadSeed", k, raw>>)
    [] k \in {"db_pool_max_connections", "db_slow_acquire_ms"} ->
         When(~IsNumber(raw, Width(k)), <<"BadPersistenceValue", k, raw>>)
    [] OTHER -> {}

(* The worst case of every session's read buffer at once.                  *)
AggregateError(layer) ==
  LET cap == Value("fix_connection_cap", layer["fix_connection_cap"])
      frame == Value("fix_max_frame_bytes", layer["fix_max_frame_bytes"])
  IN  When(cap * frame > MaxAggregateFrameBytes,
           <<"BadFixValue", "fix_connection_cap", <<"number", cap>>>>)

(* Both operational times lie strictly before the instant that identifies  *)
(* an expiration, and the settlement is not before the expiry.             *)
LifecycleError(layer) ==
  LET At(k) == Value(k, layer[k])
      Late(k) == When(At(k) >= IdentityExpirySecs,
                      <<"OperationalTimeNotBeforeIdentity", k, FmtTime(At(k))>>)
  IN  FirstError(<<Late("expiry_time"), Late("settlement_time"),
        When(At("settlement_time") < At("expiry_time"),
             <<"OperationalSettlementBeforeExpiry", "settlement_time", FmtTime(At("settlement_time"))>>)>>)

(* The order of validate, as far as a check reads what those before it     *)
(* have accepted.                                                          *)
ValidateError(layer) ==
  LET Each(ks) == [i \in DOMAIN ks |-> KnobError(ks[i], layer[ks[i]])]
      first == FirstError(Each(<<"http_addr", "fix_addr", "fix_enabled", "fix_connection_cap",
                 "fix_mailbox_depth", "fix_max_frame_bytes", "fix_idle_timeout_secs",
                 "fix_logon_timeout_secs", "fix_max_heart_bt_int_secs">>))
      clock == FirstError(Each(<<"clock", "clock_multiplier", "clock_step_interval_ms",
                                 "expiry_time", "settlement_time">>))
      rest == FirstError(Each(<<"log_format", "seed", "db_pool_max_connections",
                                "db_slow_acquire_ms">>))
  IN  IF first # {} THEN first
      ELSE IF AggregateError(layer) # {} THEN AggregateError(layer)
      ELSE IF clock # {} THEN clock
      ELSE FirstError(<<LifecycleError(layer), rest>>)

Validated(layer) == [k \in DOMAIN layer |-> Value(k, layer[k])]

-----------------------------------------------------------------------------
(* The file.  It is a function from its sections to functions from their   *)
(* keys to typed values: <<"string", raw>>, <<"integer", n>> or            *)
(* <<"bool", b>>.                                                          *)

KnobKeys ==
  "server" :> [http_addr |-> "http_addr"]
  @@ "fix" :> [fix_addr |-> "fix_addr", enabled |-> "fix_enabled",
               connection_cap |-> "fix_connection_cap", mailbox_depth |-> "fix_mailbox_depth",
               max_frame_bytes |-> "fix_max_frame_bytes",
               idle_timeout_secs |-> "fix_idle_timeout_secs",
               logon_timeout_secs |-> "fix_logon_timeout_secs",
               max_heart_bt_int_secs |-> "fix_max_heart_bt_int_secs"]
  @@ "persistence" :> [database_url |-> "database_url",
                       pool_max_connections |-> "db_pool_max_connections",
                       slow_acquire_ms |-> "db_slow_acquire_ms"]
  @@ "clock" :> [mode |-> "clock", multiplier |-> "clock_multiplier",
                 step_interval_ms |-> "clock_step_interval_ms"]
  @@ "expiry_lifecycle" :> [expiry_time |-> "expiry_time", settlement_time |-> "settlement_time"]
  @@ "determinism" :> [seed |-> "seed"]
  @@ "auth" :> [bootstrap_secret |-> "bootstrap_secret"]
  @@ "logging" :> [format |-> "log_format"]
RateLimitKeys == {"window_secs", "read_per_window", "trade_per_window", "admin_per_window"}
KeysOf(section) == IF section = "rate_limits" THEN RateLimitKeys ELSE DOMAIN KnobKeys[section]
FileSections == DOMAIN KnobKeys \cup {"rate_limits"}

FileWidth(section, key) ==
  IF key \in {"max_heart_bt_int_secs", "pool_max_connections", "multiplier"}
             \cup (RateLimitKeys \ {"window_secs"}) THEN MaxU32 ELSE MaxU64

HasType(section, key, value) ==
  LET knob == IF section = "rate_limits" THEN key ELSE KnobKeys[section][key]
  IN  CASE section = "rate_limits" \/ knob \in RangedKnobs \cup ClampedKnobs \cup PlainKnobs ->
             value[1] = "integer" /\ value[2] \in 0..FileWidth(section, key)
        [] knob = "fix_enabled" -> value[1] = "bool"
        [] OTHER -> value[1] = "string"

(* A section or a key nobody declared is refused by name, a value of       *)
(* another type without the line it stands on.                             *)
FileErrors(file) ==
  LET unknown == {<<"UnknownKey", "file", s>> : s \in DOMAIN file \ FileSections}
        \cup UNION {{<<"UnknownKey", "file", k>> : k \in DOMAIN file[s] \ KeysOf(s)} :
                      s \in DOMAIN file \cap FileSections}
      mistyped == {<<s, k>> \in UNION {{s} \X (DOMAIN file[s] \cap KeysOf(s)) :
                                         s \in DOMAIN file \cap FileSections} :
                     ~HasType(s, k, file[s][k])}
  IN  unknown \cup When(mistyped # {}, <<"TomlParse", "file", "">>)

ToText(value) ==
  CASE value[1] = "string" -> value[2]
    [] value[1] = "integer" -> <<"number", value[2]>>
    [] OTHER -> <<"text", IF value[2] THEN "true" ELSE "false">>

IntoRaw(file) ==
  LET set == UNION {{s} \X DOMAIN file[s] : s \in DOMAIN file \ {"rate_limits"}}
      At(knob) == CHOOSE x \in set : KnobKeys[x[1]][x[2]] = knob
  IN  [knob \in {KnobKeys[x[1]][x[2]] : x \in set} |-> ToText(file[At(knob)[1]][At(knob)[2]])]

-----------------------------------------------------------------------------
(* The rate limits, which only the file sets. *)

RateLimits(file, default) ==
  IF "rate_limits" \notin DOMAIN file THEN default
  ELSE LET section == file["rate_limits"]
       IN  [k \in RateLimitKeys |-> IF k \in DOMAIN section THEN section[k][2] ELSE default[k]]

RateLimitError(limits) ==
  FirstError(<<
    When(limits.window_secs = 0 \/ limits.window_secs > MaxWindowSecs,
         <<"BadRateLimitValue", "window_secs", limits.window_secs>>),
    When(limits.read_per_window = 0, <<"BadRateLimitValue", "read_per_window", 0>>),
    When(limits.trade_per_window = 0, <<"BadRateLimitValue", "trade_per_window", 0>>),
    When(limits.admin_per_window = 0, <<"BadRateLimitValue", "admin_per_window", 0>>)>>)

MillisPerSec == 2
ToBudgets(limits) ==
  [window_ms |-> LET ms == limits.window_secs * MillisPerSec
                 IN  IF ms > MaxU64 THEN MaxU64 ELSE ms,
   Read |-> limits.read_per_window, Trade |-> limits.trade_per_window,
   Admin |-> limits.admin_per_window]

-----------------------------------------------------------------------------
(* Loading.  `disk` is {} when the path cannot be read, or the set of what *)
(* the file holds: its sections, and the errors of the seed and of the     *)
(* microstructure sections.                                                *)

LoadError(args, disk, env, default) ==
  LET cli == ParseCli(args)
      file == IF cli.path = {} \/ disk = {} THEN [sections |-> <<>>, seed |-> {}, microstructure |-> {}]
              ELSE CHOOSE f \in disk : TRUE
      layer == Assembled(IntoRaw(file.sections), RawFromEnv(env), cli.raw)
  IN  IF cli.error # {} THEN cli.error
      ELSE IF cli.path # {} /\ disk = {} THEN {<<"FileRead", "file", p>> : p \in cli.path}
      ELSE IF FileErrors(file.sections) # {} THEN FileErrors(file.sections)
      ELSE FirstError(<<file.seed, file.microstructure,
                        RateLimitError(RateLimits(file.sections, default)),
                        ValidateError(layer)>>)

Loaded(args, disk, env) ==
  LET cli == ParseCli(args)
      sections == IF cli.path = {} THEN <<>> ELSE (CHOOSE f \in disk : TRUE).sections
  IN  Validated(Assembled(IntoRaw(sections), RawFromEnv(env), cli.raw))

Backend(config) == IF "database_url" \in DOMAIN config THEN "postgres" ELSE "in-memory"

(* The clock the venue runs on: the knob of the other mode is not used.    *)
ToVenueClock(config) ==
  CASE config["clock"] = "realtime" -> <<"realtime">>
    [] config["clock"] = "accelerated" -> <<"accelerated", config["clock_multiplier"]>>
    [] OTHER -> <<"stepped", config["clock_step_interval_ms"]>>

(* The effective configuration in the log: a secret shows only whether it  *)
(* is set.                                                                 *)
RenderEffective(config) ==
  LET hidden == {"fix_logon_timeout_secs", "fix_max_heart_bt_int_secs", "clock_multiplier",
                 "clock_step_interval_ms"}
      Shown(k) == IF k \notin DOMAIN config THEN "<unset>"
                  ELSE IF k \in SecretKnobs THEN "<redacted>" ELSE config[k]
  IN  [k \in Knobs \ hidden |-> Shown(k)] @@ ("backend" :> Backend(config))

-----------------------------------------------------------------------------
(* A parse error.  Its message is a sequence of words and of quote marks;  *)
(* if it names a key that holds a secret, what stands between quotes is    *)
(* replaced.                                                               *)

Quote == "quote"
SecretKeyTokens == {"fix_password", "bootstrap_secret", "database_url", "password"}

ScrubWord(state, word) ==
  IF word # Quote
  THEN IF state.quoted THEN [state EXCEPT !.contents = TRUE]
       ELSE [state EXCEPT !.out = Append(@, word)]
  ELSE IF state.quoted
       THEN [quoted |-> FALSE, contents |-> FALSE,
             out |-> (IF state.contents THEN Append(state.out, "<redacted>") ELSE state.out)
                       \o <<Quote>>]
  ELSE [quoted |-> TRUE, contents |-> FALSE, out |-> Append(state.out, Quote)]

(* A quote that is never closed runs to the end and is closed there.       *)
ScrubSecretLiterals(message) ==
  IF Range(message) \cap SecretKeyTokens = {} THEN message
  ELSE LET end == FoldLeft(ScrubWord, [quoted |-> FALSE, contents |-> FALSE, out |-> <<>>], message)
       IN  IF end.quoted THEN ScrubWord(end, Quote).out ELSE end.out

(* Where an error starts, in lines and columns from one.                   *)
LineCol(contents, index) ==
  LET Step(at, n) == IF contents[n] = "newline" THEN <<at[1] + 1, 1>> ELSE <<at[1], at[2] + 1>>
  IN  FoldLeft(Step, <<1, 1>>, [n \in 1..(IF index < Len(contents) THEN index ELSE Len(contents)) |-> n])
=============================================================================
