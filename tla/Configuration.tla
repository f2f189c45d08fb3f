---------------------------- MODULE Configuration ----------------------------
(***************************************************************************)
(* core/config_manager.cpp: how a YAML file becomes a configuration.  A      *)
(* document is the texts it gives for some keys; each key is parsed by its   *)
(* kind; keys it does not mention keep the value they had before; rules that *)
(* relate several keys are checked at the end, on what is then already the   *)
(* configuration in use.                                                   *)
(*                                                                         *)
(* A key stands for every key of its section that is parsed and checked the  *)
(* same way.  Both spellings of the event loop's section exist; the second   *)
(* one is read later and wins.                                             *)
(***************************************************************************)
EXTENDS Naturals, Sequences, SequencesExt

\* The configuration keys and how apply_value parses each.
KeyKind ==
  [account_id |-> "integer", trading_day |-> "day", shm_name |-> "text",
   poll_batch_size |-> "integer", market_data |-> "bool", snapshot_shm_name |-> "text",
   price_fallback |-> "bool", active_strategy |-> "bool", strategy_name |-> "text",
   signal_threshold |-> "double", split_strategy |-> "split", max_child_count |-> "integer",
   business_log |-> "bool", output_dir |-> "text", queue_capacity |-> "integer",
   flush_interval_ms |-> "integer"]
ConfigKeys == DOMAIN KeyKind

\* Keys as a document spells them; "event_loop" is the older section name.
Alias == [event_loop_poll_batch_size |-> "poll_batch_size"]
DocumentKeys == ConfigKeys \cup DOMAIN Alias

\* A file that is missing or is not a YAML map.
Unreadable == [unreadable |-> "unreadable"]

\* 64 stands for every number that is neither zero, one nor the largest.
DefaultConfig ==
  [account_id |-> 1, trading_day |-> "19700101", shm_name |-> "/shm", poll_batch_size |-> 64,
   market_data |-> FALSE, snapshot_shm_name |-> "/signal", price_fallback |-> FALSE,
   active_strategy |-> FALSE, strategy_name |-> "none", signal_threshold |-> "0",
   split_strategy |-> "none", max_child_count |-> 64, business_log |-> TRUE,
   output_dir |-> "./logs", queue_capacity |-> 64, flush_interval_ms |-> 64]

-----------------------------------------------------------------------------
(* parse_bool, parse_integral, parse_split_strategy, is_valid_trading_day    *)

\* Stands for UINT32_MAX; only its order among the numbers matters.
Uint32Max == 100

Number ==
  [text \in {"0", "1", "64", "4294967295"} |->
     CASE text = "0" -> 0 [] text = "1" -> 1 [] text = "64" -> 64 [] OTHER -> Uint32Max]

TradingDays == {"19700101", "20260101"}

Parses(kind, text) ==
  CASE kind = "bool" -> text \in {"1", "true", "0", "false"}
    [] kind = "integer" -> text \in DOMAIN Number
    [] kind = "day" -> text \in TradingDays
    [] kind = "double" -> text \in {"0", "0.1234567", "0.123457"}
    [] kind = "split" -> text \in {"none", "twap"}
    [] OTHER -> TRUE

Parsed(kind, text) ==
  CASE kind = "bool" -> text \in {"1", "true"}
    [] kind = "integer" -> Number[text]
    [] OTHER -> text

\* apply_value on every entry; check_allowed_keys refuses a key it does not know.
Readable(doc) ==
  /\ doc # Unreadable
  /\ \A k \in DOMAIN doc :
       /\ k \in DocumentKeys
       /\ Parses(KeyKind[IF k \in DOMAIN Alias THEN Alias[k] ELSE k], doc[k])

\* load_from_file works on a copy of the configuration it has.
Merged(config, doc) ==
  [k \in ConfigKeys |->
     IF k \in DOMAIN doc THEN Parsed(KeyKind[k], doc[k])
     ELSE IF \E a \in DOMAIN doc \cap DOMAIN Alias : Alias[a] = k
     THEN LET a == CHOOSE a \in DOMAIN doc \cap DOMAIN Alias : Alias[a] = k
          IN Parsed(KeyKind[k], doc[a])
     ELSE config[k]]

-----------------------------------------------------------------------------

\* ConfigManager::validate.
Valid(config) ==
  /\ config.account_id # 0
  /\ config.trading_day \in TradingDays
  /\ config.shm_name # ""
  /\ config.market_data => config.snapshot_shm_name # ""
  /\ config.active_strategy => config.market_data
  /\ config.split_strategy # "none" => config.market_data \/ config.price_fallback
  /\ config.poll_batch_size # 0
  /\ config.split_strategy # "none" => config.max_child_count # 0
  /\ config.business_log =>
       /\ config.output_dir # ""
       /\ config.queue_capacity >= 2 /\ config.queue_capacity < Uint32Max
       /\ config.flush_interval_ms # 0

\* Fault: the keys go into the configuration in use one by one, those before a
\* bad one included.
LoadedInPlace(config, doc) ==
  LET good == {k \in DOMAIN doc \cap ConfigKeys : Parses(KeyKind[k], doc[k])}
      whole == Merged(config, [k \in good |-> doc[k]])
  IN [config |-> whole, ok |-> Readable(doc) /\ Valid(whole)]

\* load_from_file: the configuration afterwards, and whether it returned true.
Loaded(config, doc) ==
  IF Readable(doc)
  THEN [config |-> Merged(config, doc), ok |-> Valid(Merged(config, doc))]
  ELSE [config |-> config, ok |-> FALSE]
-----------------------------------------------------------------------------
(* export_to_file and parse_command_line, for tools that own a manager.      *)

\* Streams print a double with six significant digits.
Printed(kind, value) ==
  CASE kind = "bool" -> IF value THEN "true" ELSE "false"
    [] kind = "integer" -> CHOOSE text \in DOMAIN Number : Number[text] = value
    [] kind = "double" -> IF value = "0.1234567" THEN "0.123457" ELSE value
    [] OTHER -> value

\* write_config_yaml writes every key.
Exported(config) == [k \in ConfigKeys |-> Printed(KeyKind[k], config[k])]

\* One option: --config loads a file on top of what is there, an option with a
\* key is applied in place, one without its value fails, an unknown one is
\* passed over.
OptionApplied(result, option) ==
  IF ~result.ok THEN result
  ELSE IF option.name = "--config" THEN Loaded(result.config, option.value)
  ELSE IF option.name \notin ConfigKeys THEN result
  ELSE IF option.value = "missing" \/ ~Parses(KeyKind[option.name], option.value)
  THEN [result EXCEPT !.ok = FALSE]
  ELSE [result EXCEPT !.config[option.name] = Parsed(KeyKind[option.name], option.value)]

\* The options from left to right, as far as they are accepted.
OptionsApplied(config, options) ==
  LET applied[n \in 0 .. Len(options)] ==
        IF n = 0 THEN [config |-> config, ok |-> TRUE]
        ELSE OptionApplied(applied[n - 1], options[n])
  IN applied[Len(options)]

\* parse_command_line.
CommandLine(config, options) ==
  LET result == OptionsApplied(config, options)
  IN [result EXCEPT !.ok = @ /\ Valid(result.config)]
=============================================================================
