-------------------------- MODULE MCServiceLifecycle --------------------------
(* ServiceLifecycle on a handful of configuration files.                     *)
EXTENDS ServiceLifecycle

\* A plain file without the order log, one that turns a strategy on, one that only
\* adds a key, one whose last key does not parse, one with two sections of the
\* event loop, one whose values do not go together as long as the order log is
\* on, no file at all.
MCDocuments ==
  {[account_id |-> "1", business_log |-> "0"],
   [market_data |-> "true", active_strategy |-> "1", strategy_name |-> "unknown",
    signal_threshold |-> "0.1234567"],
   [active_strategy |-> "true", strategy_name |-> "prediction_signal"],
   [account_id |-> "0", business_log |-> "maybe"],
   [event_loop_poll_batch_size |-> "0", poll_batch_size |-> "1"],
   [queue_capacity |-> "4294967295", output_dir |-> "/var/log"],
   Unreadable}

Option(n, v) == [name |-> n, value |-> v]

\* Options that contradict the file, each other, or come before a --config.
MCCommandLines ==
  {<<>>,
   <<Option("poll_batch_size", "0")>>,
   <<Option("poll_batch_size", "0"), Option("poll_batch_size", "1")>>,
   <<Option("split_strategy", "twap")>>,
   <<Option("split_strategy", "twap"), Option("--config", [price_fallback |-> "1"])>>,
   <<Option("account_id", "64"), Option("--config", [account_id |-> "1"]),
     Option("--verbose", "1"), Option("shm_name", "/other")>>,
   <<Option("account_id", "x")>>,
   <<Option("shm_name", "/other"), Option("account_id", "missing")>>}
=============================================================================
