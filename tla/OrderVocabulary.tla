--------------------------- MODULE OrderVocabulary ---------------------------
(***************************************************************************)
(* The words the processes exchange: the life of an order (OrderState),    *)
(* the place its shared-memory slot has reached (OrderSlotState), and the  *)
(* predicates every component repeats over them.                           *)
(***************************************************************************)

\* order_request.hpp: enum class OrderState.
OrderState ==
  {"NotSet", "UserSubmitted", "RiskControllerPending", "RiskControllerRejected",
   "RiskControllerAccepted", "TraderPending", "TraderRejected", "TraderSubmitted",
   "TraderError", "BrokerRejected", "BrokerAccepted", "MarketRejected",
   "MarketAccepted", "Finished", "Unknown"}

\* is_terminal_state, repeated in event_loop.cpp, order_book.cpp,
\* order_recovery.cpp and orders_shm.hpp.
TerminalState ==
  {"RiskControllerRejected", "TraderRejected", "TraderError", "BrokerRejected",
   "MarketRejected", "Finished", "Unknown"}

\* shm_layout.hpp: enum class OrderSlotState.
OrderSlotState ==
  {"Empty", "Reserved", "UpstreamQueued", "UpstreamDequeued", "RiskRejected",
   "DownstreamQueued", "DownstreamDequeued", "Terminal", "QueuePushFailed"}

\* Fault: an order the gateway has already taken is not recovered.
RecoverableQueuedOnly == {"DownstreamQueued"}

\* is_recoverable_stage: the order has been handed to the gateway.
RecoverableStage == {"DownstreamQueued", "DownstreamDequeued"}

OrderType == {"New", "Cancel"}

TradeSide == {"NotSet", "Buy", "Sell"}
=============================================================================
