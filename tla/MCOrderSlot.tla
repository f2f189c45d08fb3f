---------------------------- MODULE MCOrderSlot ----------------------------
(* The slot of one order from its push downstream on: send_to_downstream   *)
(* writes the stage and update_state the request, the gateway its stage.   *)
EXTENDS OrderSlot

CONSTANTS service, gateway

MCProgram ==
  [w \in Writers |-> IF w = service THEN <<"update_stage", "sync_order">>
                     ELSE <<"update_stage">>]
============================================================================
