------------------------------ MODULE AIGateway ------------------------------
(***************************************************************************)
(* The client of the AI service, which is made for one operation and       *)
(* counts what its calls cost, and the configuration it is made from.      *)
(***************************************************************************)
EXTENDS Naturals

CONSTANTS
  Models,       \* names of chat models
  MaxSwitches   \* bound: changes of the configured model

ASSUME GatewayAssumption == Models # {} /\ MaxSwitches \in Nat

VARIABLES
  chat_model,   \* SysConfig: default_chat_model
  switches

gatewayVars == <<chat_model, switches>>

GatewayTypeOK == chat_model \in Models /\ switches \in 0..MaxSwitches

GatewayInit == chat_model \in Models /\ switches = 0

SwitchModel ==
  /\ switches < MaxSwitches /\ switches' = switches + 1
  /\ chat_model' \in Models \ {chat_model}

\* The cost of the last call that was answered, and of all of them.
OpenaiClient(model) == [model |-> model, last_usage |-> 0, total_usage |-> 0]

\* A call that is answered costs a token.  One that is not leaves the client as it is.
create_chat_completion(client) == [client EXCEPT !.last_usage = 1, !.total_usage = @ + 1]
=============================================================================
