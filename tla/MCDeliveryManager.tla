------------------------- MODULE MCDeliveryManager -------------------------
EXTENDS DeliveryManager

\* Deliveries of one event to one handler.
MCKeyOf == [j \in Jobs |-> "k"]
=============================================================================
