--------------------------- MODULE MCPushDelivery -----------------------------
EXTENDS PushDelivery
==============================================================================
