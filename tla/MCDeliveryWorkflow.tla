------------------------- MODULE MCDeliveryWorkflow -------------------------
EXTENDS DeliveryWorkflow

OneDocument  == <<"spec">>
TwoDocuments == <<"spec", "plan">>
=============================================================================
