------------------------- MODULE MCResultDelivery --------------------------
EXTENDS ResultDelivery

OneTask == {1}
=============================================================================
