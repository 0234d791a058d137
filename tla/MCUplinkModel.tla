--------------------------- MODULE MCUplinkModel ---------------------------
EXTENDS UplinkModel
=============================================================================
