--------------------------- MODULE MCClientSession --------------------------
EXTENDS ClientSession

MCWarnTicks == 2
MCModes == {"MASTER", "NODE"}
=============================================================================
