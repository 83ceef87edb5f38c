------------------------- MODULE MCDispatcherAirtime -------------------------
EXTENDS DispatcherAirtime

CONSTANTS
  MaxOnAir,         \* bound on the air time spent,
  MaxCredited       \* and on the budget granted, in the states explored


MCNext == AirtimeNext /\ on_air' <= MaxOnAir /\ credited' <= MaxCredited

MCSpec == AirtimeInit /\ [][MCNext]_ledgerVars
=============================================================================
