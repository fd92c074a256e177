-------------------------------- MODULE MCDevice --------------------------------
EXTENDS Device
TwoProcs == <<"card", "updated">>
=============================================================================
