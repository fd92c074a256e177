-------------------------------- MODULE MCOnroad --------------------------------
EXTENDS Onroad
OnlyCard == <<"card">>
=============================================================================
