-------------------------------- MODULE MCWc --------------------------------
EXTENDS Wc

F == <<"f">>
D == <<"d">>
DG == <<"d", "g">>
MCFiles == {F, DG}
MCSubDirs == {D}
MCStarts == {{F, D, DG}, {F}}
=============================================================================
