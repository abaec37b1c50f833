-------------------------------- MODULE MCMapper --------------------------------
EXTENDS Mapper

\* At rest, slowly, briskly to either side, and more than the stick can show.
MCSpeeds == {-400, -136, 0, 24, 136}

\* 63 counts in each of 125 reports a second: the 7900 counts a second of brisk movement.
Brisk == {0, 63}
================================================================================
