------------------------------ MODULE MCBleGamepad ------------------------------
EXTENDS BleGamepad

CONSTANTS held, rest

MCReports   == {held, rest}
MCLadder    == <<6, 8>>
MCIntervals == {12}
================================================================================
