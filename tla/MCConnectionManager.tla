------------------------ MODULE MCConnectionManager ------------------------
(* ConnectionManager on a radio with one band and with both.  The commands that *)
(* cwmpd writes differ in something other than the SSID, such as the channel.   *)
EXTENDS ConnectionManager

OneBand == <<"5">>
BothBands == <<"5", "2.4">>
SameSsid == [c \in Command |-> "home"]
=============================================================================
