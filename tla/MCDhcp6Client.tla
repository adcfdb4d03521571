--------------------------- MODULE MCDhcp6Client ---------------------------
(***************************************************************************)
(* Two things a server can say, refresh times under and over the floor,    *)
(* one answer under way at a time besides the one it overtakes.            *)
(***************************************************************************)
EXTENDS Dhcp6Client

MCRefreshTimes == {0, 4}
=============================================================================
