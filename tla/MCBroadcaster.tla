---------------------------- MODULE MCBroadcaster ----------------------------
(* Two subscribers with channels of two items, and enough items to fill a  *)
(* channel, lose one, and deliver another one afterwards.                  *)
EXTENDS Broadcaster
=============================================================================
