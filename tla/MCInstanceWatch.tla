--------------------------- MODULE MCInstanceWatch ---------------------------
(* Instances of InstanceWatch with room in notifyChan for everything that  *)
(* arrives, and with less room than that.                                  *)
EXTENDS InstanceWatch
=============================================================================
