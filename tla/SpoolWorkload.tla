--------------------------- MODULE SpoolWorkload ---------------------------
(***************************************************************************)
(* The spool on its own, driven by every sequence of calls an owner can    *)
(* make with any messages: what UplinkSpool promises whoever calls it.     *)
(* Unbounded, for the proofs; TLC checks the same properties of the spool  *)
(* where its real owner drives it, in UplinkModel.                         *)
(***************************************************************************)
EXTENDS UplinkSpool

SpoolNext ==
    \/ Open
    \/ \E m \in Messages : AppendRow(m)
    \/ \E lastId \in Int : ReleaseThrough(lastId)
    \/ Clear
    \/ CloseCleanly
    \/ LosePower

SpoolSpec == SpoolInit /\ [][SpoolNext]_spoolVars
=============================================================================
