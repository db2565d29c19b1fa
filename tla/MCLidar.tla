------------------------------- MODULE MCLidar -------------------------------
(***************************************************************************)
(* A byte of five values is enough for a header, bytes that are not one,   *)
(* and a checksum that wraps.  Two measurements: the frame of `Far' holds  *)
(* a header only where it should, the distance of `Near' is a header byte. *)
(***************************************************************************)
EXTENDS Lidar

Far  == <<1, 2, 0, 1, 0, 0>>
Near == <<4, 0, 1, 0, 0, 0>>
MCMeasurements == {Far, Near}
=============================================================================
