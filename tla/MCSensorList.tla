---------------------------- MODULE MCSensorList ----------------------------
(* A small bus for SensorListRefinement: two devices that differ in a bit. *)
EXTENDS SensorListRefinement

TwoRoms == {<<0>>, <<1>>}
=============================================================================
