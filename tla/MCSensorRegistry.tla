-------------------------- MODULE MCSensorRegistry --------------------------
(* Small buses for SensorRegistry. *)
EXTENDS SensorRegistry, TLC

\* Two devices that differ in their first bit.
TwoRoms == {<<0>>, <<1>>}

\* Three devices that fork inside the one branch of a fork: with all of them on
\* the bus the third row of a search repeats the first.
BranchRoms == {<<0, 0>>, <<1, 0>>, <<1, 1>>}

\* No definition tells one reading from another.
ReadingSymmetry == Permutations(Readings)
=============================================================================
