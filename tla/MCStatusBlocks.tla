---------------------------- MODULE MCStatusBlocks ----------------------------
(***************************************************************************)
(* The layouts a hub may send, for TLC: full blocks cut anywhere, legacy   *)
(* 92-byte blocks, and the full blocks that still claim 92 bytes of        *)
(* tests/fixtures/anon_recording.json, cut between blocks.                 *)
(***************************************************************************)
EXTENDS StatusBlocks

FullBlocks     == [length |-> 108, claim |-> 108, cuts |-> {0, 1, 50, 99, 107}]
LegacyBlocks   == [length |-> 92, claim |-> 92, cuts |-> {0, 1, 50}]
RecordedBlocks == [length |-> 108, claim |-> 92, cuts |-> {0}]

AllLayouts      == {FullBlocks, LegacyBlocks, RecordedBlocks}
RecordedLayout  == {RecordedBlocks}
===============================================================================
