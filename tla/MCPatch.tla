-------------------------------- MODULE MCPatch --------------------------------
(***************************************************************************)
(* Instances of PatchExchange for TLC: short contents over lines that are  *)
(* blank, plain, read as a header when deleted or are backticks, and       *)
(* longer ones of blank and plain lines only; and two contents with two    *)
(* hunks between them, of which the first makes the second ambiguous.      *)
(***************************************************************************)
EXTENDS PatchExchange

MCSize(line) == IF line = "" THEN 0 ELSE 1
MCTicks(line) == IF line = "ticks" THEN 3 ELSE 0
MCDashed(line) == line = "-- x"

MCTwoHunks ==
  {<<"p", "q", "r", "s", "x", "y", "z">>, <<"p", "x", "y", "z", "r", "s", "x", "z">>}
MCContent ==
  MCTwoHunks \cup ((BoundedSeq({"", "a", "-- x", "ticks"}, 2) \cup BoundedSeq({"", "a"}, 3)) \ {<<>>})
=============================================================================
