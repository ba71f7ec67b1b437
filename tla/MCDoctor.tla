------------------------------ MODULE MCDoctor ------------------------------
(* 2023 is left out of the ranges, so that there is a gap between them;    *)
(* the numbers are both ends of the build lines and both sides of the      *)
(* cutoff.                                                                 *)
EXTENDS Doctor

MCNumber == {0, 1, 9, 10, 20, 22, 23, 26, 99, 100, 999, 2020, 2021, 2022, 2023, 2026, 2027}
YearRange(low, high) == [min |-> <<low, 0>>, max |-> <<high, 99>>]
MCRanges == {YearRange(2022, 2022), YearRange(2026, 2026)}
MCBreaks == {<<2022, 0>>, <<2023, 9>>, <<22, 0>>, <<9>>}
MCRequired == {"find_entity_by_persistent_id", "commit_operation"}
MCHostVersions == {<<26, 0, 999>>, <<26, 99, 1>>, <<2022, 99, 0>>} \cup [1 .. 1 -> MCNumber] \cup [1 .. 2 -> MCNumber]
MCHostApis == {MCRequired, {"commit_operation"}}
Installed(t, y) == [native |-> t, year |-> y]
MCFound ==
  {<<>>, <<Installed({}, 2026)>>, <<Installed({<<22, 1>>}, 2022)>>,
   <<Installed({}, 0), Installed({<<20, 0>>}, 2020)>>, <<Installed({<<>>}, 2021)>>, <<Installed({<<9, 1>>}, 2022)>>}

=============================================================================
