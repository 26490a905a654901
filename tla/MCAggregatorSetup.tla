------------------------- MODULE MCAggregatorSetup -------------------------
(***************************************************************************)
(* AggregatorSetup for TLC, as Redfish discovery uses it.  pmt.xml lists   *)
(* an invalid entry, a GUID of 8 digits, the same entry again with another *)
(* set, and a GUID of 7 digits (28 of the 63 entries of the repository's   *)
(* pmt.xml have one).  t1 is either device from answer to answer, t2 has   *)
(* the second set and sometimes a size that is not listed.                 *)
(***************************************************************************)
EXTENDS AggregatorSetup, TLC

CONSTANTS x, y, t1, t2

MCSets == {x, y}
MCBasedir == [s \in MCSets |-> <<"dir", s>>]
MCWide == {8}
MCMapping(num, spelling, valid, set) ==
  [guid |-> Text(num, spelling), size |-> 16, valid |-> valid, set |-> set]
MCMappings ==
  << MCMapping(8, "short", FALSE, y),
     MCMapping(8, "short", TRUE, x),
     MCMapping(8, "short", TRUE, y),
     MCMapping(7, "short", TRUE, y) >>
MCNames == {t1, t2}
MCKey(num, size) == <<Text(num, "short"), size>>
MCReports ==
  (t1 :> {MCKey(8, 16), MCKey(7, 16)}) @@ (t2 :> {MCKey(7, 16), MCKey(7, 32)})
MCFragile == {<<x, "aggregator">>, <<y, "interface">>}
=============================================================================
