-------------------------- MODULE MCLocalDiscovery --------------------------
(***************************************************************************)
(* LocalDiscovery for TLC.  Device d1 has set x, d2 set y; the GUID of d3  *)
(* has 7 digits in pmt.xml, its guid file cannot be parsed.  The           *)
(* aggregator XML of x may be unreadable.                                  *)
(***************************************************************************)
EXTENDS LocalDiscovery, TLC

CONSTANTS x, y, f1, f2, d1, d2, d3

MCSets == {x, y}
MCBasedir == [s \in MCSets |-> <<"dir", s>>]
MCWide == {8, 9}
MCText(num) == <<num, IF num \in MCWide THEN "padded" ELSE "short">>
MCMapping(num, set) == [guid |-> MCText(num), size |-> 16, valid |-> TRUE, set |-> set]
MCMappings == << MCMapping(8, x), MCMapping(9, y), MCMapping(7, y) >>
MCFragile == {<<x, "aggregator">>}
MCFolders == <<f1, f2>>
MCDevices == {d1, d2, d3}
MCIdentity == (d1 :> [num |-> 8, size |-> 16]) @@ (d2 :> [num |-> 9, size |-> 16])
              @@ (d3 :> [num |-> 7, size |-> 16])
MCMalformed == {<<d3, "guid">>}
MCHome == (f1 :> d1) @@ (f2 :> d2)
\* Every folder is stable, and the second has the device of 7 digits.
MCHomeShort == (f1 :> d1) @@ (f2 :> d3)
=============================================================================
