--------------------------- MODULE MCSampleDecode ---------------------------
(***************************************************************************)
(* SampleDecode for TLC: bytes of 2 bits, containers of 2 bytes, regions   *)
(* of 2 to 4 bytes (one container may be missing or cut).  Group 1 may     *)
(* come before group 0, one sample may fill the container or end behind    *)
(* it, and two groups may repeat a sample ID, two metrics a name.  The     *)
(* formula of metric n fails, that of u is not defined.                    *)
(***************************************************************************)
EXTENDS SampleDecode, TLC

MCRegions == UNION {[1..n -> Byte] : n \in 2..3}
               \cup {<<a, b, c, d>> : a, d \in {{0}, {0, 1}}, b, c \in Byte}

MCSample(sid, lsb, msb) == [sid |-> sid, lsb |-> lsb, msb |-> msb]
MCGroup(id, list) == [id |-> id, samples |-> list]
MCFull == MCGroup(0, <<MCSample("a", 0, 3)>>)
MCHigh == MCGroup(1, <<MCSample("b", 2, 4), MCSample("c", 1, 2)>>)
MCLow == MCGroup(0, <<MCSample("a", 0, 0), MCSample("d", 1, 3)>>)
MCAggregators ==
  { <<MCFull, MCHigh>>, <<MCHigh, MCLow>>,
    <<MCLow, MCHigh, MCGroup(1, <<MCSample("d", 1, 1), MCSample("d", 0, 2)>>)>> }

MCMetric(name, counter, reserved, inputs) ==
  [group |-> "g", name |-> name, counter |-> counter, reserved |-> reserved,
   formula |-> CASE name = "n" -> "broken" [] name = "u" -> "unknown" [] OTHER -> "sum",
   inputs |-> inputs]
MCInterfaces ==
  { <<MCMetric("m", FALSE, FALSE, {"a"}), MCMetric("n", FALSE, FALSE, {"a", "b"}),
      MCMetric("r", FALSE, TRUE, {"a"})>>,
    <<MCMetric("k", TRUE, FALSE, {"c"}), MCMetric("k", TRUE, FALSE, {"d"}),
      MCMetric("k", FALSE, FALSE, {"missing"}), MCMetric("m", FALSE, FALSE, {"a", "b"})>>,
    <<MCMetric("m", FALSE, FALSE, {"a"}), MCMetric("m", FALSE, FALSE, {"b"}),
      MCMetric("u", FALSE, FALSE, {"c"}), MCMetric("k", TRUE, FALSE, {"c"})>> }

MCAll == {"a", "b", "c", "d", "k", "m", "n", "r", "u"}
\* None; all; metric m with the samples a and b; metric k without its samples.
MCAllowlists == { {}, {MCAll}, {{"m"}, {"a", "b"}}, {{"k", "n"}} }
=============================================================================
