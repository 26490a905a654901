------------------------- MODULE MCConversionBatch -------------------------
(***************************************************************************)
(* ConversionBatch for TLC: every configuration of up to two elements,     *)
(* which may share an output.                                              *)
(***************************************************************************)
EXTENDS ConversionBatch, TLC

MCElement(missing, num, quoted, yaml, sensor, xml, out) ==
  [missing |-> missing, num |-> num, quoted |-> quoted, yaml |-> yaml,
   sensor |-> sensor, xml |-> xml, out |-> out]

MCVersions == {<<0, FALSE>>, <<1, FALSE>>, <<2, FALSE>>, <<0, TRUE>>, <<None, FALSE>>}
MCYamls == {"flat", "nested", "badvalue", "notype"}
MCXmls == {"good", "dupname", "duplicate", "badnumber", "badformula"}
MCElements ==
  {MCElement(FALSE, v[1], v[2], y, s, "good", o) :
     v \in MCVersions, y \in MCYamls, s \in BOOLEAN, o \in {"p", "q"}}
  \cup {MCElement(FALSE, v[1], v[2], "nested", TRUE, x, "p") :
          v \in MCVersions, x \in MCXmls}
  \cup {MCElement(TRUE, 0, FALSE, "flat", TRUE, "good", "p")}
MCConfigs == {<<>>} \cup {<<e>> : e \in MCElements} \cup (MCElements \X MCElements)
=============================================================================
