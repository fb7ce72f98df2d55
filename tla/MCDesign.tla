------------------------------- MODULE MCDesign -------------------------------
(***************************************************************************)
(* Small designs for the three modules about text: netlists to edit, decks *)
(* whose parameters are resolved, and specifications to load.              *)
(***************************************************************************)
EXTENDS NetlistEdit, ParamScope, SpecLoading

Criterion(name, measurement, operator, threshold) ==
  [name |-> name, measurement |-> measurement, operator |-> operator, threshold |-> threshold]

(* Two decks that share AMP and BUF and differ at the top: a parameter     *)
(* that is written twice, a comment before a continuation, a subcircuit    *)
(* inside another with the name of a third, and an M2 that only one deck   *)
(* has at the top.                                                         *)
Token(val) == [key |-> None, val |-> val]
Is(key, val) == [key |-> key, val |-> val]
Line(kind, words) == [kind |-> kind, words |-> words]
AmpAndBuffer ==
  <<Line("open", <<Token("AMP")>>),
    Line("device", <<Token("M1"), Token("d"), Token("nch"), Is("W", "10"), Is("W", "20")>>),
    Line("comment", <<>>),
    Line("more", <<Is("L", "1")>>),
    Line("device", <<Token("R1"), Token("a"), Token("10")>>),
    Line("close", <<>>),
    Line("directive", <<Token(".end")>>),
    Line("open", <<Token("BUF")>>),
    Line("open", <<Token("AMP")>>),
    Line("device", <<Token("M1"), Token("d"), Token("nch"), Is("W", "10"), Is("m", "1")>>),
    Line("close", <<>>),
    Line("device", <<Token("M2"), Token("g")>>),
    Line("more", <<Token("nch"), Is("W", "10")>>),
    Line("device", <<Token("I1"), Token("b"), Token("1")>>),
    Line("close", <<>>)>>
TwoBenches ==
  [ac |-> <<Line("device", <<Token("V1"), Token("in"), Token("1")>>),
            Line("device", <<Token("C1"), Token("out"), Token("1")>>)>> \o AmpAndBuffer,
   tran |-> <<Line("device", <<Token("V1"), Token("in"), Token("2")>>),
              Line("device", <<Token("M2"), Token("out"), Token("nch"), Is("W", "1")>>)>> \o AmpAndBuffer]
Blank == [ac |-> <<>>]
Benches == {TwoBenches, Blank}
Change(scope, refdes, param, new_value) ==
  [scope |-> scope, refdes |-> refdes, param |-> param, new_value |-> new_value]
Changes ==
  {Change(<<"AMP">>, "M1", "W", "30"), Change(<<"AMP">>, "M1", "m", "2"),
   Change(<<>>, "M1", "W", "40"), Change(<<>>, "M2", "L", "2"),
   Change(<<"BUF", "AMP">>, "M1", "W", "60"), Change(<<>>, "R1", "value", "20"),
   Change(<<"BUF">>, "I1", "value", "2"), Change(<<>>, "V1", "value", "20"),
   Change(<<>>, "C1", "W", "20"), Change(<<>>, "M2", "value", "20")}
Bodies ==
  {<<Line("device", <<Token("M1"), Token("d"), Token("nch"), Is("W", "5")>>)>>,
   <<Line("open", <<Token("IN")>>), Line("device", <<Token("M2"), Token("d"), Token("pch"), Is("W", "5")>>),
     Line("close", <<>>), Line("device", <<Token("M3"), Token("d"), Token("nch"), Is("W", "5")>>)>>}
FirstLetter ==
  [M1 |-> "M", M2 |-> "M", M3 |-> "M", R1 |-> "R", I1 |-> "I", V1 |-> "V", C1 |-> "C"]

(* A definition that is used directly and through another one, and one     *)
(* that hides another of the same name inside a third.                     *)
Ref(name) == [factor |-> 1, names |-> <<name>>]
Device(refdes, letter, model, at, params) ==
  [refdes |-> refdes, letter |-> letter, model |-> model, at |-> at, params |-> params]
Defines(devices) == [defaults |-> <<>>, body |-> <<>>, devices |-> devices]
Leaf ==
  Defines(<<Device("M1", "M", "nch", None, [w |-> Ref("w"), m |-> Ref("k")]),
            Device("XP", "X", "nfet", None, [w |-> [factor |-> 2, names |-> <<"w">>]]),
            Device("R1", "R", None, Ref("k"), <<>>)>>)
Wrap == Defines(<<Device("XL", "X", "LEAF", None, [w |-> Ref("w")]),
                  Device("M2", "M", "nch", None, [w |-> Ref("w")])>>)
Box == Defines(<<Device("XW", "X", "WRAP", None, [k |-> Ref("w")])>>)
Flat ==
  [global |-> [g |-> Number(5)],
   top |-> <<Device("X1", "X", "LEAF", None, [w |-> Number(3)]),
             Device("X2", "X", "WRAP", None, <<>>)>>,
   defs |-> (<<"LEAF">> :> Leaf)
              @@ (<<"WRAP">> :> [Wrap EXCEPT !.devices[1].params = [w |-> Ref("g")]])]
Deep ==
  [global |-> [g |-> Number(5)],
   top |-> <<Device("X1", "X", "WRAP", None, [w |-> Number(2)]),
             Device("X3", "X", "BOX", None, [w |-> Number(3)])>>,
   defs |-> (<<"LEAF">> :> Leaf) @@ (<<"WRAP">> :> Wrap) @@ (<<"BOX">> :> Box)
              @@ (<<"WRAP", "LEAF">> :> [Leaf EXCEPT !.devices = SubSeq(@, 1, 1)])]
Empty == [global |-> <<>>, top |-> <<>>, defs |-> <<>>]
Hierarchies == {Flat, Deep, Empty}
Expressions == {Number(2), Number(3), Ref("w"), Ref("g")}
ModelClasses == [nch |-> "M", nfet |-> "M", LEAF |-> None, WRAP |-> None, BOX |-> None]

(* Testbenches on a file and of fragments, corners of every form, and      *)
(* declarations that are refused for each of the reasons.                  *)
Fragment(slot, file, tunable) == [slot |-> slot, file |-> file, tunable |-> tunable]
Circuit == Fragment(FALSE, "circuit", TRUE)
ModelSlot == Fragment(TRUE, None, FALSE)
Testbench(name, netlist, compose, criteria) ==
  [name |-> name, netlist |-> netlist, compose |-> compose, criteria |-> criteria]
GainBound == Criterion("gain", "g", ">=", 60)
PowerBound == Criterion("power", "p", "<=", 100)
TestbenchDecls ==
  {Testbench("ac", "ac.cir", None, <<GainBound>>),
   Testbench("ac", None, <<ModelSlot, Circuit>>, <<GainBound>>),
   Testbench("dc", "dc.cir", None, <<PowerBound>>),
   Testbench("dc", None, <<Circuit>>, <<PowerBound>>),
   Testbench("dc", None, <<ModelSlot, Circuit>>, <<PowerBound>>),
   Testbench("dc", None, <<ModelSlot, ModelSlot, Circuit>>, <<PowerBound>>),
   Testbench("dc", "dc.cir", None, <<Criterion("power", "g", "<=", 100)>>),
   Testbench("dc", "dc.cir", None, <<Criterion("power", "p", "==", 100)>>),
   Testbench("dc", "dc.cir", <<Circuit>>, <<PowerBound>>),
   Testbench("dc", None, None, <<PowerBound>>)}
CornerEntry(id, include, axes) == [id |-> id, include |-> include, axes |-> axes]
Labelled(id) == CornerEntry(<<id>>, id, <<None, None, None>>)
Point(p, v, t) == CornerEntry(None, None, <<p, v, t>>)
Pvt(corners, axes, nominal) == [corners |-> corners, axes |-> axes, nominal |-> nominal]
Unset == <<None, None, None>>
PvtDecls ==
  {Pvt(None, <<<<"tt", "ss">>, <<18>>, <<27>>>>, None),
   Pvt(None, <<<<"tt">>, <<18, 18>>, <<27, 85, 125>>>>, None),
   Pvt(None, <<<<"tt">>, <<18>>, None>>, None),
   Pvt(<<Point("tt", 18, 27), Point("ss", 16, 85)>>, Unset, <<"ss", 16, 85>>),
   Pvt(<<Point("tt", 18, 27), Labelled("sig")>>, Unset, <<"sig">>),
   Pvt(<<CornerEntry(<<"tt", 18, 27>>, "sig", Unset), CornerEntry(<<"sig">>, "sig", Unset)>>, Unset,
       <<"sig">>),
   Pvt(<<Labelled("sig"), Labelled("ssig")>>, Unset, <<"sig">>),
   Pvt(<<Labelled("sig"), Labelled("ssig")>>, Unset, None),
   Pvt(<<Labelled("sig")>>, Unset, <<"ssig">>),
   Pvt(<<Labelled("(deck)")>>, Unset, <<"(deck)">>),
   Pvt(<<Labelled("sig"), Labelled("sig")>>, Unset, <<"sig">>),
   Pvt(<<CornerEntry(<<"sig">>, None, Unset)>>, Unset, None),
   Pvt(<<Point("tt", 18, 27), CornerEntry(<<"tt", 18, 27>>, "sig", Unset)>>, Unset, None),
   Pvt(<<>>, Unset, None)}
ReductionDecls ==
  {[retry_budget |-> 1, coverage |-> [epsilon |-> 10, tau |-> 90]],
   [retry_budget |-> 0, coverage |-> None], [retry_budget |-> -1, coverage |-> None],
   [retry_budget |-> 1, coverage |-> [epsilon |-> 10, tau |-> 0]]}
=============================================================================
