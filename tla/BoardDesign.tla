---------------------------- MODULE BoardDesign ----------------------------
(***************************************************************************)
(* The tables of kicad/gen.py and what it does to them before it writes    *)
(* anything: the rev-B pivot and the ERC.  A design is a pair of tables,   *)
(* COMP and NETS.  A value, a pin's name, the text of a footprint is left  *)
(* out; whether a part has a footprint stays.                              *)
(*                                                                         *)
(* The parts are the slice of COMP that apply_rev_b touches, with a load   *)
(* (U1) that keeps the +5V rail a net, and with one pin standing for those *)
(* that share its fate: U4 for the LDO and its capacitors Cli and Clo, pin *)
(* 10 of U2 for the mode pins 10 and 11, pin 2 of J4 for both its grounds. *)
(*                                                                         *)
(* An operator named X_Bug... is the mutated form of X.                    *)
(***************************************************************************)
EXTENDS Integers, Sequences, FiniteSets, Functions

Part(pins) == [fp |-> TRUE, pins |-> pins]

COMP == [J3 |-> Part({2, 6, 7}),       \* Pi header: 5V, GND, GPIO4
         U1 |-> Part({4, 8}),          \* op-amp: V-, V+
         U2 |-> Part({4, 6, 10}),      \* ADC: VDD, SCKI, MD0
         U4 |-> Part({1, 2, 5})]       \* LDO: VIN, GND, VOUT

Rails == {"+5V", "GND", "+3V3"}
NETS == [net \in Rails \union {"MCLK"} |->
  CASE net = "+5V"  -> << <<"J3", 2>>, <<"U1", 8>>, <<"U4", 1>> >>
    [] net = "GND"  -> << <<"J3", 6>>, <<"U1", 4>>, <<"U4", 2>>, <<"U2", 10>> >>
    [] net = "+3V3" -> << <<"U4", 5>>, <<"U2", 4>> >>
    [] net = "MCLK" -> << <<"J3", 7>>, <<"U2", 6>> >>]

Base == [comp |-> COMP, nets |-> NETS]

LDO == "U4"

Revs == {"A", "B"}

-----------------------------------------------------------------------------
(* apply_rev_b *)

\* The table f with the entries of g put over its own.
Put(f, g) == [x \in DOMAIN f \union DOMAIN g |-> IF x \in DOMAIN g THEN g[x] ELSE f[x]]

\* drop(net, *nodes): the nodes kept, in their order.
Drop(nodes, out) ==
  LET kept == {i \in DOMAIN nodes : nodes[i] \notin out}
      Rank(i) == Cardinality({j \in kept : j <= i})
  IN  [k \in 1 .. Cardinality(kept) |-> nodes[CHOOSE i \in kept : Rank(i) = k]]

\* A lookup or a del of what is not there is a KeyError, and gen.py ends
\* before main.
PivotRaises(d) ==
  \/ {"J3", LDO} \ DOMAIN d.comp # {}
  \/ Rails \ DOMAIN d.nets # {}
  \/ 7 \notin d.comp["J3"].pins

NewParts == [J4 |-> Part({1, 2}), R_mclk |-> Part({1, 2})]

HeaderPins(pins) == (pins \union {1}) \ {7}

PivotComp(comp) ==
  LET kept == Restrict(comp, DOMAIN comp \ {LDO})
  IN  [Put(kept, NewParts) EXCEPT !["J3"].pins = HeaderPins(@)]

MD0 == <<"U2", 10>>

PivotGround(nodes) == Drop(nodes, {<<LDO, 2>>, MD0}) \o << <<"J4", 2>> >>

PivotNets(nets) ==
  LET moved == [net \in {"+5V", "GND", "+3V3", "MCLK", "MCLK_SRC"} |->
        CASE net = "+5V"  -> Drop(nets["+5V"], {<<LDO, 1>>})
          [] net = "GND"  -> PivotGround(nets["GND"])
          [] net = "+3V3" -> << <<"J3", 1>> >> \o Drop(nets["+3V3"], {<<LDO, 5>>})
                             \o << MD0 >>
          [] net = "MCLK" -> << <<"R_mclk", 2>>, <<"U2", 6>> >>
          [] net = "MCLK_SRC" -> << <<"J4", 1>>, <<"R_mclk", 1>> >>]
  IN  Put(nets, moved)

\* What gen.py's tables hold once it is imported for revision r.
Raises(d, r) == r = "B" /\ PivotRaises(d)
Tables(d, r) ==
  IF r = "A" THEN d ELSE [comp |-> PivotComp(d.comp), nets |-> PivotNets(d.nets)]

-----------------------------------------------------------------------------
(* erc *)

\* A place in NETS, <<net, i>>, and the node listed there.
Places(nets) == UNION {{net} \X DOMAIN nets[net] : net \in DOMAIN nets}
NodeAt(nets, place) == nets[place[1]][place[2]]
Nodes(nets) == {NodeAt(nets, p) : p \in Places(nets)}
PinsOf(comp) == UNION {{r} \X comp[r].pins : r \in DOMAIN comp}

HaveFootprints(comp) == \A r \in DOMAIN comp : comp[r].fp

RefsKnown_BugOff(d) == TRUE
RefsKnown(d) == \A n \in Nodes(d.nets) : n[1] \in DOMAIN d.comp

PinsKnown_BugOff(d) == TRUE
PinsKnown(d) ==
  \A n \in Nodes(d.nets) : n[1] \in DOMAIN d.comp => n[2] \in d.comp[n[1]].pins

\* "seen" lists the nets of a pin once for every place it is found at, twice
\* for a net that lists it twice.
OneNet_BugNetsOnly(nets) ==
  \A p, q \in Places(nets) : NodeAt(nets, p) = NodeAt(nets, q) => p[1] = q[1]
OneNet(nets) ==
  \A p, q \in Places(nets) : NodeAt(nets, p) = NodeAt(nets, q) => p = q

AllConnected(d) == PinsOf(d.comp) \subseteq Nodes(d.nets)

\* No error; a net of less than two nodes is only a warning.
ErcClean(d) ==
  /\ HaveFootprints(d.comp)
  /\ RefsKnown(d) /\ PinsKnown(d) /\ AllConnected(d) /\ OneNet(d.nets)
=============================================================================
