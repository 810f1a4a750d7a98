----------------------------- MODULE BoardCheck -----------------------------
(***************************************************************************)
(* The board side of kicad/: a board imported from the netlist, worked on  *)
(* by hand in KiCad and saved, perhaps not to its end; render_pcb.py's     *)
(* reader, check_pcb.py on top of it, and the ratsnest render_pcb.py draws.*)
(*                                                                         *)
(* The file is a sequence of lines and a line a sequence of tokens, what   *)
(* parse()'s regular expression makes of the text.  KiCad is not in the    *)
(* repository: Imported and the hand edits are what the scripts and the    *)
(* documents expect of it.  Sizes, rotation and the drawing but for its    *)
(* lines are left out; a pad lies at its footprint's column and its own    *)
(* row.                                                                    *)
(*                                                                         *)
(* An operator named X_Bug... is the mutated form of X.                    *)
(***************************************************************************)
EXTENDS BoardDesign, SequencesExt

CONSTANT MaxTouches    \* bound of the model: edits of the board by hand

ASSUME BoardAssumption == MaxTouches \in Nat

VARIABLES
  design,   \* gen.py's tables
  rev,      \* the revision the board was imported for
  board,    \* in KiCad: its footprints, [ref, pads]; a pad is [num, net]
  touches,  \* history: hand edits made
  text,     \* the .kicad_pcb
  pc,       \* "kicad", "saved", "crashed", "nets", "chain", "done"
  fps,      \* what load() returned
  queue,    \* nets still to draw
  pads, rem, chain    \* the pads of the net at hand, those not drawn to yet,
                      \* and those drawn to, in order; a pad is <<footprint, pad>>

renderVars == <<fps, queue, pads, rem, chain>>
vars == <<design, rev, board, touches, text, pc, renderVars>>

Str(pin) == <<"1", "2", "3", "4", "5", "6", "7", "8", "9", "10">>[pin]

NoNet == ""

\* FoldLeft, in a form of which TLC evaluates each step once.
Run(Step(_, _), start, items) ==
  LET after[k \in 0 .. Len(items)] ==
        IF k = 0 THEN start
        ELSE CHOOSE s \in {Step(prev, items[k]) : prev \in {after[k - 1]}} : TRUE
  IN  after[Len(items)]

\* [x for x in items if Test(x)]
Select(items, Test(_)) ==
  Run(LAMBDA kept, x : IF Test(x) THEN Append(kept, x) ELSE kept, <<>>, items)

\* sorted(), on a set of references, net names or pins
Sorted(S, order) == Select(order, LAMBDA x : x \in S)
RefOrder == <<"J3", "J4", "R_mclk", "U1", "U2", "U4">>
NetOrder == <<"+3V3", "+5V", "GND", "MCLK", "MCLK_SRC", "SPARE">>
PinOrder == <<1, 2, 3, 4, 5, 6, 7, 8, 9, 10>>

-----------------------------------------------------------------------------
(* KiCad *)

\* Update PCB from netlist, into an empty board, every footprint resolving.  An
\* import that silently drops a part leaves what DeleteFootprint leaves.
NetOf(t, n) ==
  IF n \in Nodes(t.nets) THEN CHOOSE net \in DOMAIN t.nets : n \in Range(t.nets[net]) ELSE NoNet
Footprint(t, r) ==
  LET pins == Sorted(t.comp[r].pins, PinOrder)
  IN  [ref |-> r,
       pads |-> [i \in DOMAIN pins |-> [num |-> Str(pins[i]), net |-> NetOf(t, <<r, pins[i]>>)]]]
Imported(t) ==
  LET refs == Sorted(DOMAIN t.comp, RefOrder) IN [i \in DOMAIN refs |-> Footprint(t, refs[i])]

\* The file KiCad saves: (net "NAME") since version 10, (net CODE "NAME") before.
PadLine(pad, old) ==
  <<"(", "pad", pad.num>>
  \o (IF pad.net = NoNet THEN <<>>
      ELSE <<"(", "net">> \o (IF old THEN <<"7">> ELSE <<>>) \o <<pad.net, ")">>)
  \o <<")">>
FootprintLines(f, old) ==
  << <<"(", "footprint", "Lib", "(", "property", "Reference", f.ref, ")">> >>
  \o [i \in DOMAIN f.pads |-> PadLine(f.pads[i], old)]
  \o << <<")">> >>
BoardText(b, old) ==
  << <<"(", "kicad_pcb">> >>
  \o FlattenSeq([i \in DOMAIN b |-> FootprintLines(b[i], old)])
  \o << <<")">> >>

\* What is left of a file whose writing stops within line k.
CutAt(lines, k) == {Append(SubSeq(lines, 1, k - 1), SubSeq(lines[k], 1, j)) :
                      j \in 0 .. Len(lines[k]) - 1}

-----------------------------------------------------------------------------
(* render_pcb.py: parse, the accessors of a parsed list, load *)

Atom(t) == [atom |-> t]
List(items) == [list |-> items]
IsAtom(x) == "atom" \in DOMAIN x

ParseToken(s, t) ==
  CASE s.err -> s
    [] ~s.err /\ t = "(" -> [s EXCEPT !.stack = Append(@, s.cur), !.cur = <<>>]
    [] ~s.err /\ t = ")" /\ s.stack = <<>> -> [s EXCEPT !.err = TRUE]
    [] ~s.err /\ t = ")" /\ s.stack # <<>> ->
         [s EXCEPT !.stack = Front(@), !.cur = Append(Last(s.stack), List(s.cur))]
    [] OTHER -> [s EXCEPT !.cur = Append(@, Atom(t))]

ParseLine(s, line) == Run(ParseToken, s, line)
Parse(lines) == Run(ParseLine, [stack |-> <<>>, cur |-> <<>>, err |-> FALSE], lines)

\* parse() returns the list it is in when the tokens end, closed or not.
Result_BugOutermost(s) ==
  IF s.stack = <<>> THEN s.cur
  ELSE FoldRight(LAMBDA open, inner : Append(open, List(inner)), s.stack, s.cur)
Result(s) == s.cur

IsKid(x, name) == ~IsAtom(x) /\ x.list # <<>> /\ x.list[1] = Atom(name)
Kids(items, name) == Select(items, LAMBDA x : IsKid(x, name))

Prop(items, key) ==
  LET found == Select(Kids(items, "property"),
                         LAMBDA p : Len(p.list) > 2 /\ p.list[2] = Atom(key))
  IN  IF found = <<>> THEN "?" ELSE found[1].list[3].atom

PadNet_BugFirst(netn) == netn[2].atom
PadNet(netn) == IF Len(netn) > 2 THEN netn[3].atom ELSE netn[2].atom
LoadPad(items) ==
  LET netn == Kids(items, "net")
  IN  [num |-> items[2].atom, net |-> IF netn = <<>> THEN NoNet ELSE PadNet(netn[1].list)]
LoadFootprint(items) ==
  LET pds == Kids(items, "pad")
  IN  [ref |-> Prop(items, "Reference"), pads |-> [i \in DOMAIN pds |-> LoadPad(pds[i].list)]]

\* kids() of a string finds no list in it.
Footprints(root) ==
  LET found == IF IsAtom(root) THEN <<>> ELSE Kids(root.list, "footprint")
  IN  [i \in DOMAIN found |-> LoadFootprint(found[i].list)]

-----------------------------------------------------------------------------
(* check_pcb.py *)

GenNets(t) ==
  [net \in DOMAIN t.nets |-> {<<n[1], Str(n[2])>> : n \in Range(t.nets[net])}]

PadsOf(b) == UNION {{i} \X DOMAIN b[i].pads : i \in DOMAIN b}
Pads == PadsOf(fps)
PadAt(p) == fps[p[1]].pads[p[2]]
PadsOn(net) == {p \in Pads : PadAt(p).net = net}

BoardRefs == {fps[i].ref : i \in DOMAIN fps}
BoardNets ==
  [net \in {PadAt(p).net : p \in Pads} \ {NoNet} |->
     {<<fps[p[1]].ref, PadAt(p).num>> : p \in PadsOn(net)}]

SameRefs(t) == BoardRefs = DOMAIN t.comp

SameNodes_BugExtraOnly(t) ==
  \A net \in DOMAIN t.nets : BoardNets[net] \subseteq GenNets(t)[net]
SameNodes(t) == \A net \in DOMAIN t.nets : GenNets(t)[net] = BoardNets[net]

CheckPasses(r) ==
  LET t == Tables(design, r)
  IN  /\ SameRefs(t)
      /\ DOMAIN BoardNets = DOMAIN t.nets
      /\ SameNodes(t)
      /\ \A net \in DOMAIN BoardNets : \E n, m \in BoardNets[net] : n # m

-----------------------------------------------------------------------------
\* A second table, of which ERC only warns: a Pi pin alone on a net.
Lonely ==
  [comp |-> [COMP EXCEPT !["J3"].pins = @ \union {9}],
   nets |-> Put(NETS, [SPARE |-> << <<"J3", 9>> >>])]

Init ==
  /\ design \in {Base, Lonely}
  /\ rev \in Revs
  /\ board = Imported(Tables(design, rev))
  /\ touches = 0
  /\ text = <<>>
  /\ pc = "kicad"
  /\ fps = <<>> /\ queue = <<>> /\ pads = {} /\ rem = {} /\ chain = <<>>

Touch ==
  /\ pc = "kicad"
  /\ touches < MaxTouches
  /\ touches' = touches + 1
  /\ UNCHANGED <<design, rev, text, pc, renderVars>>

\* By hand, or at the import: the trimmer of rev A was lost there, its footprint
\* unresolved (docs/kicad-gui-review-2026-07-28.md:36-39).
DeleteFootprint == Touch /\ \E i \in DOMAIN board : board' = RemoveAt(board, i)
\* Copy and paste keeps the reference.
CopyFootprint == Touch /\ \E i \in DOMAIN board : board' = Append(board, board[i])
Rewire ==
  /\ Touch
  /\ \E i \in DOMAIN board :
       \E j \in DOMAIN board[i].pads, net \in DOMAIN NETS \union {NoNet} :
         board' = [board EXCEPT ![i].pads[j].net = net]

\* Saved, perhaps cut short; the bound of the model is that only an untouched
\* board is.
Save ==
  /\ pc = "kicad"
  /\ \E old \in BOOLEAN :
       LET whole == BoardText(board, old)
       IN  \/ text' = whole
           \/ /\ touches = 0
              /\ \E k \in DOMAIN whole : text' \in CutAt(whole, k)
  /\ pc' = "saved"
  /\ UNCHANGED <<design, rev, board, touches, renderVars>>

(* render_pcb.py *)

\* load(): an IndexError if there is nothing in the list parse() returns.
Load ==
  /\ pc = "saved"
  /\ \E parsed \in {Parse(text)} :
       \/ /\ parsed.err \/ Result(parsed) = <<>>
          /\ pc' = "crashed"
          /\ UNCHANGED <<fps, queue>>
       \/ /\ ~parsed.err /\ Result(parsed) # <<>>
          /\ pc' = "nets"
          /\ \E root \in {Result(parsed)[1]} : fps' = Footprints(root)
          /\ queue' = Sorted(DOMAIN BoardNets', NetOrder)
  /\ UNCHANGED <<design, rev, board, touches, text, pads, rem, chain>>

\* Pads in the order of the file, as lists of them are.
Before(p, q) == p[1] < q[1] \/ (p[1] = q[1] /\ p[2] <= q[2])

StartNet_BugAllRemain(first, on) == on
StartNet(first, on) == on \ {first}

SkipNet ==
  /\ pc = "nets" /\ queue # <<>>
  /\ \A p, q \in PadsOn(queue[1]) : p = q
  /\ queue' = Tail(queue)
  /\ UNCHANGED <<design, rev, board, touches, text, pc, fps, pads, rem, chain>>

TakeNet ==
  /\ pc = "nets" /\ queue # <<>>
  /\ \E p, q \in PadsOn(queue[1]) : p # q
  /\ pads' = PadsOn(queue[1])
  /\ \E first \in pads' :
       /\ \A p \in pads' : Before(first, p)
       /\ rem' = StartNet(first, pads')
       /\ chain' = <<first>>
  /\ queue' = Tail(queue)
  /\ pc' = "chain"
  /\ UNCHANGED <<design, rev, board, touches, text, fps>>

Square(x) == x * x
Dist(p, q) == 9 * Square(p[1] - q[1]) + Square(p[2] - q[2])

\* min() takes the first of the nearest.
Nearest(p, cur) ==
  \A q \in rem : \/ Dist(cur, p) < Dist(cur, q)
                 \/ Dist(cur, p) = Dist(cur, q) /\ Before(p, q)

DrawLine ==
  /\ pc = "chain"
  /\ \E nxt \in rem :
       /\ Nearest(nxt, Last(chain))
       /\ rem' = rem \ {nxt}
       /\ chain' = Append(chain, nxt)
  /\ UNCHANGED <<design, rev, board, touches, text, pc, fps, queue, pads>>

EndNet ==
  /\ pc = "chain" /\ rem = {}
  /\ pc' = "nets"
  /\ UNCHANGED <<design, rev, board, touches, text, renderVars>>

EndRender ==
  /\ pc = "nets" /\ queue = <<>>
  /\ pc' = "done"
  /\ UNCHANGED <<design, rev, board, touches, text, renderVars>>

Render == Load \/ SkipNet \/ TakeNet \/ DrawLine \/ EndNet \/ EndRender

Next == DeleteFootprint \/ CopyFootprint \/ Rewire \/ Save \/ Render

Spec == Init /\ [][Next]_vars

-----------------------------------------------------------------------------
(* Properties *)

Loaded == pc \in {"nets", "chain", "done"}
Whole == \E old \in BOOLEAN : text = BoardText(board, old)
Wiring(b) == {<<b[p[1]].ref, b[p[1]].pads[p[2]]>> : p \in PadsOf(b)}
NoCopies == \A i, j \in DOMAIN board : board[i].ref = board[j].ref => i = j

\* check_pcb.py, "does guitardawliteos.kicad_pcb still agree with gen.py?"
\* (check_pcb.py:3): a board it passes has the parts of the tables and each pin
\* on the net they say, no other, and was saved to its end.  It has no eye for
\* a part that is there twice.
CheckedBoardIsDesign ==
  \A r \in Revs :
    Loaded /\ CheckPasses(r) =>
      /\ Whole
      /\ NoCopies => Wiring(board) = Wiring(Imported(Tables(design, r)))

\* No false alarm: a board just imported whole passes for its revision, unless ERC
\* warned of a net, and fails for the other.
NoLonelyNet(r) == \A net \in DOMAIN Tables(design, r).nets : Len(Tables(design, r).nets[net]) > 1
FreshBoardPasses ==
  Loaded /\ touches = 0 /\ Whole =>
    \A r \in Revs : CheckPasses(r) <=> r = rev /\ NoLonelyNet(r)

\* parse() takes an unfinished file without complaint, and returns the list it
\* was in; what load() makes of that is nothing, never half a board.
CutLoadsNothing == Loaded /\ ~Whole => fps = <<>>

\* The ratsnest "is the wiring representation" (render_pcb.py:12): when the
\* lines of a net are drawn, they run through each of its pads once.
RatsnestSpans ==
  pc = "chain" /\ rem = {} =>
    /\ Range(chain) = pads
    /\ \A i, j \in DOMAIN chain : chain[i] = chain[j] => i = j

\* The inductive invariant behind it: a pad of the net has been drawn to, once,
\* or remains.
ChainInv ==
  pc = "chain" =>
    /\ chain \in Seq(pads) /\ rem \subseteq pads
    /\ Range(chain) \union rem = pads
    /\ Range(chain) \cap rem = {}
    /\ \A i, j \in DOMAIN chain : chain[i] = chain[j] => i = j
=============================================================================
