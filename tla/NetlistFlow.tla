---------------------------- MODULE NetlistFlow ----------------------------
(***************************************************************************)
(* The netlist side of kicad/: a developer edits the tables of gen.py,     *)
(* runs it for either revision, is interrupted, runs test_rev.py, restores *)
(* the committed files.  gen.py writes three artifacts one after another,  *)
(* each with open(..., "w"), so that a run that dies leaves some of them   *)
(* new, some old, and the one it was at cut short.  What an artifact says  *)
(* is modelled, not its text.                                              *)
(*                                                                         *)
(* An operator named X_Bug... is the mutated form of X.                    *)
(***************************************************************************)
EXTENDS BoardDesign

CONSTANTS
  MaxEdits,    \* bound of the model: edits of gen.py's tables
  MaxStops     \* bound of the model: interrupted runs

ASSUME FlowAssumption == MaxEdits \in Nat /\ MaxStops \in Nat

VARIABLES
  design,   \* COMP and NETS as gen.py spells them, before any pivot
  file,     \* per revision and artifact: [says, whole]
  pc,       \* the artifact gen.py writes next; "compare": test_rev.py
            \* goes on; "idle"
  rev,      \* GDAW_REV of the run
  testing,  \* is it run by test_rev.py?
  code,     \* its exit code
  before,   \* test_rev.py's hashes of the rev-A artifacts
  verdict,  \* test_rev.py's last word, as long as nothing happened since
  torn,     \* history: the last run for the revision was interrupted
  edits,    \* history: edits made
  stops     \* history: runs interrupted

processVars == <<pc, rev, testing, code, before>>
vars == <<design, file, processVars, verdict, torn, edits, stops>>

Artifacts == {"net", "sym", "bom"}

-----------------------------------------------------------------------------
(* What main() makes of the tables. *)

\* A KeyError, or an exit with ERC's errors, ends gen.py before its first
\* write.  emit_symbols looks up the ADC.
Generates(d, r) ==
  /\ ~Raises(d, r)
  /\ ErcClean(Tables(d, r))
  /\ "U2" \in DOMAIN Tables(d, r).comp

EmitNetlist(t) == [parts |-> [r \in DOMAIN t.comp |-> t.comp[r].fp], nets |-> t.nets]
EmitSymbols(t) == t.comp["U2"].pins
EmitBom(t) == DOMAIN t.comp

Emit(t, a) ==
  CASE a = "net" -> EmitNetlist(t) [] a = "sym" -> EmitSymbols(t) [] a = "bom" -> EmitBom(t)

Whole(says) == [says |-> says, whole |-> TRUE]
Cut(says) == [says |-> says, whole |-> FALSE]
Generated(d, r) == [a \in Artifacts |-> Whole(Emit(Tables(d, r), a))]

\* The tables as committed pass, for either revision.
ASSUME HeadGenerates == \A r \in Revs : Generates(Base, r)

\* The revision whose artifact is overwritten.  Each of the three file names
\* has the tag in it: "" for revision A, "-revB" for B.
Dest_BugNoTag(r, a) == IF a = "bom" THEN "A" ELSE r
Dest(r, a) == r

-----------------------------------------------------------------------------
Committed == Generated(Base, "A")    \* the rev-A artifacts git has

Init ==
  /\ design = Base
  /\ file = [r \in Revs |-> Generated(Base, r)]
  /\ pc = "idle" /\ rev = "A" /\ testing = FALSE /\ code = 0 /\ before = <<>>
  /\ verdict = "none"
  /\ torn = [r \in Revs |-> FALSE]
  /\ edits = 0 /\ stops = 0

(* gen.py *)

\* No process is left, nor what it knew.
Exit == /\ pc' = "idle" /\ rev' = "A" /\ testing' = FALSE /\ code' = 0 /\ before' = <<>>

\* The run up to its first write.
RunGen(r) ==
  /\ pc = "idle"
  /\ Generates(design, r)
  /\ pc' = "net" /\ rev' = r
  /\ verdict' = "none"
  /\ UNCHANGED <<design, file, testing, code, before, torn, edits, stops>>

\* The run that refuses touches nothing.
RefuseGen(r) ==
  /\ pc = "idle"
  /\ ~Generates(design, r)
  /\ verdict' = "none"
  /\ UNCHANGED <<design, file, processVars, torn, edits, stops>>

Write(a) ==
  /\ pc = a
  /\ file' = [file EXCEPT ![Dest(rev, a)][a] = Whole(Emit(Tables(design, rev), a))]
  /\ UNCHANGED <<design, verdict, edits, stops>>

WriteNetlist == Write("net") /\ pc' = "sym" /\ UNCHANGED <<rev, testing, code, before, torn>>
WriteSymbols == Write("sym") /\ pc' = "bom" /\ UNCHANGED <<rev, testing, code, before, torn>>
WriteBom ==
  /\ Write("bom")
  /\ torn' = [torn EXCEPT ![rev] = FALSE]
  /\ \/ ~testing /\ Exit
     \/ testing /\ pc' = "compare" /\ UNCHANGED <<rev, testing, code, before>>

\* ^C, or the machine goes down: the artifact in the works is still the old
\* one, or cut short.
Interrupt ==
  /\ stops < MaxStops
  /\ pc # "idle"
  /\ \/ UNCHANGED file
     \/ /\ pc \in Artifacts
        /\ file' = [file EXCEPT ![Dest(rev, pc)][pc] = Cut(Emit(Tables(design, rev), pc))]
  /\ torn' = IF pc \in Artifacts THEN [torn EXCEPT ![rev] = TRUE] ELSE torn
  /\ stops' = stops + 1
  /\ Exit
  /\ UNCHANGED <<design, verdict, edits>>

-----------------------------------------------------------------------------
(* test_rev.py *)

StartTest ==
  /\ pc = "idle"
  /\ before' = file["A"]
  /\ testing' = TRUE
  /\ \/ Generates(design, "A") /\ pc' = "net" /\ code' = 0
     \/ ~Generates(design, "A") /\ pc' = "compare" /\ code' = 1
  /\ verdict' = "none"
  /\ UNCHANGED <<design, file, rev, torn, edits, stops>>

\* rev_a_byte_identical, after the run
ByteIdentical_BugNoExitCode == file["A"] = before
ByteIdentical == code = 0 /\ file["A"] = before

\* rev_b_structure, on a netlist: what the pivot is about, and one of the
\* things it "must NOT have broken".
Pivoted(parts, nets) ==
  LET On(net) == Range(nets[net])
  IN  /\ MD0 \notin On("GND") /\ MD0 \in On("+3V3")
      /\ <<"J3", 7>> \notin Nodes(nets)
      /\ On("MCLK") = {<<"R_mclk", 2>>, <<"U2", 6>>}
      /\ On("MCLK_SRC") = {<<"J4", 1>>, <<"R_mclk", 1>>}
      /\ "R_mclk" \in parts
      /\ <<"J4", 2>> \in On("GND")
      /\ <<"J3", 1>> \in On("+3V3")
      /\ LDO \notin parts
      /\ \A n \in Nodes(nets) : n[1] # LDO
VddOn3V3(nets) ==
  LET On(net) == Range(nets[net])
  IN  <<"U2", 4>> \in On("+3V3") \ On("+5V")

\* Importing gen.py for revision B may raise, which fails the test too.
RevBPasses ==
  /\ ~Raises(design, "B")
  /\ LET t == Tables(design, "B")
     IN  /\ Pivoted(DOMAIN t.comp, t.nets)
         /\ VddOn3V3(t.nets)
         /\ 7 \notin t.comp["J3"].pins
         /\ ErcClean(t)

Compare ==
  /\ pc = "compare"
  /\ verdict' = IF ByteIdentical /\ RevBPasses THEN "pass" ELSE "fail"
  /\ Exit
  /\ UNCHANGED <<design, file, torn, edits, stops>>

-----------------------------------------------------------------------------
(* The developer *)

\* The list of nodes with the i-th taken out, and the tables of nets with a
\* node taken out or put in.
Except(nodes, i) == SubSeq(nodes, 1, i - 1) \o SubSeq(nodes, i + 1, Len(nodes))
Without(nets, p) == [nets EXCEPT ![p[1]] = Except(@, p[2])]
With(nets, net, n) == [nets EXCEPT ![net] = Append(@, n)]

\* bound of the model: a node added to the tables is one the pivot moves.
Moved == {<<"J3", 1>>, <<"J3", 7>>, MD0, <<LDO, 1>>}

EditedNets(nets) ==
  LET places == Places(nets)
  IN  {Without(nets, p) : p \in places}
      \union {With(nets, net, n) : net \in DOMAIN nets, n \in Moved}
      \union {With(Without(nets, p), net, NodeAt(nets, p)) :
                p \in places, net \in DOMAIN nets}
      \union {Restrict(nets, DOMAIN nets \ {net}) : net \in DOMAIN nets}

EditedComp(comp) ==
  {Restrict(comp, DOMAIN comp \ {r}) : r \in DOMAIN comp}
  \union {[comp EXCEPT ![r].fp = ~@] : r \in DOMAIN comp}
  \union {[comp EXCEPT ![n[1]].pins = @ \union {n[2]}] :
            n \in {n \in Moved : n[1] \in DOMAIN comp}}
  \union {[comp EXCEPT ![n[1]].pins = @ \ {n[2]}] : n \in PinsOf(comp)}

Edit ==
  /\ pc = "idle"
  /\ edits < MaxEdits
  /\ design' \in {[design EXCEPT !.nets = nets] : nets \in EditedNets(design.nets)}
                 \union {[design EXCEPT !.comp = comp] : comp \in EditedComp(design.comp)}
  /\ edits' = edits + 1
  /\ verdict' = "none"
  /\ UNCHANGED <<file, processVars, torn, stops>>

\* git checkout of the rev-A artifacts
Restore ==
  /\ pc = "idle"
  /\ file' = [file EXCEPT !["A"] = Committed]
  /\ torn' = [torn EXCEPT !["A"] = FALSE]
  /\ verdict' = "none"
  /\ UNCHANGED <<design, processVars, edits, stops>>

Next ==
  \/ \E r \in Revs : RunGen(r) \/ RefuseGen(r)
  \/ WriteNetlist \/ WriteSymbols \/ WriteBom \/ Interrupt
  \/ StartTest \/ Compare
  \/ Edit \/ Restore

Spec == Init /\ [][Next]_vars

-----------------------------------------------------------------------------
(* validate.py, on what a netlist says.  A file cut short has an unclosed   *)
(* list, at which its parse() raises an IndexError.                         *)

CheckNetlist(f) ==
  /\ f.whole
  /\ \A r \in DOMAIN f.says.parts : f.says.parts[r]
  /\ \A n \in Nodes(f.says.nets) : n[1] \in DOMAIN f.says.parts

-----------------------------------------------------------------------------
(* Properties *)

\* Whatever the tables became and whatever was interrupted: a netlist on disk
\* that is not cut short passes check_netlist, and lists no pin twice ("every
\* pin on exactly one net", gen.py:10).
Sound(f) ==
  f.whole =>
    /\ CheckNetlist(f)
    /\ \A net \in DOMAIN f.says.nets : IsInjective(f.says.nets[net])
    /\ \A m, n \in DOMAIN f.says.nets :
         m # n => Range(f.says.nets[m]) \intersect Range(f.says.nets[n]) = {}
NetlistSound == \A r \in Revs : Sound(file[r]["net"])

\* A rev-B netlist on disk has the clock, the mode pins and the supply of the
\* pivot (gen.py:127-133), even when it was made from tables edited since:
\* apply_rev_b overwrites, and what it cannot overwrite ERC turns down.
PivotSurvivesEdits ==
  LET f == file["B"]["net"]
  IN  f.whole => Pivoted(DOMAIN f.says.parts, f.says.nets)

\* Between runs, and unless the last one was interrupted, the artifacts of a
\* revision agree: the BOM orders the parts of the netlist, and the symbol of
\* the ADC has just the pins that the netlist connects.
PinsOn(nets, ref) == {n[2] : n \in {m \in Nodes(nets) : m[1] = ref}}
Agree(f) ==
  /\ \A a \in Artifacts : f[a].whole
  /\ f["bom"].says = DOMAIN f["net"].says.parts
  /\ PinsOn(f["net"].says.nets, "U2") = f["sym"].says
ArtifactsAgree == pc = "idle" => \A r \in Revs : ~torn[r] => Agree(file[r])

\* What a passing test_rev.py is worth: the rev-A artifacts are whole and just
\* what the tables give, and gen.py would generate revision B.
TestVouches ==
  verdict = "pass" => file["A"] = Generated(design, "A") /\ Generates(design, "B")

\* A run for revision B leaves the artifacts of revision A alone ("rev A stays
\* unchanged", gen.py:122).
RevAUntouched ==
  [][(pc \in Artifacts /\ rev = "B") => UNCHANGED file["A"] ]_vars

\* "Regenerate rev A and confirm git sees no change to its artifacts"
\* (test_rev.py:40).
TestConfirmsHead == verdict = "pass" => file["A"] = Committed

\* The inductive invariant: what holds between the writes of a run.
TypeOK ==
  /\ DOMAIN file = Revs /\ \A r \in Revs : file[r] = [a \in Artifacts |-> file[r][a]]
  /\ pc \in Artifacts \union {"compare", "idle"}
  /\ rev \in Revs /\ testing \in BOOLEAN /\ code \in {0, 1}
  /\ verdict \in {"none", "pass", "fail"} /\ (pc # "idle" => verdict = "none")
  /\ torn \in [Revs -> BOOLEAN]
  /\ pc = "idle" => ~testing /\ code = 0
  /\ pc = "compare" => testing
  /\ testing \/ pc = "idle" => rev = "A"
Written(a) == file[rev][a] = Whole(Emit(Tables(design, rev), a))
RunInv ==
  /\ pc \in Artifacts => code = 0 /\ Generates(design, rev)
  /\ pc \in {"sym", "bom"} => Written("net")
  /\ pc = "bom" => Written("sym")
  /\ pc = "compare" /\ code = 0 => file["A"] = Generated(design, "A")
FilesInv ==
  \A r \in Revs : ~torn[r] /\ ~(pc \in Artifacts /\ rev = r) => Agree(file[r])
FlowInv == TypeOK /\ NetlistSound /\ RunInv /\ FilesInv /\ TestVouches
=============================================================================
