------------------------- MODULE NetlistFlowProofs -------------------------
(***************************************************************************)
(* Proofs about NetlistFlow, for any number of edits, whatever they make   *)
(* of the tables that the ERC does not turn down, and any number of        *)
(* interrupted runs.                                                       *)
(***************************************************************************)
EXTENDS NetlistFlow, SequenceTheorems, FiniteSetTheorems, TLAPS

-----------------------------------------------------------------------------
(* What the ERC guarantees of the artifacts. *)

\* The netlist of tables that pass the ERC is sound.
LEMMA ErcMakesSound ==
  ASSUME NEW d, NEW r, Generates(d, r)
  PROVE  Sound(Whole(Emit(Tables(d, r), "net")))
<1> DEFINE t == Tables(d, r)
<1>1. ErcClean(t)
  BY DEF Generates
<1> HIDE DEF t
<1>2. Emit(t, "net") = [parts |-> [x \in DOMAIN t.comp |-> t.comp[x].fp], nets |-> t.nets]
  BY DEF Emit, EmitNetlist
<1> DEFINE says == Emit(t, "net")
<1>3. DOMAIN says.parts = DOMAIN t.comp /\ says.nets = t.nets
      /\ \A x \in DOMAIN t.comp : says.parts[x] = t.comp[x].fp
  BY <1>2
<1> HIDE DEF says
<1>4. CheckNetlist(Whole(says))
  BY <1>1, <1>3 DEF CheckNetlist, Whole, ErcClean, HaveFootprints, RefsKnown
<1>5. OneNet(t.nets)
  BY <1>1 DEF ErcClean
<1>6. ASSUME NEW net \in DOMAIN t.nets, NEW i \in DOMAIN t.nets[net]
      PROVE  <<net, i>> \in Places(t.nets) /\ NodeAt(t.nets, <<net, i>>) = t.nets[net][i]
  BY DEF Places, NodeAt
<1>7. ASSUME NEW net \in DOMAIN t.nets
      PROVE  IsInjective(t.nets[net])
  <2> SUFFICES ASSUME NEW i \in DOMAIN t.nets[net], NEW j \in DOMAIN t.nets[net],
                      t.nets[net][i] = t.nets[net][j]
               PROVE  i = j
    BY DEF IsInjective
  <2>1. /\ <<net, i>> \in Places(t.nets) /\ <<net, j>> \in Places(t.nets)
        /\ NodeAt(t.nets, <<net, i>>) = NodeAt(t.nets, <<net, j>>)
    BY <1>6
  <2>2. <<net, i>> = <<net, j>>
    BY <1>5, <2>1, Zenon DEF OneNet
  <2> QED BY <2>2
<1>8. ASSUME NEW m \in DOMAIN t.nets, NEW n \in DOMAIN t.nets, m # n
      PROVE  Range(t.nets[m]) \intersect Range(t.nets[n]) = {}
  <2> SUFFICES ASSUME NEW i \in DOMAIN t.nets[m], NEW j \in DOMAIN t.nets[n],
                      t.nets[m][i] = t.nets[n][j]
               PROVE  FALSE
    BY DEF Range
  <2>1. /\ <<m, i>> \in Places(t.nets) /\ <<n, j>> \in Places(t.nets)
        /\ NodeAt(t.nets, <<m, i>>) = NodeAt(t.nets, <<n, j>>)
    BY <1>6
  <2>2. <<m, i>> = <<n, j>>
    BY <1>5, <2>1, Zenon DEF OneNet
  <2> QED BY <1>8, <2>2
<1>9. Whole(says).says = says
  BY DEF Whole
<1> QED BY <1>3, <1>4, <1>7, <1>8, <1>9 DEF Sound, says, t

\* The pins of a part are the pins its tables connect.
LEMMA ErcMakesConnected ==
  ASSUME NEW t, ErcClean(t), NEW x \in DOMAIN t.comp
  PROVE  PinsOn(t.nets, x) = t.comp[x].pins
<1>1. ASSUME NEW p \in t.comp[x].pins
      PROVE  p \in PinsOn(t.nets, x)
  <2>1. <<x, p>> \in PinsOf(t.comp)
    BY <1>1 DEF PinsOf
  <2>2. <<x, p>> \in Nodes(t.nets)
    BY <2>1 DEF ErcClean, AllConnected
  <2> QED BY <2>2 DEF PinsOn
<1>2. ASSUME NEW p \in PinsOn(t.nets, x)
      PROVE  p \in t.comp[x].pins
  BY <1>2 DEF PinsOn, ErcClean, PinsKnown
<1> QED BY <1>1, <1>2

\* The artifacts of such tables agree.
LEMMA ErcMakesAgree ==
  ASSUME NEW d, NEW r, Generates(d, r)
  PROVE  Agree(Generated(d, r))
<1> DEFINE t == Tables(d, r)
<1>1. ErcClean(t) /\ "U2" \in DOMAIN t.comp
  BY DEF Generates
<1> HIDE DEF t
<1>2. Generated(d, r) = [a \in Artifacts |-> Whole(Emit(t, a))]
  BY DEF Generated, t
<1>3. /\ Emit(t, "net") = [parts |-> [x \in DOMAIN t.comp |-> t.comp[x].fp], nets |-> t.nets]
      /\ Emit(t, "sym") = t.comp["U2"].pins
      /\ Emit(t, "bom") = DOMAIN t.comp
  BY DEF Emit, EmitNetlist, EmitSymbols, EmitBom
<1>4. DOMAIN Emit(t, "net").parts = DOMAIN t.comp /\ Emit(t, "net").nets = t.nets
  BY <1>3
<1>5. PinsOn(t.nets, "U2") = t.comp["U2"].pins
  BY <1>1, ErcMakesConnected
<1> QED BY <1>2, <1>3, <1>4, <1>5 DEF Agree, Whole, Artifacts

\* The pivot test does not pass on tables without the ADC.
LEMMA RevBTestVouches ==
  ASSUME RevBPasses
  PROVE  Generates(design, "B")
<1> DEFINE t == Tables(design, "B")
<1>1. ~Raises(design, "B") /\ ErcClean(t) /\ Pivoted(DOMAIN t.comp, t.nets)
  BY DEF RevBPasses
<1>2. "MCLK" \in DOMAIN t.nets
  BY DEF Tables, PivotNets, Put
<1> HIDE DEF t
<1>3. <<"U2", 6>> \in Range(t.nets["MCLK"])
  BY <1>1 DEF Pivoted
<1>4. PICK i \in DOMAIN t.nets["MCLK"] : t.nets["MCLK"][i] = <<"U2", 6>>
  BY <1>3 DEF Range
<1>5. <<"MCLK", i>> \in Places(t.nets)
  BY <1>2, <1>4 DEF Places
<1>6. <<"U2", 6>> \in Nodes(t.nets)
  BY <1>4, <1>5 DEF Nodes, NodeAt
<1>7. "U2" \in DOMAIN t.comp
  BY <1>1, <1>6 DEF ErcClean, RefsKnown
<1> QED BY <1>1, <1>7 DEF Generates, t

-----------------------------------------------------------------------------
(* The invariant *)

\* The committed artifacts satisfy it.
LEMMA InitFlowInv == Init => FlowInv
<1> SUFFICES ASSUME Init PROVE FlowInv
  OBVIOUS
<1>1. \A r \in Revs : file[r] = Generated(Base, r) /\ Generates(Base, r)
  BY HeadGenerates DEF Init
<1>2. TypeOK
  BY <1>1 DEF Init, TypeOK, Generated, Revs
<1>3. \A r \in Revs : file[r]["net"] = Whole(Emit(Tables(Base, r), "net"))
  BY <1>1 DEF Generated, Artifacts
<1>4. NetlistSound
  BY <1>1, <1>3, ErcMakesSound DEF NetlistSound
<1>5. FilesInv
  BY <1>1, ErcMakesAgree DEF FilesInv
<1> QED BY <1>2, <1>4, <1>5 DEF FlowInv, Init, RunInv, TestVouches, Artifacts

\* One artifact of the revision at hand written whole, or cut short, and the
\* rest left alone.
LEMMA FileStep ==
  ASSUME TypeOK, NetlistSound, NEW a \in Artifacts, NEW f, Sound(f) \/ a # "net",
         file' = [file EXCEPT ![Dest(rev, a)][a] = f]
  PROVE  /\ NetlistSound'
         /\ DOMAIN file' = Revs /\ \A r \in Revs : file'[r] = [b \in Artifacts |-> file'[r][b]]
         /\ file'[rev][a] = f
         /\ \A b \in Artifacts : b # a => file'[rev][b] = file[rev][b]
         /\ \A r \in Revs : r # rev => file'[r] = file[r]
<1>1. /\ DOMAIN file = Revs /\ \A r \in Revs : file[r] = [b \in Artifacts |-> file[r][b]]
      /\ rev \in Revs
  BY DEF TypeOK
<1>2. file' = [file EXCEPT ![rev] = [file[rev] EXCEPT ![a] = f]]
  BY DEF Dest
<1>3. file'[rev] = [file[rev] EXCEPT ![a] = f] /\ DOMAIN file' = Revs
      /\ \A r \in Revs : r # rev => file'[r] = file[r]
  BY <1>1, <1>2
<1>4. /\ file'[rev] = [b \in Artifacts |-> IF b = a THEN f ELSE file[rev][b]]
      /\ file'[rev] = [b \in Artifacts |-> file'[rev][b]]
      /\ file'[rev][a] = f
      /\ \A b \in Artifacts : b # a => file'[rev][b] = file[rev][b]
  BY <1>1, <1>3
<1>5. "net" \in Artifacts
  BY DEF Artifacts
<1>6. NetlistSound'
  BY <1>1, <1>3, <1>4, <1>5 DEF NetlistSound
<1> QED BY <1>1, <1>3, <1>4, <1>6

\* A write by gen.py puts the artifact of the tables in place.
LEMMA WriteFacts ==
  ASSUME FlowInv, NEW a \in Artifacts, Write(a)
  PROVE  /\ NetlistSound'
         /\ DOMAIN file' = Revs /\ \A r \in Revs : file'[r] = [b \in Artifacts |-> file'[r][b]]
         /\ file'[rev][a] = Whole(Emit(Tables(design, rev), a))
         /\ \A b \in Artifacts : b # a => file'[rev][b] = file[rev][b]
         /\ \A r \in Revs : r # rev => file'[r] = file[r]
<1>1. TypeOK /\ NetlistSound /\ Generates(design, rev)
  BY DEF FlowInv, RunInv, Write
<1>2. Sound(Whole(Emit(Tables(design, rev), a))) \/ a # "net"
  BY <1>1, ErcMakesSound
<1> QED BY <1>1, <1>2, FileStep DEF Write

\* An action that leaves the files, the tables and the run alone, and has no
\* verdict to give, preserves the invariant.
LEMMA QuietStep ==
  ASSUME FlowInv, UNCHANGED <<design, file, processVars, torn>>, verdict' = "none"
  PROVE  FlowInv'
BY DEF FlowInv, TypeOK, NetlistSound, RunInv, Written, FilesInv, TestVouches, processVars

\* A run that gets as far as its first write, by hand or under test_rev.py.
LEMMA StartStep ==
  ASSUME FlowInv, StartTest \/ \E r \in Revs : RunGen(r)
  PROVE  FlowInv'
<1>1. /\ pc = "idle" /\ UNCHANGED <<file, torn, design>> /\ verdict' = "none"
      /\ pc' \in {"net", "compare"} /\ (pc' = "net" => code' = 0 /\ Generates(design, rev'))
      /\ pc' = "compare" => code' = 1
  BY DEF StartTest, RunGen, FlowInv, TypeOK, Artifacts
<1>2. TypeOK'
  <2>1. TypeOK /\ rev = "A" /\ ~testing /\ code = 0
    BY <1>1 DEF FlowInv, TypeOK
  <2>2. CASE StartTest
    BY <1>1, <2>1, <2>2 DEF StartTest, TypeOK, Artifacts
  <2>3. CASE \E r \in Revs : RunGen(r)
    BY <1>1, <2>1, <2>3 DEF RunGen, TypeOK, Artifacts
  <2> QED BY <2>2, <2>3
<1>3. NetlistSound' /\ TestVouches' /\ RunInv'
  BY <1>1 DEF FlowInv, NetlistSound, TestVouches, RunInv, Artifacts
<1>4. FilesInv'
  BY <1>1 DEF FlowInv, FilesInv, Artifacts
<1> QED BY <1>2, <1>3, <1>4 DEF FlowInv

\* The first two writes.
LEMMA EarlyWriteStep ==
  ASSUME FlowInv, WriteNetlist \/ WriteSymbols
  PROVE  FlowInv'
<1>1. PICK a \in {"net", "sym"} :
        /\ Write(a) /\ pc = a
        /\ pc' = IF a = "net" THEN "sym" ELSE "bom"
        /\ UNCHANGED <<design, rev, testing, code, torn, verdict>>
  BY DEF WriteNetlist, WriteSymbols, Write
<1>2. a \in Artifacts /\ pc' \in Artifacts /\ {"net", "sym"} \subseteq Artifacts
  BY <1>1 DEF Artifacts
<1>3. /\ NetlistSound'
      /\ DOMAIN file' = Revs /\ \A r \in Revs : file'[r] = [b \in Artifacts |-> file'[r][b]]
      /\ file'[rev][a] = Whole(Emit(Tables(design, rev), a))
      /\ \A b \in Artifacts : b # a => file'[rev][b] = file[rev][b]
      /\ \A r \in Revs : r # rev => file'[r] = file[r]
  BY <1>1, <1>2, WriteFacts
<1>4. TypeOK'
  BY <1>1, <1>2, <1>3 DEF FlowInv, TypeOK, Artifacts
<1>5. RunInv'
  BY <1>1, <1>2, <1>3 DEF FlowInv, RunInv, Written
<1>6. FilesInv'
  <2> SUFFICES ASSUME NEW r \in Revs, ~torn[r], r # rev
               PROVE  Agree(file'[r])
    BY <1>1, <1>2 DEF FilesInv
  <2> QED BY <1>3 DEF FlowInv, FilesInv
<1>7. TestVouches'
  BY <1>1, <1>2 DEF FlowInv, TypeOK, TestVouches, Artifacts
<1> QED BY <1>3, <1>4, <1>5, <1>6, <1>7 DEF FlowInv

\* The last write makes the three artifacts those of the tables.
LEMMA LastWriteStep ==
  ASSUME FlowInv, WriteBom
  PROVE  FlowInv'
<1>1. /\ Write("bom") /\ pc = "bom" /\ "bom" \in Artifacts
      /\ Artifacts = {"net", "sym", "bom"}
      /\ TypeOK /\ Generates(design, rev) /\ code = 0 /\ verdict = "none"
      /\ UNCHANGED <<design, verdict>>
      /\ torn' = [torn EXCEPT ![rev] = FALSE]
  BY DEF WriteBom, Write, Artifacts, FlowInv, RunInv, TypeOK
<1>2. /\ NetlistSound'
      /\ DOMAIN file' = Revs /\ \A r \in Revs : file'[r] = [b \in Artifacts |-> file'[r][b]]
      /\ file'[rev]["bom"] = Whole(Emit(Tables(design, rev), "bom"))
      /\ \A b \in Artifacts : b # "bom" => file'[rev][b] = file[rev][b]
      /\ \A r \in Revs : r # rev => file'[r] = file[r]
  BY <1>1, WriteFacts
<1>3. \A b \in Artifacts : file'[rev][b] = Whole(Emit(Tables(design, rev), b))
  BY <1>1, <1>2 DEF FlowInv, RunInv, Written
<1>4. file'[rev] = Generated(design, rev) /\ rev \in Revs
  BY <1>1, <1>2, <1>3 DEF Generated, TypeOK
<1>5. /\ rev' \in Revs /\ testing' \in BOOLEAN /\ code' \in {0, 1}
      /\ pc' \in {"idle", "compare"}
      /\ pc' = "idle" => ~testing' /\ code' = 0
      /\ pc' = "compare" => testing' /\ rev = "A"
      /\ testing' \/ pc' = "idle" => rev' = "A"
  BY <1>1 DEF WriteBom, Exit, TypeOK, Revs, Artifacts
<1>6. TypeOK'
  BY <1>1, <1>2, <1>5 DEF TypeOK
<1>7. RunInv'
  BY <1>1, <1>4, <1>5 DEF RunInv
<1>8. Agree(file'[rev])
  BY <1>1, <1>4, ErcMakesAgree
<1>9. FilesInv'
  <2> SUFFICES ASSUME NEW r \in Revs, ~torn'[r]
               PROVE  Agree(file'[r])
    BY DEF FilesInv
  <2>1. CASE r = rev
    BY <1>8, <2>1
  <2>2. CASE r # rev
    BY <1>1, <1>2, <2>2 DEF FlowInv, FilesInv, TypeOK
  <2> QED BY <2>1, <2>2
<1>10. TestVouches'
  BY <1>1 DEF TestVouches
<1> QED BY <1>2, <1>6, <1>7, <1>9, <1>10 DEF FlowInv

\* A run interrupted leaves a torn revision, and no verdict.
LEMMA InterruptStep ==
  ASSUME FlowInv, Interrupt
  PROVE  FlowInv'
<1>1. TypeOK /\ NetlistSound /\ FilesInv /\ verdict = "none" /\ pc # "idle"
  BY DEF FlowInv, Interrupt, TypeOK
<1>2. /\ pc' = "idle" /\ rev' = "A" /\ ~testing' /\ testing' \in BOOLEAN /\ code' = 0
      /\ verdict' = "none" /\ UNCHANGED design
      /\ torn' = IF pc \in Artifacts THEN [torn EXCEPT ![rev] = TRUE] ELSE torn
  BY <1>1 DEF Interrupt, Exit
<1>3. /\ NetlistSound'
      /\ DOMAIN file' = Revs /\ \A r \in Revs : file'[r] = [b \in Artifacts |-> file'[r][b]]
      /\ \A r \in Revs : r # rev \/ pc \notin Artifacts => file'[r] = file[r]
  <2>1. CASE UNCHANGED file
    BY <1>1, <2>1 DEF TypeOK, NetlistSound
  <2>2. CASE /\ pc \in Artifacts
             /\ file' = [file EXCEPT ![Dest(rev, pc)][pc] = Cut(Emit(Tables(design, rev), pc))]
    <3>1. Sound(Cut(Emit(Tables(design, rev), pc)))
      BY DEF Sound, Cut
    <3> QED BY <1>1, <2>2, <3>1, FileStep
  <2> QED BY <2>1, <2>2 DEF Interrupt
<1>4. TypeOK'
  BY <1>1, <1>2, <1>3 DEF TypeOK, Revs
<1>5. FilesInv'
  <2> SUFFICES ASSUME NEW r \in Revs, ~torn'[r]
               PROVE  Agree(file'[r])
    BY DEF FilesInv
  <2>1. ~torn[r] /\ (r # rev \/ pc \notin Artifacts)
    BY <1>1, <1>2 DEF TypeOK
  <2> QED BY <1>1, <1>3, <2>1 DEF FilesInv
<1>6. RunInv' /\ TestVouches'
  BY <1>2 DEF RunInv, TestVouches, Artifacts
<1> QED BY <1>3, <1>4, <1>5, <1>6 DEF FlowInv

\* test_rev.py's verdict.
LEMMA CompareStep ==
  ASSUME FlowInv, Compare
  PROVE  FlowInv'
<1>1. /\ pc = "compare" /\ pc' = "idle" /\ rev' = "A" /\ ~testing' /\ testing' \in BOOLEAN
      /\ code' = 0 /\ UNCHANGED <<design, file, torn>>
      /\ verdict' = IF ByteIdentical /\ RevBPasses THEN "pass" ELSE "fail"
  BY DEF Compare, Exit
<1>2. TypeOK' /\ NetlistSound' /\ RunInv'
  BY <1>1 DEF FlowInv, TypeOK, NetlistSound, RunInv, Artifacts, Revs
<1>3. FilesInv'
  BY <1>1 DEF FlowInv, FilesInv, Artifacts
<1>4. TestVouches'
  BY <1>1, RevBTestVouches DEF FlowInv, RunInv, ByteIdentical, TestVouches
<1> QED BY <1>2, <1>3, <1>4 DEF FlowInv

\* The developer.
LEMMA DeveloperStep ==
  ASSUME FlowInv, Edit \/ Restore
  PROVE  FlowInv'
<1>1. /\ pc = "idle" /\ UNCHANGED processVars /\ verdict' = "none"
  BY DEF Edit, Restore
<1>2. RunInv' /\ TestVouches'
  BY <1>1 DEF RunInv, TestVouches, processVars, Artifacts
<1>3. CASE Edit
  <2>1. UNCHANGED <<file, torn>>
    BY <1>3 DEF Edit
  <2> QED BY <1>1, <1>2, <2>1 DEF FlowInv, TypeOK, NetlistSound, FilesInv, processVars
<1>4. CASE Restore
  <2>1. /\ file' = [file EXCEPT !["A"] = Committed]
        /\ torn' = [torn EXCEPT !["A"] = FALSE]
        /\ TypeOK /\ NetlistSound /\ FilesInv
    BY <1>4 DEF Restore, FlowInv
  <2>2. /\ Agree(Committed) /\ Sound(Committed["net"])
        /\ Committed = [b \in Artifacts |-> Committed[b]]
    <3>1. Generates(Base, "A")
      BY HeadGenerates DEF Revs
    <3> QED BY <3>1, ErcMakesAgree, ErcMakesSound DEF Committed, Generated, Artifacts
  <2>3. /\ DOMAIN file' = Revs /\ file'["A"] = Committed
        /\ \A r \in Revs : r # "A" => file'[r] = file[r]
    BY <2>1 DEF TypeOK, Revs
  <2>4. TypeOK'
    BY <1>1, <2>1, <2>2, <2>3 DEF TypeOK, processVars, Revs
  <2>5. NetlistSound' /\ FilesInv'
    BY <1>1, <2>1, <2>2, <2>3 DEF NetlistSound, FilesInv, TypeOK, processVars, Artifacts
  <2> QED BY <1>2, <2>4, <2>5 DEF FlowInv
<1> QED BY <1>3, <1>4

\* Every step preserves the invariant.
LEMMA FlowStep ==
  ASSUME FlowInv, [Next]_vars
  PROVE  FlowInv'
<1>1. CASE \E r \in Revs : RefuseGen(r)
  BY <1>1, QuietStep DEF RefuseGen
<1>2. CASE UNCHANGED vars
  BY <1>2 DEF vars, processVars, FlowInv, TypeOK, NetlistSound, RunInv, Written, FilesInv,
    TestVouches
<1> QED BY <1>1, <1>2, StartStep, EarlyWriteStep, LastWriteStep, InterruptStep, CompareStep,
      DeveloperStep DEF Next

\* The inductive invariant holds in every reachable state.
THEOREM FlowInvariant == Spec => []FlowInv
BY InitFlowInv, FlowStep, PTL DEF Spec

-----------------------------------------------------------------------------
(* The properties *)

\* A netlist on disk that is not cut short passes check_netlist and lists no
\* pin twice, whatever was edited and interrupted before.
THEOREM NetlistsAreSound == Spec => []NetlistSound
<1>1. FlowInv => NetlistSound
  BY DEF FlowInv
<1> QED BY <1>1, FlowInvariant, PTL

\* Between runs the three artifacts of a revision agree, unless the last run
\* for it was interrupted.
THEOREM ArtifactsDoAgree == Spec => []ArtifactsAgree
<1>1. FlowInv => ArtifactsAgree
  BY DEF FlowInv, FilesInv, ArtifactsAgree, Artifacts
<1> QED BY <1>1, FlowInvariant, PTL

\* A passing test_rev.py vouches for the rev-A artifacts and for the ERC of
\* revision B.
THEOREM PassMeansUpToDate == Spec => []TestVouches
<1>1. FlowInv => TestVouches
  BY DEF FlowInv
<1> QED BY <1>1, FlowInvariant, PTL

\* Whatever it does and however it ends, a run for revision B leaves the
\* artifacts of revision A alone.
THEOREM RevAStays == Spec => RevAUntouched
<1>1. ASSUME FlowInv, [Next]_vars, pc \in Artifacts, rev = "B"
      PROVE  UNCHANGED file["A"]
  <2>1. "A" \in Revs /\ DOMAIN file = Revs /\ pc # "idle" /\ pc # "compare"
    BY <1>1 DEF FlowInv, TypeOK, Revs, Artifacts
  <2>2. CASE UNCHANGED file
    BY <2>2
  <2>3. CASE \E a \in Artifacts : \E f : file' = [file EXCEPT ![Dest(rev, a)][a] = f]
    BY <1>1, <2>1, <2>3 DEF Dest
  <2>4. UNCHANGED file \/ \E a \in Artifacts : \E f : file' = [file EXCEPT ![Dest(rev, a)][a] = f]
    <3>1. CASE \E a \in Artifacts : Write(a)
      BY <3>1 DEF Write
    <3>2. CASE Interrupt
      BY <3>2 DEF Interrupt
    <3>3. WriteNetlist \/ WriteSymbols \/ WriteBom => \E a \in Artifacts : Write(a)
      BY DEF WriteNetlist, WriteSymbols, WriteBom, Artifacts
    <3>4. CASE UNCHANGED vars
      BY <3>4 DEF vars
    <3> QED BY <1>1, <2>1, <3>1, <3>2, <3>3, <3>4
          DEF Next, RunGen, RefuseGen, StartTest, Compare, Edit, Restore
  <2> QED BY <2>2, <2>3, <2>4
<1>2. FlowInv /\ [Next]_vars =>
        [(pc \in Artifacts /\ rev = "B") => UNCHANGED file["A"] ]_vars
  BY <1>1
<1> QED BY <1>2, FlowInvariant, PTL DEF Spec, RevAUntouched

-----------------------------------------------------------------------------
(* The pivot *)

Node == (DOMAIN COMP) \X Nat

\* The tables are tables: whatever is edited, a net is a list of nodes.
NodeLists(nets) == \A net \in DOMAIN nets : nets[net] \in Seq(Node)
DesignInv ==
  /\ design = [comp |-> design.comp, nets |-> design.nets]
  /\ NodeLists(design.nets)

\* What drop leaves is a list.
LEMMA DropFacts ==
  ASSUME NEW nodes \in Seq(Node), NEW out
  PROVE  \E T : Drop(nodes, out) \in Seq(T)
<1> DEFINE kept == {i \in DOMAIN nodes : nodes[i] \notin out}
           n == Cardinality(kept)
           Rank(i) == Cardinality({j \in kept : j <= i})
           At(k) == nodes[CHOOSE i \in kept : Rank(i) = k]
           T == {At(k) : k \in 1 .. n}
<1>1. n \in Nat
  <2>1. DOMAIN nodes = 1 .. Len(nodes) /\ Len(nodes) \in Nat
    OBVIOUS
  <2>2. IsFiniteSet(DOMAIN nodes)
    BY <2>1, FS_Interval
  <2>3. IsFiniteSet(kept)
    BY <2>2, FS_Subset
  <2> QED BY <2>3, FS_CardinalityType
<1>2. Drop(nodes, out) = [k \in 1 .. n |-> At(k)]
  BY Zenon DEF Drop
<1> HIDE DEF n, At
<1>3. [k \in 1 .. n |-> At(k)] \in [1 .. n -> T]
  BY Zenon
<1> HIDE DEF T
<1>4. [k \in 1 .. n |-> At(k)] \in Seq(T)
  BY <1>1, <1>3
<1> QED BY <1>2, <1>4

\* What is put around a list is on it.
LEMMA AroundFacts ==
  ASSUME NEW T, NEW f \in Seq(T), NEW a, NEW b
  PROVE  /\ b \in Range(f \o <<b>>)
         /\ a \in Range(<<a>> \o f \o <<b>>) /\ b \in Range(<<a>> \o f \o <<b>>)
<1> DEFINE U == T \union {a, b}
           g == f \o <<b>>
           h == <<a>> \o f \o <<b>>
<1>1. f \in Seq(U) /\ <<a>> \in Seq(U) /\ <<b>> \in Seq(U) /\ Len(f) \in Nat
  OBVIOUS
<1>2. DOMAIN g = 1 .. Len(f) + 1 /\ g[Len(f) + 1] = b
  BY <1>1
<1>3. DOMAIN h = 1 .. Len(f) + 2 /\ h[1] = a /\ h[Len(f) + 2] = b
  BY <1>1
<1>4. Len(f) + 1 \in DOMAIN g /\ 1 \in DOMAIN h /\ Len(f) + 2 \in DOMAIN h
  BY <1>1, <1>2, <1>3
<1> HIDE DEF g, h
<1>5. b \in Range(g) /\ a \in Range(h) /\ b \in Range(h)
  BY <1>2, <1>3, <1>4 DEF Range
<1> QED BY <1>5 DEF g, h

\* And what is on a list of two.
LEMMA PairFacts ==
  ASSUME NEW a, NEW b
  PROVE  Range(<<a, b>>) = {a, b}
<1>1. DOMAIN <<a, b>> = {1, 2} /\ <<a, b>>[1] = a /\ <<a, b>>[2] = b
  OBVIOUS
<1> DEFINE s == <<a, b>>
<1> HIDE DEF s
<1>2. DOMAIN s = {1, 2} /\ s[1] = a /\ s[2] = b => Range(s) = {a, b}
  BY DEF Range
<1> QED BY <1>1, <1>2 DEF s

\* The nets that the pivot assigns.
LEMMA PivotAssigns ==
  ASSUME NEW nets
  PROVE  /\ {"GND", "+3V3", "MCLK", "MCLK_SRC"} \subseteq DOMAIN PivotNets(nets)
         /\ PivotNets(nets)["GND"] = PivotGround(nets["GND"])
         /\ PivotNets(nets)["+3V3"]
              = << <<"J3", 1>> >> \o Drop(nets["+3V3"], {<<LDO, 5>>}) \o << MD0 >>
         /\ PivotNets(nets)["MCLK"] = << <<"R_mclk", 2>>, <<"U2", 6>> >>
         /\ PivotNets(nets)["MCLK_SRC"] = << <<"J4", 1>>, <<"R_mclk", 1>> >>
<1> DEFINE moved == [net \in {"+5V", "GND", "+3V3", "MCLK", "MCLK_SRC"} |->
        CASE net = "+5V"  -> Drop(nets["+5V"], {<<LDO, 1>>})
          [] net = "GND"  -> PivotGround(nets["GND"])
          [] net = "+3V3" -> << <<"J3", 1>> >> \o Drop(nets["+3V3"], {<<LDO, 5>>})
                             \o << MD0 >>
          [] net = "MCLK" -> << <<"R_mclk", 2>>, <<"U2", 6>> >>
          [] net = "MCLK_SRC" -> << <<"J4", 1>>, <<"R_mclk", 1>> >>]
<1>1. PivotNets(nets) = Put(nets, moved)
  BY DEF PivotNets
<1>2. /\ DOMAIN moved = {"+5V", "GND", "+3V3", "MCLK", "MCLK_SRC"}
      /\ moved["GND"] = PivotGround(nets["GND"])
      /\ moved["+3V3"] = << <<"J3", 1>> >> \o Drop(nets["+3V3"], {<<LDO, 5>>}) \o << MD0 >>
      /\ moved["MCLK"] = << <<"R_mclk", 2>>, <<"U2", 6>> >>
      /\ moved["MCLK_SRC"] = << <<"J4", 1>>, <<"R_mclk", 1>> >>
  OBVIOUS
<1> HIDE DEF moved
<1>3. /\ DOMAIN Put(nets, moved) = DOMAIN nets \union DOMAIN moved
      /\ \A net \in DOMAIN moved : Put(nets, moved)[net] = moved[net]
  BY DEF Put
<1> QED BY <1>1, <1>2, <1>3

\* The parts that it leaves, and the header's pin that it takes away.
LEMMA PivotParts ==
  ASSUME NEW comp, "J3" \in DOMAIN comp
  PROVE  /\ LDO \notin DOMAIN PivotComp(comp)
         /\ {"J3", "R_mclk"} \subseteq DOMAIN PivotComp(comp)
         /\ 7 \notin PivotComp(comp)["J3"].pins
<1> DEFINE kept == Restrict(comp, DOMAIN comp \ {LDO})
           put == Put(kept, NewParts)
<1>1. DOMAIN NewParts = {"J4", "R_mclk"}
  BY DEF NewParts
<1>2. DOMAIN put = (DOMAIN comp \ {LDO}) \union {"J4", "R_mclk"}
  BY <1>1 DEF Put, Restrict
<1>3. PivotComp(comp) = [put EXCEPT !["J3"].pins = HeaderPins(@)]
  BY DEF PivotComp
<1>4. LDO \notin DOMAIN put /\ {"J3", "R_mclk"} \subseteq DOMAIN put
  BY <1>2 DEF LDO
<1> HIDE DEF put
<1>5. DOMAIN PivotComp(comp) = DOMAIN put
      /\ PivotComp(comp)["J3"] = [put["J3"] EXCEPT !.pins = HeaderPins(@)]
  BY <1>3, <1>4
<1>6. 7 \notin PivotComp(comp)["J3"].pins
  BY <1>5 DEF HeaderPins
<1> QED BY <1>4, <1>5, <1>6

Pivots(f) == f.whole => Pivoted(DOMAIN f.says.parts, f.says.nets)

\* Whatever the tables, what the pivot assigns and the ERC lets pass is the
\* pivot: the old home of a pin that moved would be its second net.
LEMMA ErcMakesPivoted ==
  ASSUME NEW d, NodeLists(d.nets), Generates(d, "B")
  PROVE  Pivots(Whole(Emit(Tables(d, "B"), "net")))
<1> DEFINE t == Tables(d, "B")
           nets == PivotNets(d.nets)
           comp == PivotComp(d.comp)
<1>1. ErcClean(t) /\ t.nets = nets /\ t.comp = comp
  BY DEF Generates, Tables
<1>2. "J3" \in DOMAIN d.comp /\ Rails \subseteq DOMAIN d.nets
  BY DEF Generates, Raises, PivotRaises
<1>3. d.nets["GND"] \in Seq(Node) /\ d.nets["+3V3"] \in Seq(Node)
  BY <1>2 DEF NodeLists, Rails
<1>4. /\ {"GND", "+3V3", "MCLK", "MCLK_SRC"} \subseteq DOMAIN nets
      /\ nets["GND"] = PivotGround(d.nets["GND"])
      /\ nets["+3V3"] = << <<"J3", 1>> >> \o Drop(d.nets["+3V3"], {<<LDO, 5>>}) \o << MD0 >>
      /\ nets["MCLK"] = << <<"R_mclk", 2>>, <<"U2", 6>> >>
      /\ nets["MCLK_SRC"] = << <<"J4", 1>>, <<"R_mclk", 1>> >>
  BY PivotAssigns
<1>5. /\ LDO \notin DOMAIN comp
      /\ {"J3", "R_mclk"} \subseteq DOMAIN comp
      /\ 7 \notin comp["J3"].pins
  BY <1>2, PivotParts
<1> HIDE DEF t, nets, comp
<1>6. <<"J3", 1>> \in Range(nets["+3V3"]) /\ MD0 \in Range(nets["+3V3"])
  <2>1. PICK T : Drop(d.nets["+3V3"], {<<LDO, 5>>}) \in Seq(T)
    BY <1>3, DropFacts
  <2> QED BY <1>4, <2>1, AroundFacts
<1>7. <<"J4", 2>> \in Range(nets["GND"])
  <2>1. PICK T : Drop(d.nets["GND"], {<<LDO, 2>>, MD0}) \in Seq(T)
    BY <1>3, DropFacts
  <2> QED BY <1>4, <2>1, AroundFacts DEF PivotGround
<1>8. /\ Range(nets["MCLK"]) = {<<"R_mclk", 2>>, <<"U2", 6>>}
      /\ Range(nets["MCLK_SRC"]) = {<<"J4", 1>>, <<"R_mclk", 1>>}
  BY <1>4, PairFacts
<1>9. ASSUME NEW net \in DOMAIN nets, NEW n \in Range(nets[net])
      PROVE  /\ n \in Nodes(nets)
             /\ \E i \in DOMAIN nets[net] : <<net, i>> \in Places(nets)
                                            /\ NodeAt(nets, <<net, i>>) = n
  <2>1. PICK i \in DOMAIN nets[net] : nets[net][i] = n
    BY <1>9 DEF Range
  <2>2. <<net, i>> \in Places(nets) /\ NodeAt(nets, <<net, i>>) = n
    BY <2>1 DEF Places, NodeAt
  <2> QED BY <2>1, <2>2 DEF Nodes
<1>10. MD0 \notin Range(nets["GND"])
  <2> SUFFICES ASSUME MD0 \in Range(nets["GND"]) PROVE FALSE
    OBVIOUS
  <2>1. PICK i : <<"GND", i>> \in Places(nets) /\ NodeAt(nets, <<"GND", i>>) = MD0
    BY <1>4, <1>9
  <2>2. PICK j : <<"+3V3", j>> \in Places(nets) /\ NodeAt(nets, <<"+3V3", j>>) = MD0
    BY <1>4, <1>6, <1>9
  <2>3. <<"GND", i>> = <<"+3V3", j>>
    BY <1>1, <2>1, <2>2, Zenon DEF ErcClean, OneNet
  <2> QED BY <2>3
<1>11. <<"J3", 7>> \notin Nodes(nets)
  BY <1>1, <1>5 DEF ErcClean, PinsKnown
<1>12. \A n \in Nodes(nets) : n[1] # LDO
  BY <1>1, <1>5 DEF ErcClean, RefsKnown
<1>13. Pivoted(DOMAIN comp, nets)
  BY <1>5, <1>6, <1>7, <1>8, <1>10, <1>11, <1>12 DEF Pivoted
<1>14. Emit(t, "net") = [parts |-> [x \in DOMAIN t.comp |-> t.comp[x].fp], nets |-> t.nets]
  BY DEF Emit, EmitNetlist
<1> DEFINE says == Emit(t, "net")
<1>15. DOMAIN says.parts = DOMAIN comp /\ says.nets = nets
  BY <1>1, <1>14
<1> HIDE DEF says
<1>16. Whole(says).says = says
  BY DEF Whole
<1> QED BY <1>13, <1>15, <1>16 DEF Pivots, says, t

\* The parts and pins the tables and the edits speak of are nodes.
LEMMA TableNodes ==
  ASSUME NEW p \in {1, 2, 4, 5, 6, 7, 8, 10}, NEW r \in {"J3", "U1", "U2", "U4"}
  PROVE  <<r, p>> \in Node
<1>1. p \in Nat
  OBVIOUS
<1>2. r \in DOMAIN COMP
  BY DEF COMP
<1> QED BY <1>1, <1>2 DEF Node

\* The tables committed are tables.
LEMMA BaseLists == NodeLists(NETS)
<1>1. ASSUME NEW net \in DOMAIN NETS
      PROVE  NETS[net] \in Seq(Node)
  <2>1. \/ NETS[net] = << <<"J3", 2>>, <<"U1", 8>>, <<"U4", 1>> >>
        \/ NETS[net] = << <<"J3", 6>>, <<"U1", 4>>, <<"U4", 2>>, <<"U2", 10>> >>
        \/ NETS[net] = << <<"U4", 5>>, <<"U2", 4>> >>
        \/ NETS[net] = << <<"J3", 7>>, <<"U2", 6>> >>
    BY DEF NETS, Rails
  <2>2. \A a, b \in Node : << a, b >> \in Seq(Node)
    OBVIOUS
  <2>3. \A a, b, c \in Node : << a, b, c >> \in Seq(Node)
    OBVIOUS
  <2>4. \A a, b, c, d \in Node : << a, b, c, d >> \in Seq(Node)
    OBVIOUS
  <2>5. CASE NETS[net] = << <<"J3", 2>>, <<"U1", 8>>, <<"U4", 1>> >>
    <3>1. <<"J3", 2>> \in Node /\ <<"U1", 8>> \in Node /\ <<"U4", 1>> \in Node
      BY TableNodes
    <3> QED BY <2>3, <2>5, <3>1
  <2>6. CASE NETS[net] = << <<"J3", 6>>, <<"U1", 4>>, <<"U4", 2>>, <<"U2", 10>> >>
    <3>1. /\ <<"J3", 6>> \in Node /\ <<"U1", 4>> \in Node
          /\ <<"U4", 2>> \in Node /\ <<"U2", 10>> \in Node
      BY TableNodes
    <3> QED BY <2>4, <2>6, <3>1
  <2>7. CASE NETS[net] = << <<"U4", 5>>, <<"U2", 4>> >>
    <3>1. <<"U4", 5>> \in Node /\ <<"U2", 4>> \in Node
      BY TableNodes
    <3> QED BY <2>2, <2>7, <3>1
  <2>8. CASE NETS[net] = << <<"J3", 7>>, <<"U2", 6>> >>
    <3>1. <<"J3", 7>> \in Node /\ <<"U2", 6>> \in Node
      BY TableNodes
    <3> QED BY <2>2, <2>8, <3>1
  <2> QED BY <2>1, <2>5, <2>6, <2>7, <2>8
<1> QED BY <1>1 DEF NodeLists

\* So are the tables edited.
LEMMA EditedLists ==
  ASSUME NEW nets, NodeLists(nets), NEW edited \in EditedNets(nets)
  PROVE  NodeLists(edited)
<1>1. ASSUME NEW p \in Places(nets)
      PROVE  /\ p[1] \in DOMAIN nets /\ NodeAt(nets, p) \in Node
             /\ NodeLists(Without(nets, p)) /\ DOMAIN Without(nets, p) = DOMAIN nets
  <2>1. PICK net \in DOMAIN nets : p \in {net} \X DOMAIN nets[net]
    BY DEF Places
  <2>2. PICK i \in DOMAIN nets[net] : p = <<net, i>>
    BY <2>1
  <2>3. nets[net] \in Seq(Node) /\ i \in 1 .. Len(nets[net]) /\ nets[net][i] \in Node
    BY <2>2 DEF NodeLists
  <2>4. Except(nets[net], i) \in Seq(Node)
    <3>1. SubSeq(nets[net], 1, i - 1) \in Seq(Node)
      BY <2>3, SubSeqProperties
    <3>2. SubSeq(nets[net], i + 1, Len(nets[net])) \in Seq(Node)
      BY <2>3, SubSeqProperties
    <3> QED BY <3>1, <3>2 DEF Except
  <2>5. Without(nets, p) = [nets EXCEPT ![net] = Except(nets[net], i)]
    BY <2>2 DEF Without
  <2> QED BY <2>2, <2>3, <2>4, <2>5 DEF NodeLists, NodeAt
<1>2. ASSUME NEW lists, NodeLists(lists), NEW net \in DOMAIN lists, NEW n \in Node
      PROVE  NodeLists(With(lists, net, n))
  <2>1. lists[net] \in Seq(Node) /\ Append(lists[net], n) \in Seq(Node)
    BY <1>2 DEF NodeLists
  <2>2. With(lists, net, n) = [lists EXCEPT ![net] = Append(lists[net], n)]
    BY DEF With
  <2> QED BY <1>2, <2>1, <2>2 DEF NodeLists
<1>3. Moved \subseteq Node
  <2>1. <<"J3", 1>> \in Node /\ <<"J3", 7>> \in Node /\ MD0 \in Node /\ <<LDO, 1>> \in Node
    BY TableNodes DEF MD0, LDO
  <2> QED BY <2>1 DEF Moved
<1>4. CASE \E p \in Places(nets) : edited = Without(nets, p)
  BY <1>1, <1>4
<1>5. CASE \E net \in DOMAIN nets, n \in Moved : edited = With(nets, net, n)
  BY <1>2, <1>3, <1>5
<1>6. CASE \E p \in Places(nets), net \in DOMAIN nets :
             edited = With(Without(nets, p), net, NodeAt(nets, p))
  BY <1>1, <1>2, <1>6
<1>7. CASE \E net \in DOMAIN nets : edited = Restrict(nets, DOMAIN nets \ {net})
  BY <1>7 DEF Restrict, NodeLists
<1> QED BY <1>4, <1>5, <1>6, <1>7 DEF EditedNets

\* The netlist of revision B is left alone, cut short, or made from the tables.
LEMMA NetlistOfB ==
  ASSUME FlowInv, [Next]_vars
  PROVE  LET f == file["B"]["net"]
         IN  \/ f' = f \/ ~f'.whole
             \/ f' = Whole(Emit(Tables(design, "B"), "net")) /\ Generates(design, "B")
<1>1. /\ DOMAIN file = Revs /\ \A r \in Revs : file[r] = [b \in Artifacts |-> file[r][b]]
      /\ rev \in Revs /\ "B" \in Revs /\ "net" \in Artifacts
  BY DEF FlowInv, TypeOK, Revs, Artifacts
<1>2. ASSUME NEW a \in Artifacts, NEW f, file' = [file EXCEPT ![Dest(rev, a)][a] = f]
      PROVE  file'["B"]["net"] = IF rev = "B" /\ a = "net" THEN f ELSE file["B"]["net"]
  <2>1. file' = [file EXCEPT ![rev] = [file[rev] EXCEPT ![a] = f]]
    BY <1>2 DEF Dest
  <2>2. "net" \in DOMAIN file["B"]
    BY <1>1
  <2> QED BY <1>1, <2>1, <2>2
<1>3. CASE \E a \in Artifacts : Write(a)
  <2>1. PICK a \in Artifacts : Write(a)
    BY <1>3
  <2>2. Generates(design, rev)
    BY <2>1 DEF Write, FlowInv, RunInv
  <2>3. file'["B"]["net"] = IF rev = "B" /\ a = "net"
                            THEN Whole(Emit(Tables(design, rev), a)) ELSE file["B"]["net"]
    BY <1>2, <2>1 DEF Write
  <2> QED BY <2>2, <2>3
<1>4. CASE Interrupt
  <2>1. CASE UNCHANGED file
    BY <2>1
  <2>2. CASE /\ pc \in Artifacts
             /\ file' = [file EXCEPT ![Dest(rev, pc)][pc] = Cut(Emit(Tables(design, rev), pc))]
    BY <1>2, <2>2 DEF Cut
  <2> QED BY <1>4, <2>1, <2>2 DEF Interrupt
<1>5. CASE Restore
  BY <1>1, <1>5 DEF Restore
<1>6. CASE UNCHANGED file
  BY <1>6
<1>7. WriteNetlist \/ WriteSymbols \/ WriteBom => \E a \in Artifacts : Write(a)
  BY DEF WriteNetlist, WriteSymbols, WriteBom, Artifacts
<1> QED BY <1>3, <1>4, <1>5, <1>6, <1>7
      DEF Next, RunGen, RefuseGen, StartTest, Compare, Edit, vars

\* A rev-B netlist has the clock, the mode pins and the supply of the pivot,
\* whatever became of the tables it was made from.
THEOREM RevBIsPivoted == Spec => []PivotSurvivesEdits
<1> DEFINE Inv == DesignInv /\ Pivots(file["B"]["net"])
<1>1. Init => Inv
  <2> SUFFICES ASSUME Init PROVE Inv
    OBVIOUS
  <2>1. design = [comp |-> COMP, nets |-> NETS]
    BY DEF Init, Base
  <2>2. DesignInv
    BY <2>1, BaseLists DEF DesignInv
  <2>3. Generates(design, "B") /\ file["B"]["net"] = Whole(Emit(Tables(design, "B"), "net"))
    BY HeadGenerates DEF Init, Revs, Generated, Artifacts
  <2> QED BY <2>2, <2>3, ErcMakesPivoted DEF DesignInv
<1>2. ASSUME FlowInv, Inv, [Next]_vars
      PROVE  Inv'
  <2>1. Pivots(file["B"]["net"])'
    <3>1. CASE UNCHANGED file["B"]["net"]
      BY <1>2, <3>1 DEF Pivots
    <3>2. CASE ~file'["B"]["net"].whole
      BY <3>2 DEF Pivots
    <3>3. CASE /\ file'["B"]["net"] = Whole(Emit(Tables(design, "B"), "net"))
               /\ Generates(design, "B")
      <4>1. Pivots(Whole(Emit(Tables(design, "B"), "net")))
        BY <1>2, <3>3, ErcMakesPivoted DEF DesignInv
      <4> QED BY <3>3, <4>1 DEF Pivots
    <3> QED BY <1>2, <3>1, <3>2, <3>3, NetlistOfB
  <2>2. DesignInv'
    <3>1. CASE UNCHANGED design
      BY <1>2, <3>1 DEF DesignInv
    <3>2. CASE Edit
      <4>1. CASE \E nets \in EditedNets(design.nets) : design' = [design EXCEPT !.nets = nets]
        <5>1. PICK nets \in EditedNets(design.nets) : design' = [design EXCEPT !.nets = nets]
          BY <4>1
        <5>2. design' = [comp |-> design.comp, nets |-> nets]
          BY <1>2, <5>1 DEF DesignInv
        <5> QED BY <1>2, <5>2, EditedLists DEF DesignInv
      <4>2. CASE \E comp \in EditedComp(design.comp) : design' = [design EXCEPT !.comp = comp]
        <5>1. PICK comp \in EditedComp(design.comp) : design' = [design EXCEPT !.comp = comp]
          BY <4>2
        <5>2. design' = [comp |-> comp, nets |-> design.nets]
          BY <1>2, <5>1 DEF DesignInv
        <5> QED BY <1>2, <5>2 DEF DesignInv
      <4> QED BY <3>2, <4>1, <4>2 DEF Edit
    <3> QED BY <1>2, <3>1, <3>2 DEF Next, RunGen, RefuseGen, WriteNetlist, WriteSymbols,
          WriteBom, Write, Interrupt, StartTest, Compare, Restore, vars
  <2> QED BY <2>1, <2>2
<1>3. Inv => PivotSurvivesEdits
  BY DEF Pivots, PivotSurvivesEdits
<1> QED BY <1>1, <1>2, <1>3, FlowInvariant, PTL DEF Spec
=============================================================================
