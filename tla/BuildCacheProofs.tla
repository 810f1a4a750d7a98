-------------------------- MODULE BuildCacheProofs --------------------------
(***************************************************************************)
(* Proofs about BuildCache, for any number of compiler versions, any size  *)
(* of kernel within the ranks, and with interruptions and edits of the     *)
(* limit at any time.                                                      *)
(***************************************************************************)
EXTENDS BuildCache, TLAPS

\* What has been compiled is there, as it was compiled.
LEMMA CompiledFacts ==
  ASSUME TypeOK
  PROVE  /\ Compiled \in Objects /\ Compiled # None
         /\ Compiled.config = config /\ Compiled.tool = tool /\ Compiled.code = code
         /\ Compiled.deps = tool
<1>1. Compiled = [tool |-> tool, config |-> config, code |-> code, deps |-> tool]
  BY DEF Compiled
<1>2. /\ tool # 0 /\ tool \in 1..Versions /\ tool \in 0..Versions
      /\ config \in Configs /\ code \in 1..MaxCode
  BY DEF TypeOK
<1>3. Compiled.tool # None.tool
  BY <1>1, <1>2 DEF None
<1> QED BY <1>1, <1>2, <1>3 DEF Objects

\* An object without its dep files is still the object it was.
LEMMA DepsFacts ==
  ASSUME NEW o \in Objects, NEW v \in 0..Versions
  PROVE  /\ [o EXCEPT !.deps = v] \in Objects
         /\ [o EXCEPT !.deps = v] # None
         /\ [o EXCEPT !.deps = v].deps = v /\ [o EXCEPT !.deps = v].tool = o.tool
         /\ [o EXCEPT !.deps = v].config = o.config /\ [o EXCEPT !.deps = v].code = o.code
<1>1. /\ [o EXCEPT !.deps = v] \in Objects
      /\ [o EXCEPT !.deps = v].deps = v /\ [o EXCEPT !.deps = v].tool = o.tool
      /\ [o EXCEPT !.deps = v].config = o.config /\ [o EXCEPT !.deps = v].code = o.code
  BY DEF Objects
<1>2. o.tool # 0 /\ None.tool = 0
  BY DEF Objects, None
<1> QED BY <1>1, <1>2

\* A clean leaves nothing to be stale but what make clean spared in src/, and
\* nothing disturbed.
LEMMA CleanFacts ==
  ASSUME TypeOK, CleanTree
  PROVE  /\ built' \in [Groups -> Objects \union {None}]
         /\ disturbed' = FALSE /\ spared' \in BOOLEAN
         /\ AllConfig' /\ AllTool'
<1>1. CASE built' = [g \in Groups |-> None] /\ spared' = FALSE
  BY <1>1 DEF CleanTree, AllConfig, AllTool, Groups
<1>2. CASE /\ built["app"] # None /\ spared' = TRUE
           /\ built' = [g \in Groups |->
                IF g = "app" THEN [built[g] EXCEPT !.deps = 0] ELSE None]
  <2>1. built["app"] \in Objects /\ 0 \in 0..Versions /\ "app" \in Groups
    BY <1>2, BuildAssumption DEF TypeOK, Groups, BuildAssumption
  <2>2. /\ built'["app"] \in Objects /\ built'["app"].deps = 0
        /\ \A g \in Groups : g # "app" => built'[g] = None
    BY <1>2, <2>1, DepsFacts
  <2>3. \A g \in Libs : built'[g] = None
    BY <2>2 DEF Groups, Libs
  <2>4. built' \in [Groups -> Objects \union {None}]
    BY <1>2, <2>2
  <2> QED BY <1>2, <2>2, <2>3, <2>4 DEF CleanTree, AllConfig, AllTool
<1> QED BY <1>1, <1>2 DEF CleanTree

-----------------------------------------------------------------------------
(* Steps of the script *)

\* From the start of a run to the stamp.
LEMMA ConfigureStep ==
  ASSUME BuildInv, Start \/ Configure
  PROVE  BuildInv'
<1>1. TypeOK /\ StepInv /\ CacheInv
  BY DEF BuildInv
<1>2. FreshConfig(TRUE) \in Configs
  BY DEF FreshConfig, Configs
<1>3. TypeOK'
  BY <1>1, <1>2 DEF Start, Configure, At, TypeOK
<1>4. CASE Start
  BY <1>1, <1>3, <1>4 DEF Start, At, BuildInv, StepInv, CacheInv, AllConfig, AllTool, Ready,
    GuardReadsItsLimit, Fits
<1>5. CASE Configure /\ config.pi5
  BY <1>1, <1>3, <1>5 DEF Configure, At, BuildInv, StepInv, CacheInv, AllConfig, AllTool, Ready,
    GuardReadsItsLimit, Fits
<1>6. CASE Configure /\ ~config.pi5
  <2>1. /\ pc' = "reclean" /\ config' = FreshConfig(TRUE)
        /\ UNCHANGED <<stamp, tool, needClean>>
    BY <1>6 DEF Configure, At
  <2>2. ~needClean /\ stamp <= tool
    BY <1>1, <1>6 DEF Configure, At, StepInv
  <2>3. config'.multi = 0
    BY <2>1 DEF FreshConfig
  <2>4. config'.multi # 1
    BY <2>3
  <2>5. StepInv'
    BY <2>1, <2>2 DEF StepInv, GuardReadsItsLimit
  <2>6. CacheInv'
    <3>1. ~Ready'
      BY <2>4 DEF Ready
    <3> QED BY <2>3, <3>1 DEF CacheInv
  <2> QED BY <1>3, <2>5, <2>6 DEF BuildInv
<1> QED BY <1>4, <1>5, <1>6

\* The clean after configure.
LEMMA RecleanStep ==
  ASSUME BuildInv, Reclean
  PROVE  BuildInv'
<1>1. TypeOK /\ StepInv /\ pc = "reclean" /\ pc' = "multi" /\ CleanTree
      /\ UNCHANGED <<target, needClean, config, tool, stamp, code>>
  BY DEF BuildInv, Reclean, At
<1>2. config = FreshConfig(TRUE)
  BY <1>1 DEF StepInv
<1>3. config.pi5 /\ config.multi = 0
  BY <1>2 DEF FreshConfig
<1>4. AllConfig' /\ AllTool' /\ TypeOK'
  BY <1>1, CleanFacts DEF TypeOK
<1> QED BY <1>1, <1>3, <1>4 DEF BuildInv, StepInv, CacheInv, GuardReadsItsLimit

\* ensure_define for either key.
LEMMA EnsureStep ==
  ASSUME BuildInv, EnsureDefine("multi", "kmax") \/ EnsureDefine("kmax", "stamp")
  PROVE  BuildInv'
<1>1. PICK key \in {"multi", "kmax"} :
        EnsureDefine(key, IF key = "multi" THEN "kmax" ELSE "stamp")
  OBVIOUS
<1>2. /\ TypeOK /\ StepInv /\ CacheInv /\ config \in Configs
      /\ pc = key /\ pc' = IF key = "multi" THEN "kmax" ELSE "stamp"
      /\ UNCHANGED <<target, tool, stamp, code, built, disturbed, spared>>
      /\ Ensure(key)
  BY <1>1 DEF EnsureDefine, At, BuildInv, TypeOK
<1>3. CASE config[key] = 0
  <2>1. config' = [config EXCEPT ![key] = 1] /\ needClean' = TRUE
    BY <1>2, <1>3 DEF Ensure
  <2>2. /\ config' \in Configs /\ config'.pi5 = config.pi5
        /\ config'.multi = IF key = "multi" THEN 1 ELSE config.multi
        /\ config'.kmax = IF key = "kmax" THEN 1 ELSE config.kmax
    BY <1>2, <2>1 DEF Configs
  <2>3. TypeOK'
    BY <1>2, <2>1, <2>2 DEF TypeOK
  <2>4. StepInv'
    BY <1>2, <2>1, <2>2 DEF StepInv, GuardReadsItsLimit
  <2>5. CacheInv'
    BY <1>2, <2>1 DEF CacheInv
  <2> QED BY <2>3, <2>4, <2>5 DEF BuildInv
<1>4. CASE config[key] # 0
  <2>1. UNCHANGED <<config, needClean>>
    BY <1>2, <1>4 DEF Ensure
  <2>2. (key = "multi" => config.multi = 1) /\ (key = "kmax" => config.kmax >= 1)
    BY <1>2, <1>4 DEF Configs
  <2>3. TypeOK'
    BY <1>2, <2>1 DEF TypeOK
  <2>4. StepInv'
    BY <1>2, <2>1, <2>2 DEF StepInv, GuardReadsItsLimit
  <2>5. CacheInv'
    BY <1>2, <2>1 DEF CacheInv, AllConfig, AllTool, Ready
  <2> QED BY <2>3, <2>4, <2>5 DEF BuildInv
<1> QED BY <1>3, <1>4

\* The stamp: a new compiler asks for a clean, and a tree without a stamp has
\* asked for one already.
LEMMA StampStep ==
  ASSUME BuildInv, Stamp
  PROVE  BuildInv'
<1>1. /\ TypeOK /\ StepInv /\ CacheInv
      /\ pc = "stamp" /\ pc' = "clean" /\ stamp' = tool /\ needClean' = (needClean \/ NewCompiler)
      /\ UNCHANGED <<target, config, tool, code, built, disturbed, spared>>
  BY DEF BuildInv, Stamp, At
<1>2. TypeOK'
  BY <1>1 DEF TypeOK
<1>3. StepInv'
  BY <1>1 DEF StepInv, GuardReadsItsLimit, TypeOK
<1>4. CacheInv'
  <2> SUFFICES ASSUME ~disturbed, ~needClean, ~NewCompiler
               PROVE  AllConfig' /\ AllTool' /\ stamp' # 0
    BY <1>1 DEF CacheInv
  <2>1. config.multi = 1 /\ Ready
    BY <1>1 DEF StepInv, Ready
  <2>2. AllConfig /\ stamp # 0 /\ (stamp = tool => AllTool)
    BY <1>1, <2>1 DEF CacheInv
  <2>3. stamp = tool
    BY <2>2 DEF NewCompiler
  <2> QED BY <1>1, <2>2, <2>3 DEF AllConfig, AllTool
<1> QED BY <1>2, <1>3, <1>4 DEF BuildInv

\* What was due is cleaned.
LEMMA CleanStep ==
  ASSUME BuildInv, Clean
  PROVE  BuildInv'
<1>1. /\ TypeOK /\ StepInv /\ CacheInv /\ pc = "clean" /\ pc' = "lib"
      /\ UNCHANGED <<target, needClean, config, tool, stamp, code>>
  BY DEF BuildInv, Clean, At
<1>2. StepInv'
  BY <1>1 DEF StepInv, GuardReadsItsLimit
<1>3. stamp # 0
  BY <1>1 DEF StepInv, TypeOK
<1>4. CASE needClean
  <2>1. CleanTree
    BY <1>4 DEF Clean
  <2> QED BY <1>1, <1>2, <1>3, <2>1, CleanFacts DEF BuildInv, TypeOK, CacheInv
<1>5. CASE ~needClean
  <2>1. UNCHANGED <<built, disturbed, spared>>
    BY <1>5 DEF Clean
  <2> QED BY <1>1, <1>2, <1>5, <2>1 DEF BuildInv, TypeOK, CacheInv, AllConfig, AllTool, Ready
<1> QED BY <1>4, <1>5

\* make in one directory: it stops at stale dep files, or leaves the group
\* built; in an undisturbed tree there are none.
LEMMA MakeFacts ==
  ASSUME BuildInv, NEW g \in Groups, NEW next, Make(g, next)
  PROVE  /\ built' \in [Groups -> Objects \union {None}]
         /\ \A h \in Groups : h # g => built'[h] = built[h]
         /\ pc' \in {"idle", next}
         /\ pc' # "idle" => built'[g] # None
         /\ pc' # "idle" /\ g = "app" => built'[g].config = config /\ built'[g].code = code
         /\ AllConfig => AllConfig'
         /\ AllTool => AllTool'
<1>1. TypeOK /\ built \in [Groups -> Objects \union {None}]
  BY DEF BuildInv, TypeOK
<1>2. /\ Compiled \in Objects /\ Compiled # None
      /\ Compiled.config = config /\ Compiled.tool = tool /\ Compiled.code = code
      /\ Compiled.deps = tool /\ tool \in 0..Versions
  BY <1>1, CompiledFacts DEF TypeOK
<1> HIDE DEF Compiled
<1>3. UNCHANGED <<config, tool, spared>>
  BY DEF Make
<1>4. CASE pc' = "idle" /\ UNCHANGED built
  BY <1>1, <1>3, <1>4 DEF AllConfig, AllTool
<1>5. CASE pc' = next /\ UpToDate(g) /\ built' = [built EXCEPT ![g] = [@ EXCEPT !.deps = tool]]
  <2>1. built[g] \in Objects /\ built[g] # None
    BY <1>1, <1>5 DEF UpToDate
  <2>2. /\ built'[g] \in Objects /\ built'[g] # None /\ built'[g].deps = tool
        /\ built'[g].tool = built[g].tool /\ built'[g].config = built[g].config
        /\ built'[g].code = built[g].code
        /\ \A h \in Groups : h # g => built'[h] = built[h]
    BY <1>1, <1>2, <1>5, <2>1, DepsFacts
  <2>3. built' \in [Groups -> Objects \union {None}]
    BY <1>1, <1>5, <2>2
  <2>4. (AllConfig => AllConfig') /\ (AllTool => AllTool')
    BY <1>3, <2>1, <2>2 DEF AllConfig, AllTool, Groups
  <2> QED BY <1>5, <2>1, <2>2, <2>3, <2>4 DEF UpToDate
<1>6. CASE pc' = next /\ built' = [built EXCEPT ![g] = Compiled]
  BY <1>1, <1>2, <1>3, <1>6 DEF AllConfig, AllTool, Groups
<1> QED BY <1>4, <1>5, <1>6 DEF Make

\* The three makes.
LEMMA MakeStep ==
  ASSUME BuildInv,
         Make("lib", "sound") \/ Make("sound", AfterLibs) \/ Make("app", "guard")
  PROVE  BuildInv'
<1>1. PICK g \in Groups :
        /\ Make(g, IF g = "lib" THEN "sound" ELSE IF g = "sound" THEN AfterLibs ELSE "guard")
        /\ pc = g
  BY DEF Groups, Libs, Make, At
<1> DEFINE next == IF g = "lib" THEN "sound" ELSE IF g = "sound" THEN AfterLibs ELSE "guard"
<1>2. /\ TypeOK /\ StepInv /\ CacheInv
      /\ UNCHANGED <<target, needClean, config, tool, stamp, code, disturbed, spared>>
  BY <1>1 DEF BuildInv, Make
<1>3. /\ built' \in [Groups -> Objects \union {None}]
      /\ \A h \in Groups : h # g => built'[h] = built[h]
      /\ pc' \in {"idle", next}
      /\ pc' # "idle" => built'[g] # None
      /\ pc' # "idle" /\ g = "app" => built'[g].config = config /\ built'[g].code = code
      /\ AllConfig => AllConfig'
      /\ AllTool => AllTool'
  BY <1>1, MakeFacts
<1>4. /\ g = "lib" => pc' \in {"idle", "sound"}
      /\ g = "sound" => pc' \in {"idle", "app"}
      /\ g = "app" => pc' \in {"idle", "guard"}
      /\ g \in {"lib", "sound", "app"}
  BY <1>3 DEF AfterLibs, Groups, Libs
<1> HIDE DEF next
<1>5. {"lib", "sound", "app"} \subseteq Groups
  BY DEF Groups, Libs
<1>6. TypeOK'
  BY <1>2, <1>3, <1>4 DEF TypeOK
<1>7. StepInv'
  <2>1. stamp <= tool /\ config.pi5 /\ config.multi = 1 /\ config.kmax >= 1 /\ stamp = tool
    BY <1>1, <1>2, <1>4 DEF StepInv
  <2>2. pc' \in {"sound", "app", "guard"} => built'["lib"] # None
    BY <1>1, <1>2, <1>3, <1>4, <1>5 DEF StepInv
  <2>3. pc' \in {"app", "guard"} => built'["sound"] # None
    BY <1>1, <1>2, <1>3, <1>4, <1>5 DEF StepInv
  <2>4. pc' = "guard" => /\ built'["app"] # None
                         /\ built'["app"].config = config /\ built'["app"].code = code
    BY <1>3, <1>4
  <2> QED BY <1>2, <1>4, <2>1, <2>2, <2>3, <2>4 DEF StepInv, GuardReadsItsLimit
<1>8. CacheInv'
  BY <1>1, <1>2, <1>3, <1>4 DEF CacheInv, Ready
<1> QED BY <1>6, <1>7, <1>8 DEF BuildInv

\* The guard and the staging touch no object.
LEMMA GuardStep ==
  ASSUME BuildInv, Guard \/ Stage
  PROVE  BuildInv'
<1>1. /\ TypeOK /\ StepInv /\ CacheInv /\ pc \in {"guard", "stage"} /\ pc' \in {"idle", "stage"}
      /\ pc' = "stage" => pc = "guard" /\ Fits
      /\ UNCHANGED <<target, needClean, config, tool, stamp, code, built, disturbed, spared>>
  BY DEF BuildInv, Guard, Stage, At
<1> QED BY <1>1 DEF BuildInv, TypeOK, StepInv, CacheInv, AllConfig, AllTool, Ready, Fits,
      GuardReadsItsLimit

-----------------------------------------------------------------------------
(* Steps of the developer *)

\* A make of the libraries by hand adds objects of the present only.
LEMMA MakeallStep ==
  ASSUME BuildInv, HandMakeall
  PROVE  BuildInv'
<1>1. /\ TypeOK /\ StepInv /\ CacheInv /\ pc = "idle"
      /\ UNCHANGED <<pc, target, needClean, config, tool, stamp, code, disturbed, spared>>
  BY DEF BuildInv, HandMakeall, At
<1>2. /\ Compiled \in Objects /\ Compiled.config = config /\ Compiled.tool = tool
      /\ Compiled.deps = tool
  BY <1>1, CompiledFacts
<1>3. \A g \in Groups : built'[g] = built[g] \/ built'[g] = Compiled
  BY DEF HandMakeall
<1>4. built' \in [Groups -> Objects \union {None}]
  BY <1>1, <1>2 DEF HandMakeall, TypeOK
<1>5. (AllConfig => AllConfig') /\ (AllTool => AllTool')
  BY <1>1, <1>2, <1>3 DEF AllConfig, AllTool, Groups
<1> QED BY <1>1, <1>4, <1>5 DEF BuildInv, TypeOK, StepInv, CacheInv, Ready, GuardReadsItsLimit

\* Whatever else happens between runs, or to one.
LEMMA DeveloperStep ==
  ASSUME BuildInv, Developer
  PROVE  BuildInv'
<1>1. TypeOK /\ StepInv /\ CacheInv
  BY DEF BuildInv
<1>2. CASE UpgradeTool
  <2>1. pc = "idle" /\ tool' = tool + 1 /\ tool' \in 1..Versions /\ stamp <= tool /\ tool \in Nat
        /\ stamp \in Nat
        /\ UNCHANGED <<pc, target, needClean, config, stamp, code, built, disturbed, spared>>
    BY <1>1, <1>2, BuildAssumption DEF BuildAssumption, UpgradeTool, At, TypeOK, StepInv
  <2>2. stamp' # tool' /\ stamp' <= tool'
    BY <2>1
  <2>3. TypeOK'
    BY <1>1, <2>1 DEF TypeOK
  <2>4. StepInv'
    BY <1>1, <2>1, <2>2 DEF StepInv, GuardReadsItsLimit
  <2>5. CacheInv'
    BY <1>1, <2>1, <2>2 DEF CacheInv, AllConfig, Ready
  <2> QED BY <2>3, <2>4, <2>5 DEF BuildInv
<1>3. CASE HandConfigure
  <2>1. /\ pc = "idle" /\ config' \in Configs /\ config'.multi = 0
        /\ UNCHANGED <<pc, target, needClean, tool, stamp, code, built, disturbed, spared>>
    BY <1>3 DEF HandConfigure, At, FreshConfig, Configs
  <2> QED BY <1>1, <2>1 DEF BuildInv, TypeOK, StepInv, CacheInv, Ready, GuardReadsItsLimit
<1>4. CASE HandMakeall
  BY <1>4, MakeallStep
<1>5. CASE EditCode
  BY <1>1, <1>5 DEF EditCode, At, BuildInv, TypeOK, StepInv, CacheInv, AllConfig, AllTool, Ready,
    GuardReadsItsLimit
<1>6. CASE RaiseLimit
  <2>1. /\ pc = "idle" /\ disturbed' = TRUE /\ config' = [config EXCEPT !.kmax = 2]
        /\ UNCHANGED <<pc, target, needClean, tool, stamp, code, built, spared>>
    BY <1>6 DEF RaiseLimit, At
  <2>2. config' \in Configs
    BY <1>1, <2>1 DEF TypeOK, Configs
  <2> QED BY <1>1, <2>1, <2>2 DEF BuildInv, TypeOK, StepInv, CacheInv, GuardReadsItsLimit
<1>7. CASE Interrupt
  <2>1. /\ pc' = "idle" /\ disturbed' = TRUE
        /\ UNCHANGED <<target, needClean, config, tool, stamp, code, built, spared>>
    BY <1>7 DEF Interrupt
  <2> QED BY <1>1, <2>1 DEF BuildInv, TypeOK, StepInv, CacheInv, GuardReadsItsLimit
<1> QED BY <1>2, <1>3, <1>4, <1>5, <1>6, <1>7 DEF Developer

-----------------------------------------------------------------------------
\* The inductive invariant holds in every reachable state.
THEOREM BuildInvariant == Spec => []BuildInv
<1>1. Init => BuildInv
  <2> SUFFICES ASSUME Init PROVE BuildInv
    OBVIOUS
  <2>1. /\ pc = "idle" /\ stamp = 0 /\ tool = 1 /\ code = 1 /\ needClean = FALSE
        /\ disturbed = FALSE /\ spared = FALSE /\ target = "app"
        /\ config = FreshConfig(FALSE) /\ built = [g \in Groups |-> None]
    BY DEF Init
  <2>2. config \in Configs /\ config.multi = 0
    BY <2>1 DEF FreshConfig, Configs
  <2>3. built \in [Groups -> Objects \union {None}]
    BY <2>1
  <2>4. 1 \in 1..Versions /\ 1 \in 1..MaxCode /\ 0 \in 0..Versions
    BY BuildAssumption DEF BuildAssumption
  <2>5. needClean \in BOOLEAN /\ disturbed \in BOOLEAN /\ spared \in BOOLEAN
    BY <2>1
  <2>6. TypeOK
    BY <2>1, <2>2, <2>3, <2>4, <2>5 DEF TypeOK
  <2>7. StepInv
    BY <2>1, <2>2 DEF StepInv, GuardReadsItsLimit
  <2>8. CacheInv
    <3>1. AllConfig /\ AllTool
      BY <2>1 DEF AllConfig, AllTool, Groups
    <3> QED BY <2>1, <2>2, <3>1 DEF CacheInv
  <2> QED BY <2>6, <2>7, <2>8 DEF BuildInv
<1>2. ASSUME BuildInv, [Next]_vars
      PROVE  BuildInv'
  <2>1. CASE UNCHANGED vars
    <3>1. TypeOK'
      BY <1>2, <2>1 DEF vars, BuildInv, TypeOK
    <3>2. StepInv'
      BY <1>2, <2>1 DEF vars, BuildInv, StepInv, Fits, GuardReadsItsLimit
    <3>3. CacheInv'
      BY <1>2, <2>1 DEF vars, BuildInv, CacheInv, AllConfig, AllTool, Ready
    <3> QED BY <3>1, <3>2, <3>3 DEF BuildInv
  <2> QED BY <1>2, <2>1, ConfigureStep, RecleanStep, EnsureStep, StampStep, CleanStep, MakeStep,
        GuardStep, DeveloperStep DEF Next, Script
<1> QED BY <1>1, <1>2, PTL DEF Spec

\* Config.mk defines each key once at most, and every object is of a compiler
\* and a configuration there was.
THEOREM TypeCorrect == Spec => []TypeOK
<1>1. BuildInv => TypeOK
  BY DEF BuildInv
<1> QED BY <1>1, BuildInvariant, PTL

\* In a tree that was not disturbed, every group the script is about to stage
\* is of the compiler and the Config.mk it runs with.
LEMMA StagedFacts ==
  ASSUME BuildInv, ~disturbed, pc = "stage"
  PROVE  /\ Ready /\ Fits
         /\ \A g \in Groups : built[g].config = config
         /\ \A g \in Libs : built[g].tool = tool
         /\ spared \/ built["app"].tool = tool
<1>1. TypeOK /\ StepInv /\ CacheInv
  BY DEF BuildInv
<1>2. Ready /\ stamp = tool /\ Fits /\ \A g \in Groups : built[g] # None
  BY <1>1 DEF StepInv, Ready, Groups, Libs
<1>3. AllConfig /\ AllTool
  BY <1>1, <1>2 DEF CacheInv
<1>4. built["app"].config = config
  BY <1>1 DEF StepInv, GuardReadsItsLimit
<1> QED BY <1>2, <1>3, <1>4 DEF AllConfig, AllTool, Groups, Libs

\* What the script stages is of one Config.mk and, but for what make clean
\* spared, of one compiler, unless a run was interrupted or the limit raised
\* since the last clean.
THEOREM StagedImageIsCoherent == Spec => []CoherentUnlessDisturbed
<1>1. BuildInv => CoherentUnlessDisturbed
  <2> SUFFICES ASSUME BuildInv, ~disturbed, pc = "stage" PROVE StagedCoherent
    BY DEF CoherentUnlessDisturbed, StagedCoherent, At
  <2> QED BY StagedFacts DEF StagedCoherent, Ready, Groups
<1> QED BY <1>1, BuildInvariant, PTL

\* And it ends below the stacks where its libraries put them: the limit the
\* guard compared it with is the one they were compiled with.
THEOREM StagedImageFits == Spec => []FitsUnlessDisturbed
<1>1. BuildInv => FitsUnlessDisturbed
  <2> SUFFICES ASSUME BuildInv, ~disturbed, pc = "stage" PROVE StagedFits
    BY DEF FitsUnlessDisturbed, StagedFits, At
  <2> QED BY StagedFacts DEF StagedFits, Fits, Groups
<1> QED BY <1>1, BuildInvariant, PTL

\* The script's makes meet no dep file of a replaced compiler in a tree that
\* was not disturbed.
THEOREM MakesMeetNoStaleDeps == Spec => []NoStaleDeps
<1>1. BuildInv => NoStaleDeps
  <2> SUFFICES ASSUME BuildInv, ~disturbed, NEW g \in Groups, pc = g
               PROVE  ~BrokenDeps(g)
    BY DEF NoStaleDeps, At
  <2>1. StepInv /\ CacheInv /\ g \in {"lib", "sound", "app"}
    BY DEF BuildInv, Groups, Libs
  <2>2. Ready /\ stamp = tool
    BY <2>1 DEF StepInv, Ready
  <2>3. AllTool
    BY <2>1, <2>2 DEF CacheInv
  <2> QED BY <2>3 DEF AllTool, BrokenDeps
<1> QED BY <1>1, BuildInvariant, PTL

\* Whatever was interrupted or edited, the guard compares a kernel with the
\* limit that kernel was compiled with.
THEOREM GuardReadsCompiledLimit == Spec => []GuardReadsItsLimit
<1>1. BuildInv => GuardReadsItsLimit
  BY DEF BuildInv, StepInv
<1> QED BY <1>1, BuildInvariant, PTL
=============================================================================
