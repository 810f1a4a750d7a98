----------------------------- MODULE BuildCache -----------------------------
(***************************************************************************)
(* scripts/build.sh as a cache: objects compiled in one run are reused by  *)
(* the next, and make cannot see that a library object depends on          *)
(* Config.mk or on the compiler.  The script keeps the tree coherent by    *)
(* cleaning it whenever it changes a DEFINE or finds a new compiler.  The  *)
(* targets modelled are the default one (the kernel) and --libs.           *)
(*                                                                         *)
(* Sizes are ranks: a kernel whose end has rank e fits a KERNEL_MAX_SIZE   *)
(* of rank k when e <= k.  Rank 0 is Circle's default (no DEFINE), 1 the   *)
(* 0x1000000 of the script, 2 a value raised by hand.                      *)
(*                                                                         *)
(* An operator named X_Bug... is the mutated form of X.                    *)
(***************************************************************************)
EXTENDS Integers

CONSTANTS
  Versions,      \* bound of the model: compiler versions, in order of release
  Interrupts,    \* may a run of the script be interrupted (^C, power)?
  MaxCode,       \* bound of the model: rank of the largest kernel
  CleanFails,    \* may make clean fail in src/? (|| true, build.sh:35)
  Edits          \* may a user raise KERNEL_MAX_SIZE in Config.mk by hand?

ASSUME BuildAssumption ==
  /\ Versions \in Nat \ {0}
  /\ MaxCode \in 1..2   \* the 4 MiB ring alone exceeds rank 0
  /\ Interrupts \in BOOLEAN
  /\ CleanFails \in BOOLEAN
  /\ Edits \in BOOLEAN

Libs == {"lib", "sound"}
Groups == Libs \union {"app"}
None == [tool |-> 0]      \* no object of the group exists

VARIABLES
  pc,         \* the script's next step; "idle": not running
  target,     \* "app" or "--libs"
  needClean,  \* NEED_CLEAN
  config,     \* Config.mk: [pi5, multi (lines defining it), kmax (rank)]
  tool,       \* version of the installed compiler
  stamp,      \* .toolchain-stamp (0: no such file)
  code,       \* rank of the end of the kernel the sources now give
  built,      \* per group of objects: what it was compiled from, and the
              \* compiler its dep files name (deps, 0: no dep files), or None
  disturbed,  \* history: a run was interrupted or the limit raised by hand,
              \* and the tree was not cleaned since
  spared      \* history: the last clean left the objects of src/ behind

vars == <<pc, target, needClean, config, tool, stamp, code, built, disturbed, spared>>

FreshConfig(pi5) == [pi5 |-> pi5, multi |-> 0, kmax |-> 0]

\* A checkout of Circle, configured for nothing, nothing built.
Init ==
  /\ pc = "idle" /\ target = "app" /\ needClean = FALSE
  /\ config = FreshConfig(FALSE)
  /\ tool = 1 /\ stamp = 0 /\ code = 1
  /\ built = [g \in Groups |-> None]
  /\ disturbed = FALSE /\ spared = FALSE

Compiled == [tool |-> tool, config |-> config, code |-> code, deps |-> tool]

\* clean_tree ignores every failure.  find and rm take the libraries' objects
\* even so; those of src/ go with make clean alone, their dep files anyway.
CleanTree ==
  /\ disturbed' = FALSE
  /\ \/ /\ built' = [g \in Groups |-> None]
        /\ spared' = FALSE
     \/ /\ CleanFails /\ built["app"] # None
        /\ built' = [g \in Groups |->
             IF g = "app" THEN [built[g] EXCEPT !.deps = 0] ELSE None]
        /\ spared' = TRUE

-----------------------------------------------------------------------------
(* scripts/build.sh *)

At(step) == pc = step

Start ==
  /\ At("idle")
  /\ target' \in {"app", "--libs"}
  /\ needClean' = FALSE
  /\ pc' = "configure"
  /\ UNCHANGED <<config, tool, stamp, code, built, disturbed, spared>>

\* 1. ./configure -r 5 -f, unless Config.mk is for a Pi 5 already; the clean
\* that follows is a step of its own.
Configure ==
  /\ At("configure")
  /\ IF config.pi5
     THEN pc' = "multi" /\ UNCHANGED config
     ELSE pc' = "reclean" /\ config' = FreshConfig(TRUE)
  /\ UNCHANGED <<target, needClean, tool, stamp, code, built, disturbed, spared>>

Reclean ==
  /\ At("reclean")
  /\ CleanTree
  /\ pc' = "multi"
  /\ UNCHANGED <<target, needClean, config, tool, stamp, code>>

\* 1b. ensure_define: append the line if Config.mk has none for the key.
Ensure_BugNoClean(key) ==
  /\ config' = [config EXCEPT ![key] = IF @ = 0 THEN 1 ELSE @]
  /\ UNCHANGED needClean
Ensure(key) ==
  IF config[key] = 0
  THEN config' = [config EXCEPT ![key] = 1] /\ needClean' = TRUE
  ELSE UNCHANGED <<config, needClean>>

EnsureDefine(key, next) ==
  /\ At(key)
  /\ Ensure(key)
  /\ pc' = next
  /\ UNCHANGED <<target, tool, stamp, code, built, disturbed, spared>>

\* 1c. The stamp; its absence alone asks for no clean.
NewCompiler_BugNoStamp == FALSE
NewCompiler == stamp # 0 /\ stamp # tool

Stamp ==
  /\ At("stamp")
  /\ needClean' = (needClean \/ NewCompiler)
  /\ stamp' = tool
  /\ pc' = "clean"
  /\ UNCHANGED <<target, config, tool, code, built, disturbed, spared>>

Clean ==
  /\ At("clean")
  /\ IF needClean THEN CleanTree ELSE UNCHANGED <<built, disturbed, spared>>
  /\ pc' = "lib"
  /\ UNCHANGED <<target, needClean, config, tool, stamp, code>>

\* make in one directory.  Dep files that name a compiler since replaced break
\* it, and set -e ends the script; objects that exist count as up to date,
\* but for those of src/, which depend on the sources and on Config.mk.  Dep
\* files that are missing are made anew, and then name headers of the present
\* compiler, which need not be newer than the objects.
BrokenDeps(g) == built[g] # None /\ built[g].deps \notin {0, tool}
UpToDate_BugNoConfigDep(g) ==
  built[g] # None /\ (g = "app" => built[g].code = code)
UpToDate(g) ==
  built[g] # None /\ (g = "app" => built[g].config = config /\ built[g].code = code)

Make(g, next) ==
  /\ At(g)
  /\ IF BrokenDeps(g)
     THEN pc' = "idle" /\ UNCHANGED built
     ELSE /\ pc' = next
          /\ built' = [built EXCEPT
                         ![g] = IF UpToDate(g) THEN [@ EXCEPT !.deps = tool] ELSE Compiled]
  /\ UNCHANGED <<target, needClean, config, tool, stamp, code, disturbed, spared>>

AfterLibs == IF target = "--libs" THEN "idle" ELSE "app"

\* 3b. The kernel must end below Config.mk's KERNEL_MAX_SIZE to be staged.
Fits_BugFileSize == TRUE    \* BSS is invisible in the size of the .img
Fits == built["app"].code <= config.kmax

Guard ==
  /\ At("guard")
  /\ pc' = IF Fits THEN "stage" ELSE "idle"
  /\ UNCHANGED <<target, needClean, config, tool, stamp, code, built, disturbed, spared>>

\* 4. cp kernel_2712.img sdcard/: what is staged is what is built.
Stage ==
  /\ At("stage")
  /\ pc' = "idle"
  /\ UNCHANGED <<target, needClean, config, tool, stamp, code, built, disturbed, spared>>

Script ==
  \/ Start \/ Configure \/ Reclean
  \/ EnsureDefine("multi", "kmax")
  \/ EnsureDefine("kmax", "stamp")
  \/ Stamp \/ Clean
  \/ Make("lib", "sound")
  \/ Make("sound", AfterLibs)
  \/ Make("app", "guard")
  \/ Guard \/ Stage

-----------------------------------------------------------------------------
(* The developer, between runs *)

\* brew upgrade
UpgradeTool ==
  /\ At("idle")
  /\ tool < Versions
  /\ tool' = tool + 1
  /\ UNCHANGED <<pc, target, needClean, config, stamp, code, built, disturbed, spared>>

\* ./configure for this or another board, by hand
HandConfigure ==
  /\ At("idle")
  /\ \E pi5 \in BOOLEAN : config' = FreshConfig(pi5)
  /\ UNCHANGED <<pc, target, needClean, tool, stamp, code, built, disturbed, spared>>

\* ./makeall by hand, for the samples that need more libraries (build.sh:7-9)
HandMakeall ==
  /\ At("idle")
  /\ \A g \in Libs : ~BrokenDeps(g)
  /\ built' = [g \in Groups |->
       IF g \in Libs /\ built[g] = None THEN Compiled ELSE built[g]]
  /\ UNCHANGED <<pc, target, needClean, config, tool, stamp, code, disturbed, spared>>

EditCode ==
  /\ At("idle")
  /\ code' \in 1..MaxCode
  /\ UNCHANGED <<pc, target, needClean, config, tool, stamp, built, disturbed, spared>>

\* "Raise KERNEL_MAX_SIZE in Config.mk [...] and rebuild" (build.sh:113)
RaiseLimit ==
  /\ Edits
  /\ At("idle")
  /\ config.kmax = 1
  /\ config' = [config EXCEPT !.kmax = 2]
  /\ disturbed' = TRUE
  /\ UNCHANGED <<pc, target, needClean, tool, stamp, code, built, spared>>

Interrupt ==
  /\ Interrupts
  /\ ~At("idle")
  /\ pc' = "idle"
  /\ disturbed' = TRUE
  /\ UNCHANGED <<target, needClean, config, tool, stamp, code, built, spared>>

Developer ==
  UpgradeTool \/ HandConfigure \/ HandMakeall \/ EditCode \/ RaiseLimit \/ Interrupt

Next == Script \/ Developer

Spec == Init /\ [][Next]_vars

-----------------------------------------------------------------------------
(* Properties *)

Configs == [pi5 : BOOLEAN, multi : 0..1, kmax : 0..2]
Objects == [tool : 1..Versions, config : Configs, code : 1..MaxCode, deps : 0..Versions]

\* Config.mk defines each key at most once, and the rest has its type.
TypeOK ==
  /\ pc \in {"idle", "configure", "reclean", "multi", "kmax", "stamp", "clean",
             "lib", "sound", "app", "guard", "stage"}
  /\ target \in {"app", "--libs"}
  /\ needClean \in BOOLEAN
  /\ config \in Configs
  /\ tool \in 1..Versions /\ stamp \in 0..Versions /\ code \in 1..MaxCode
  /\ built \in [Groups -> Objects \union {None}]
  /\ disturbed \in BOOLEAN /\ spared \in BOOLEAN

\* Every object of a staged image, libraries included, was compiled under one
\* Config.mk, which has the multi-core DEFINE (build.sh:25-31; "must cover the
\* LIBS", src/Makefile:4-6), and by the compiler installed.  Only a make clean
\* that failed unnoticed (build.sh:35) leaves objects of another compiler.
StagedCoherent ==
  At("stage") =>
    /\ \A g \in Libs : built[g].config = built["app"].config /\ built[g].tool = tool
    /\ spared \/ built["app"].tool = tool
    /\ built["app"].config.pi5
    /\ built["app"].config.multi = 1

\* A staged kernel ends below the stacks, which are where the KERNEL_MAX_SIZE
\* compiled into the libraries puts them (build.sh:100-103).
StagedFits ==
  At("stage") => \A g \in Libs : built["app"].code <= built[g].config.kmax

\* Both hold in a tree that was not disturbed, and any run that cleans the
\* tree makes up for every disturbance before it, even if src/ is spared.
CoherentUnlessDisturbed == ~disturbed => StagedCoherent
FitsUnlessDisturbed == ~disturbed => StagedFits

\* No make of the script meets dep files of a compiler since replaced, unless
\* the tree was disturbed: the stamp has detected it and the tree was cleaned
\* (build.sh:67-69), of dep files even where make clean fails (build.sh:36).
NoStaleDeps == ~disturbed => \A g \in Groups : At(g) => ~BrokenDeps(g)

\* Even after interrupted runs and edits: the limit the guard reads from
\* Config.mk is the one the kernel it checks was compiled with
\* (src/Makefile:17-20).
GuardReadsItsLimit ==
  pc \in {"guard", "stage"} => /\ built["app"].config = config
                              /\ built["app"].code = code

\* The inductive invariant.  A Config.mk is ready when the script has nothing
\* to add to it.
Ready == config.pi5 /\ config.multi = 1 /\ config.kmax >= 1
AllConfig == \A g \in Libs : built[g] # None => built[g].config = config
AllTool ==
  \A g \in Groups : built[g] # None =>
    /\ built[g].deps \in {0, tool}
    /\ built[g].tool = tool \/ (g = "app" /\ spared)

\* Where the script is, whatever happened before.
StepInv ==
  /\ stamp <= tool
  /\ pc = "reclean" => config = FreshConfig(TRUE)
  /\ pc \in {"configure", "reclean", "multi"} => ~needClean
  /\ pc \notin {"idle", "configure", "reclean"} => config.pi5
  /\ pc \notin {"idle", "configure", "reclean", "multi"} => config.multi = 1
  /\ pc \notin {"idle", "configure", "reclean", "multi", "kmax"} => config.kmax >= 1
  /\ pc \in {"clean", "lib", "sound", "app", "guard", "stage"} => stamp = tool
  /\ pc \in {"sound", "app", "guard", "stage"} => built["lib"] # None
  /\ pc \in {"app", "guard", "stage"} => built["sound"] # None
  /\ pc \in {"guard", "stage"} => built["app"] # None
  /\ pc = "stage" => Fits
  /\ GuardReadsItsLimit

\* In a tree that was not disturbed, what is built fits the configuration and
\* the compiler unless a clean is due.
CacheInv ==
  ~disturbed =>
    \/ needClean /\ pc \in {"kmax", "stamp", "clean"}
    \/ /\ Ready => AllConfig
       /\ Ready /\ stamp = tool => AllTool
       /\ stamp = 0 => config.multi = 0
BuildInv == TypeOK /\ StepInv /\ CacheInv
=============================================================================
