----------------------- MODULE ExecutableInspections -----------------------
(***************************************************************************)
(* The inspections and stagings of the chain of repository executables     *)
(* (repository_executable_*.py), each as the sequence of the looks it      *)
(* takes: at a lease, at a file by its path, at the registration and the   *)
(* directories searched.  A function of the source is a sequence, and a    *)
(* call of it is where its sequence stands in another.                     *)
(*                                                                         *)
(* The chain has three links.  The executables of the verification         *)
(* commands are resolved and staged (the source lease); the interpreters,  *)
(* loaders and libraries that those name are resolved and staged (the      *)
(* target lease); and so are what the targets name in turn (the nested     *)
(* lease).  What a look finds and when it fails is ExecutableChain's.      *)
(***************************************************************************)
EXTENDS ExecutableChain, SequencesExt

-----------------------------------------------------------------------------
(* Looks at a lease.                                                       *)

\* Its fields: active, of this process, with this receipt and these files.
Holds(l) == <<[look |-> "holds", of |-> {l}]>>

\* Every descriptor that it retains, read again from its beginning.
Bytes(l) == <<[look |-> "bytes", of |-> {l}]>>

\* Every descriptor that it retains, without reading.
Anchors(l) == <<[look |-> "anchors", of |-> {l}]>>

\* An earlier inspection of it, taken afresh and compared with its receipt.
\* Each of those reads every descriptor, and a lease ends once and for all, so
\* the inspection is one look that needs the lease whole.
Redo(l) == <<[look |-> "redo", of |-> {l}]>>

-----------------------------------------------------------------------------
(* Looks at files.  `bars' is what must not be touched: the directories    *)
(* that the chain stages in and the files that it has staged already.      *)

LookFile(look, p, bars) == <<[look |-> look, path |-> p, bars |-> bars]>>

\* A sequence for each path, one after the other.
Each(OfPath(_)) == FlattenSeq([p \in Path |-> OfPath(p)])

\* The walk from the root of the file system, and the file pinned and examined.
Open(p, bars) == LookFile("open", p, bars)

\* Its content read, and its metadata unchanged over the reading.
Read(p) == LookFile("read", p, {})

\* A consumer copies it through the same descriptor.
Consume(p, capturing) == IF capturing THEN LookFile("consume", p, {}) ELSE <<>>

\* (defect) The name is not opened again once the content was read.
BrokenReopen(p) == <<>>

\* The name in the pinned parent, once more.
Reopen(p) == LookFile("reopen", p, {})

\* The whole path once more: the directories and the file that were measured.
Rewalk(p, bars) == LookFile("rewalk", p, bars)

\* The file is none of those that the set has measured before.
Distinct(p) == LookFile("distinct", p, {})

Measure(p, capturing) == Open(p, {}) \o Read(p) \o Consume(p, capturing) \o Reopen(p)

MeasureSet(capturing) == Each(LAMBDA p : Measure(p, capturing) \o Distinct(p) \o Rewalk(p, {}))

Namespaces(bars) == Each(LAMBDA p : Rewalk(p, bars))

\* What was measured is kept; measured again, it is the same; it is what the
\* receipt of an earlier inspection says.
Keep == <<[look |-> "keep"]>>
Same == <<[look |-> "same"]>>
Expected == <<[look |-> "expected"]>>

\* The registration and the directories it leads to are pinned, and looked at
\* again.
Pin == <<[look |-> "pin"]>>
Kept == <<[look |-> "kept"]>>

\* The files of a lease are written: StageLease is about how.
Written(l) == <<[look |-> "detach", of |-> {l}]>>

-----------------------------------------------------------------------------
(* The executables of the commands.                                        *)

\* An executable named by its path in the repository is walked to once more; one
\* that was searched for is only looked up again in the directories pinned.
Resolution(named, capturing) ==
  LET Again(p) == IF p \in named THEN Rewalk(p, {}) ELSE <<>>
  IN Pin \o Each(LAMBDA p : Measure(p, capturing) \o Again(p)) \o Keep \o Kept

StageExecutables(named) ==
  Resolution(named, TRUE) \o Expected \o Written("source")
  \o Resolution(named, FALSE) \o Expected \o Bytes("source")

-----------------------------------------------------------------------------
(* What the staged executables ask for, read through the source lease.     *)

\* The descriptors of a lease are read twice, its fields looked at before each.
ReadTwice(l) == Holds(l) \o Bytes(l) \o Holds(l) \o Bytes(l)

\* The same, each time after the inspection that what is read goes by.
RedoneTwice(l) == Redo(l) \o Holds(l) \o Bytes(l) \o Redo(l) \o Holds(l) \o Bytes(l)

RuntimeManifest == ReadTwice("source")

ShebangRequirements ==
  Holds("source") \o Redo("source") \o Holds("source") \o Bytes("source") \o Holds("source")
  \o Redo("source") \o Holds("source") \o Bytes("source") \o Holds("source")

NativeLoaderRequirements == RedoneTwice("source") \o Holds("source")

NativeDependencyRequirements == RedoneTwice("source") \o Holds("source")

ManifestSnapshot == Redo("source") \o Holds("source")

NativeDependencyManifest == ManifestSnapshot \o ManifestSnapshot \o ManifestSnapshot \o Holds("source")

-----------------------------------------------------------------------------
(* Their targets.  A resolution measures them twice, and takes the chain   *)
(* it starts from afresh before, between and after.                        *)

Bracketed(chain, first, second) ==
  chain \o first \o Keep \o chain \o second \o Same \o chain

ShebangSnapshot == Holds("source") \o Redo("source") \o Redo("source")

ShebangTargets(capturing) ==
  Bracketed(ShebangSnapshot, MeasureSet(capturing), MeasureSet(FALSE)) \o Namespaces({})

NativeLoaderSnapshot == Redo("source") \o Holds("source")

NativeLoaderTargets(capturing) ==
  Bracketed(NativeLoaderSnapshot, MeasureSet(capturing), MeasureSet(FALSE)) \o Namespaces({}) \o Holds("source")

NativeDependencySnapshot == Redo("source") \o Redo("source") \o Holds("source")

NativeDependencyTargets ==
  Bracketed(NativeDependencySnapshot, MeasureSet(FALSE), MeasureSet(FALSE)) \o Namespaces({}) \o Holds("source")

ReproducedManifest == Redo("source") \o Holds("source")

ManifestTargets ==
  Bracketed(ReproducedManifest, MeasureSet(FALSE), MeasureSet(FALSE)) \o Namespaces({}) \o Holds("source")

\* The staging of a resolution's targets: resolved while they are copied, and
\* resolved again once the copies are written.
StageShebangTargets ==
  ShebangTargets(TRUE) \o Expected \o Pin \o Kept \o Written("target")
  \o ShebangTargets(FALSE) \o Expected \o Kept \o Bytes("target")

StageNativeLoaderTargets ==
  NativeLoaderTargets(TRUE) \o Expected \o Pin \o Kept \o Written("target")
  \o NativeLoaderTargets(FALSE) \o Expected \o Kept \o Bytes("target")

StageManifestTargets ==
  ManifestTargets \o Expected \o MeasureSet(TRUE) \o Expected \o Written("target")
  \o ManifestTargets \o Expected

-----------------------------------------------------------------------------
(* What the staged targets are and ask for, through the target lease.      *)

ShebangTargetRuntime == ReadTwice("target") \o Holds("target")

NativeLoaderTargetRuntime == ReadTwice("target") \o Holds("target")

ManifestTargetRuntime == ReadTwice("target") \o Holds("target")

ShebangTargetRequirements ==
  Holds("target") \o Redo("target") \o ReadTwice("target") \o Redo("target") \o Holds("target") \o Holds("target") \o Anchors("target")

NativeLoaderTargetRequirements == RedoneTwice("target") \o Holds("target")

ManifestTargetLoaders ==
  Holds("target") \o Redo("target") \o Bytes("target") \o Bytes("target")
  \o Redo("target") \o Holds("target") \o Holds("target")

ManifestTargetDependencies ==
  Holds("target") \o Redo("target") \o Bytes("target") \o Bytes("target")
  \o Redo("target") \o Holds("target") \o Holds("target")

ReproducedDependencies == Redo("target")

TargetDependencyManifest == ReproducedDependencies \o ReproducedDependencies \o ReproducedDependencies

ReproducedDependencyManifest == Redo("target")

TargetManifestTargets ==
  Bracketed(ReproducedDependencyManifest, MeasureSet(FALSE), MeasureSet(FALSE)) \o Namespaces({})

-----------------------------------------------------------------------------
(* What the targets name, which must be none of the chain's own.  Each     *)
(* directory of the walk and the file are compared as they are pinned.     *)

\* A walk of the directories alone, before any file is opened.
Ancestors(bars) == Each(LAMBDA p : LookFile("ancestors", p, bars \cap Roots))

GuardedMeasure(p, bars, capturing) == Open(p, bars) \o Read(p) \o Consume(p, capturing) \o Reopen(p)

MeasureNested(bars) == Each(LAMBDA p : GuardedMeasure(p, bars, FALSE) \o Distinct(p) \o Rewalk(p, bars))

MeasureCapturing(bars) == Each(LAMBDA p : GuardedMeasure(p, bars, TRUE) \o Distinct(p) \o Rewalk(p, bars))

NestedSnapshot == Holds("target") \o Redo("target") \o Redo("target")

\* `known' says that the receipt must be the one of an earlier inspection.
NestedShebangTargets(bars, capturing, known, closing) ==
  LET first == Ancestors(bars) \o IF capturing THEN MeasureCapturing(bars) ELSE MeasureNested(bars)
      second == Ancestors(bars) \o MeasureNested(bars)
  IN Bracketed(NestedSnapshot, first, second) \o Namespaces(bars)
     \o (IF known THEN Expected ELSE <<>>)
     \o Holds("target") \o Anchors("target") \o closing \o Namespaces(bars)

NestedLoaderSnapshot == Holds("target") \o Redo("target")

NestedLoaderTargets(bars, capturing, known, closing) ==
  LET first == IF capturing THEN MeasureCapturing(bars) ELSE MeasureNested(bars)
  IN Bracketed(NestedLoaderSnapshot, first, MeasureNested(bars))
     \o (IF known THEN Expected ELSE <<>>)
     \o Holds("target") \o closing \o Namespaces(bars)

\* What the plain resolution must not touch: its guard is the target stage's.
EffectiveBars(stronger) == TargetBars \cup stronger

SourceSnapshot == Holds("source") \o Anchors("source")

TargetSnapshot == Holds("target")

\* What no inspection of the whole chain may touch.
ChainBars == SourceBars \cup TargetBars

\* The whole chain is known: resolved once to be compared, once more after the
\* receipt is built, and there the source lease is anchored last.
Guarded(resolution(_, _, _, _), capturing) ==
  LET chain == SourceSnapshot \o TargetSnapshot
  IN chain \o resolution(ChainBars, capturing, FALSE, <<>>) \o Expected \o chain \o chain
     \o resolution(ChainBars, FALSE, TRUE, SourceSnapshot)

ShebangChainGuard(capturing) == Guarded(NestedShebangTargets, capturing)

NativeLoaderChainGuard(capturing) == Guarded(NestedLoaderTargets, capturing)

StageNestedShebangTargets ==
  Pin \o ShebangChainGuard(TRUE) \o Kept \o Written("nested")
  \o ShebangChainGuard(FALSE) \o Kept \o Bytes("nested") \o Kept

StageNestedLoaderTargets ==
  Pin \o NativeLoaderChainGuard(TRUE) \o Kept \o Written("nested")
  \o NativeLoaderChainGuard(FALSE) \o Kept \o Bytes("nested") \o Kept

NestedShebangRuntime == ReadTwice("nested") \o Holds("nested")

NestedLoaderRuntime == ReadTwice("nested") \o Holds("nested")

NestedShebangRequirements ==
  Holds("nested") \o Redo("nested") \o ReadTwice("nested") \o Redo("nested") \o Holds("nested") \o Holds("nested") \o Anchors("nested")

NestedLoaderRequirements == RedoneTwice("nested") \o Holds("nested")

-----------------------------------------------------------------------------
\* Each inspection and staging with the leases that its receipt rests on, and
\* what it promises not to touch.
Call(looks, on, bars) == [looks |-> looks, on |-> on, anchored |-> {}, bars |-> bars, apart |-> FALSE]

\* The descriptors of those leases are looked at once more at the very end.
Anchoring(ls, c) == [c EXCEPT !.anchored = ls]

Inspections ==
  LET source(looks) == Call(looks, {"source"}, {})
      target(looks) == Call(looks, {"target"}, {})
      nested(looks) == Call(looks, {"nested"}, {})
      guarding(looks) == Anchoring({"source"}, Call(looks, {"source", "target"}, ChainBars))
      guardingBoth(looks) == Anchoring({"source", "target"}, guarding(looks))
  IN {[Call(Resolution(named, FALSE), {}, {}) EXCEPT !.apart = TRUE] : named \in SUBSET Path} \cup
     {Call(StageExecutables(named), {}, {}) : named \in SUBSET Path} \cup
     {source(RuntimeManifest),
      source(ShebangRequirements),
      source(NativeLoaderRequirements),
      source(NativeDependencyRequirements),
      source(NativeDependencyManifest),
      source(ShebangTargets(FALSE)),
      source(NativeLoaderTargets(FALSE)),
      source(NativeDependencyTargets),
      source(ManifestTargets),
      source(StageShebangTargets),
      source(StageNativeLoaderTargets),
      source(StageManifestTargets),
      target(ShebangTargetRuntime),
      target(NativeLoaderTargetRuntime),
      target(ManifestTargetRuntime),
      Anchoring({"target"}, target(ShebangTargetRequirements)),
      target(NativeLoaderTargetRequirements),
      target(ManifestTargetLoaders),
      target(ManifestTargetDependencies),
      target(TargetDependencyManifest),
      target(TargetManifestTargets),
      Anchoring({"target"}, Call(NestedShebangTargets(EffectiveBars({}), FALSE, FALSE, <<>>), {"target"}, TargetBars)),
      Call(NestedLoaderTargets(EffectiveBars({}), FALSE, FALSE, <<>>), {"target"}, TargetBars),
      guardingBoth(ShebangChainGuard(FALSE)),
      guarding(NativeLoaderChainGuard(FALSE)),
      guardingBoth(StageNestedShebangTargets),
      guarding(StageNestedLoaderTargets),
      nested(NestedShebangRuntime),
      nested(NestedLoaderRuntime),
      Anchoring({"nested"}, nested(NestedShebangRequirements)),
      nested(NestedLoaderRequirements)}

=============================================================================
