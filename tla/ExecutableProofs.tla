-------------------------- MODULE ExecutableProofs --------------------------
(***************************************************************************)
(* Proofs about the chain of repository executables and about the leases   *)
(* that its stages hold.                                                   *)
(*                                                                         *)
(* First, of ExecutableChain: what every well-ordered call of the chain    *)
(* keeps, for every number of files and every interference.  A call is a   *)
(* fixed sequence of looks, so what it has established after `taken' of    *)
(* them is a matter of which looks stand in that sequence before: each     *)
(* part of the invariant says what the state owes to a look that has       *)
(* passed, as long as none of those that undo it came after.  Two          *)
(* measurements that agree pin a moment down because a file's version      *)
(* never goes back: at the first one's end no file was older than it was   *)
(* found before, and none was younger than it was found after.             *)
(*                                                                         *)
(* Then, of StageLease: what an active lease offers is sealed, what a      *)
(* cleanup says of itself is right, and nothing that belongs to others is  *)
(* closed or removed, for any number of executables, of failures and       *)
(* interruptions, of steps of others and of cleanups.                      *)
(***************************************************************************)
EXTENDS StageLease, ExecutableChain, FiniteSetTheorems, TLAPS

-----------------------------------------------------------------------------
(* The chain. *)

Upright == verdict \in {"looking", "issued"}

IssuedLast == verdict = "issued" => taken = Len(call.looks)

\* Where in the call its looks of a kind stand.
Keeps == PlacesOf(call, {"keep"})
Opens == PlacesOf(call, {"open"})
Since(i, p) == \E o \in OpensOf(call, p) : i < o /\ o <= taken
SincePins(p) == \E o \in OpensOf(call, p) : o <= taken /\ \A i \in PlacesOf(call, {"pin"}) : i < o

\* What was opened is a file.
OpenedInv == Upright => \A p \in Path : Since(0, p) => pinned[p].file \in Files

\* What was pinned of a path is not barred, and never newer than the file is.
PinnedInv ==
  /\ touched \cap call.bars = {}
  /\ Upright =>
       \A p \in Path :
         /\ pinned[p].at \notin call.bars
         /\ Since(0, p) => pinned[p].version <= version[pinned[p].file]

\* A lease that was not whole when it was last relied on, if it ever was: the
\* call relied on it after every look at its descriptors.
LostLeaseInv ==
  Upright =>
    \A l \in call.on \ alive, j \in PlacesOf(call, DescriptorLooks) :
      l \in call.looks[j].of /\ j <= taken =>
        \E i \in DOMAIN call.looks : Relies(call, i, l) /\ j < i /\ i <= taken

\* Kept and pinned agree after a comparison, until one of them changes.
AgreeInv ==
  /\ \A s \in PlacesOf(call, {"keep", "same"}) :
       s <= taken /\ Clear(Opens, s, taken + 1) /\ Clear(Keeps, s, taken + 1) => pinned = kept
  /\ \A s \in PlacesOf(call, {"keep", "same"}), e \in PlacesOf(call, {"expected"}) :
       /\ s < e /\ e <= taken /\ Clear(Opens, s, e)
       /\ \A k \in Keeps : k <= s
       => \A p \in Path : kept[p] = Original(p)

CopyInv ==
  \A p \in Path, u \in DOMAIN call.looks :
    u \in ConsumesOf(call, p) /\ Latest(u, ConsumesOf(call, p)) /\ u <= taken =>
      /\ Clear(OpensOf(call, p), u, taken + 1) => copies[p] = pinned[p]
      /\ \A k \in Keeps :
           u < k /\ k <= taken /\ Clear(OpensOf(call, p), u, k) /\ Clear(Keeps, k, taken + 1) => kept[p] = copies[p]
      /\ \A e \in PlacesOf(call, {"expected"}) :
           u < e /\ e <= taken /\ CopiedAsExpected(call, u, e) => copies[p] = Original(p)

\* A moment since the registration was pinned, and the one it was pinned for
\* if it was looked at again after the place k.
Timely(m, k) ==
  /\ held <= m.context /\ m.context <= context
  /\ (\E h \in PlacesOf(call, {"kept"}) : k < h /\ h <= taken) => m.context = held

\* Each file was as it was pinned, and as it was kept, at a moment.
ApartInv ==
  /\ Moment \in moments /\ held <= context
  /\ \A p \in Path :
       SincePins(p) => \E m \in moments : At(m, pinned[p]) /\ held <= m.context /\ m.context <= context
  /\ \A k \in Keeps : Latest(k, Keeps) /\ k <= taken =>
       \A p \in Path : kept[p].file \in Files /\ \E m \in moments : At(m, kept[p]) /\ Timely(m, k)

\* The moment at which the last measurement was kept: nothing kept is newer,
\* nothing pinned since is older.
BetweenInv ==
  \A k \in Keeps : Latest(k, Keeps) /\ k <= taken =>
    \E m \in moments :
      /\ Timely(m, k)
      /\ \A f \in Files : m.version[f] <= version[f]
      /\ \A p \in Path :
           /\ kept[p].version <= m.version[kept[p].file]
           /\ Since(k, p) => m.version[pinned[p].file] <= pinned[p].version
      /\ \A s \in PlacesOf(call, {"same"}) :
           s <= taken /\ (\A p \in Path : \E o \in OpensOf(call, p) : k < o /\ o < s) => \A p \in Path : At(m, kept[p])

\* The moment at which the registration was pinned last, or the first one of
\* the call: nothing pinned or kept since is older.
SinceInv ==
  (\A i \in PlacesOf(call, {"pin"}) : i <= taken) =>
    \E m \in moments :
      /\ held <= m.context /\ m.context <= context
      /\ \A k \in Keeps : Latest(k, Keeps) /\ k <= taken => Timely(m, k)
      /\ \A f \in Files : m.version[f] <= version[f]
      /\ \A p \in Path :
           /\ SincePins(p) => m.version[pinned[p].file] <= pinned[p].version
           /\ \A k \in Keeps : Latest(k, Keeps) /\ k <= taken => m.version[kept[p].file] <= kept[p].version

MeasureInv ==
  Upright => AgreeInv /\ CopyInv /\ ApartInv /\ BetweenInv /\ SinceInv

ChainInv == ChainTypeOK /\ OpenedInv /\ IssuedLast /\ PinnedInv /\ LostLeaseInv /\ MeasureInv

-----------------------------------------------------------------------------
\* The look that is due is one of the call's, and has the parts of its kind.
LEMMA DueLook ==
  ASSUME ChainTypeOK, Looking
  PROVE  /\ call \in AnyCall /\ WellOrdered(call)
         /\ taken \in Nat /\ taken + 1 \in DOMAIN call.looks
         /\ This = call.looks[taken + 1] /\ This \in AnyLook
         /\ This.look \in {"ancestors", "open", "read", "consume", "reopen", "distinct", "rewalk"} =>
              This.path \in Path /\ This.bars \in SUBSET Bars
         /\ This.look \in {"holds", "bytes", "anchors", "redo", "detach"} => This.of \in SUBSET Leases
  <1>1. call \in AnyCall /\ WellOrdered(call)
    BY ChainAssumption DEF ChainTypeOK
  <1>2. call.looks \in Seq(AnyLook) /\ Len(call.looks) \in Nat
    BY <1>1 DEF AnyCall
  <1>3. taken \in Nat /\ taken + 1 \in 1 .. Len(call.looks)
    BY <1>2 DEF ChainTypeOK, Looking
  <1>4. This \in AnyLook
    BY <1>2, <1>3 DEF This
  <1> QED
    BY <1>1, <1>2, <1>3, <1>4 DEF This, AnyLook, LeaseLook, FileLook, Comparison

LEMMA FoundType ==
  ASSUME ChainTypeOK, NEW p \in Path
  PROVE  Found(p) \in Measurement /\ Found(p).file \in Files /\ Found(p).at = place[p]
         /\ Found(p).version = version[Found(p).file]
  <1>1. place[p] \in Places /\ File(p, place[p]) \in Files
    BY DEF ChainTypeOK, Files
  <1> QED
    BY <1>1 DEF Found, Measurement, ChainTypeOK

LEMMA MomentType ==
  ASSUME ChainTypeOK
  PROVE  Moment \in Moments /\ Moment.version = version /\ Moment.context = context
  BY DEF ChainTypeOK, Moment, Moments

-----------------------------------------------------------------------------
(* Type correctness.                                                       *)

LEMMA TypeInit == ChainInit => ChainTypeOK /\ OpenedInv
  <1> SUFFICES ASSUME ChainInit PROVE ChainTypeOK /\ OpenedInv
    OBVIOUS
  <1> USE DEF ChainInit, Begins
  <1>1. call \in Calls /\ call.looks \in Seq(AnyLook) /\ Len(call.looks) \in Nat
    BY ChainAssumption DEF AnyCall
  <1>2. None \in Measurement
    BY DEF None, Measurement
  <1>3. \A p \in Path : File(p, "home") \in Files
    BY DEF Files, Places, Turns
  <1>4. moments \subseteq Moments
    BY DEF Moment, Moments
  <1>5. ChainTypeOK
    BY <1>1, <1>2, <1>4, ChainAssumption DEF ChainTypeOK, Places, Turns
  <1>6. \A i \in DOMAIN call.looks : i \in Nat
    BY <1>1
  <1>7. OpenedInv
    BY <1>6 DEF OpenedInv, Since, OpensOf, PlacesOf
  <1> QED
    BY <1>5, <1>7

\* A file that is looked at by its descriptor is open.
LEMMA OpenWhenLookedAt ==
  ASSUME ChainTypeOK, OpenedInv, Looking,
         This.look \in {"read", "consume", "reopen", "distinct", "rewalk"}
  PROVE  This.path \in Path /\ pinned[This.path] \in Measurement /\ pinned[This.path].file \in Files
         /\ Since(0, This.path)
  <1>1. This.path \in Path
    BY DueLook
  <1>2. taken + 1 \in PlacesOf(call, {"read", "consume", "reopen", "distinct", "rewalk"})
    BY DueLook DEF PlacesOf
  <1>3. PICK o \in OpensOf(call, This.path) : o < taken + 1
    BY <1>2, DueLook DEF WellOrdered, LooksAtWhatWasOpened
  <1>4. o \in 1 .. Len(call.looks)
    BY <1>3, DueLook DEF OpensOf, PlacesOf, AnyCall
  <1>5. Since(0, This.path)
    BY <1>3, <1>4, DueLook DEF Since
  <1> QED
    BY <1>1, <1>5 DEF OpenedInv, Upright, Looking, ChainTypeOK

LEMMA TypeStep == ChainTypeOK /\ OpenedInv /\ [ChainNext]_chainVars => ChainTypeOK'
  <1> SUFFICES ASSUME ChainTypeOK, OpenedInv, [ChainNext]_chainVars PROVE ChainTypeOK'
    OBVIOUS
  <1>1. call \in AnyCall /\ Len(call.looks) \in Nat
    BY ChainAssumption DEF ChainTypeOK, AnyCall
  <1>2. ASSUME Looking, taken' \in {taken, taken + 1}, verdict' \in {verdict, "refused"},
               UNCHANGED <<call, worldVars>>,
               pinned' \in [Path -> Measurement], kept' \in [Path -> Measurement], copies' \in [Path -> Measurement],
               held' \in Nat, touched' \subseteq Places \cup {None.at}, alive' \subseteq Leases
        PROVE  ChainTypeOK'
    <2>1. taken' \in 0 .. Len(call'.looks)
      BY <1>1, <1>2, DueLook DEF ChainTypeOK, Looking
    <2> QED
      BY <1>2, <2>1 DEF ChainTypeOK, worldVars
  <1>3. CASE LookAtFields
    BY <1>2, <1>3 DEF LookAtFields, Pass, Note, Whole, ChainTypeOK
  <1>4. CASE LookAtDescriptors
    BY <1>2, <1>4 DEF LookAtDescriptors, Pass, Note, Whole, ChainTypeOK
  <1>5. CASE LookAtAncestors
    BY <1>2, <1>5 DEF LookAtAncestors, Pass, Unread, ChainTypeOK
  <1>6. CASE OpenFile
    <2>1. This.path \in Path
      BY <1>6, DueLook DEF OpenFile
    <2>2. pinned' \in [Path -> Measurement]
      BY <1>6, <2>1, FoundType DEF OpenFile, ChainTypeOK
    <2> QED
      BY <1>2, <1>6, <2>2 DEF OpenFile, Pass, ChainTypeOK
  <1>7. CASE ReadFile
    <2>1. pinned[This.path] \in Measurement
      BY <1>7, OpenWhenLookedAt DEF ReadFile
    <2>2. pinned[This.path].at \in Places \cup {None.at}
      BY <2>1 DEF Measurement
    <2> QED
      BY <1>2, <1>7, <2>2 DEF ReadFile, Pass, Note, Whole, ChainTypeOK
  <1>8. CASE ConsumeFile
    <2>1. This.path \in Path /\ pinned[This.path] \in Measurement /\ pinned[This.path].file \in Files
      BY <1>8, OpenWhenLookedAt DEF ConsumeFile
    <2>2. version[pinned[This.path].file] \in Nat
      BY <2>1 DEF ChainTypeOK
    <2>3. [pinned[This.path] EXCEPT !.version = version[pinned[This.path].file]] \in Measurement
      BY <2>1, <2>2 DEF Measurement
    <2>4. copies' \in [Path -> Measurement]
      BY <1>8, <2>1, <2>3 DEF ConsumeFile, ChainTypeOK
    <2> QED
      BY <1>2, <1>8, <2>4 DEF ConsumeFile, Pass, ChainTypeOK
  <1>9. CASE ReopenFile
    BY <1>2, <1>9 DEF ReopenFile, Pass, Unread, ChainTypeOK
  <1>10. CASE CompareInSet
    BY <1>2, <1>10 DEF CompareInSet, Pass, Unread, ChainTypeOK
  <1>11. CASE WalkAgain
    BY <1>2, <1>11 DEF WalkAgain, Pass, Unread, ChainTypeOK
  <1>12. CASE KeepMeasurement
    BY <1>2, <1>12 DEF KeepMeasurement, Pass, ChainTypeOK
  <1>13. CASE CompareMeasurements
    BY <1>2, <1>13 DEF CompareMeasurements, Pass, Unread, ChainTypeOK
  <1>14. CASE CompareWithReceipt
    BY <1>2, <1>14 DEF CompareWithReceipt, Pass, Unread, ChainTypeOK
  <1>15. CASE PinContext
    BY <1>2, <1>15 DEF PinContext, Pass, ChainTypeOK
  <1>16. CASE CompareContext
    BY <1>2, <1>16 DEF CompareContext, Pass, Unread, ChainTypeOK
  <1>17. CASE DetachCopies
    <2>1. taken' \in 0 .. Len(call'.looks)
      BY <1>1, <1>17, DueLook DEF DetachCopies
    <2>2. leases' \in [Leases -> {"none", "whole", "torn", "ended"}]
      BY <1>17 DEF DetachCopies, ChainTypeOK
    <2> QED
      BY <1>17, <2>1, <2>2 DEF DetachCopies, Unread, ChainTypeOK
  <1>18. CASE Issue
    BY <1>18 DEF Issue, Unread, worldVars, ChainTypeOK
  <1>19. ASSUME Meddles, place' \in [Path -> Places], version' \in [Files -> Nat], context' \in Nat,
                moments' \subseteq Moments, leases' \in [Leases -> {"none", "whole", "torn", "ended"}]
         PROVE  ChainTypeOK'
    <2>1. meddled' \in 0 .. MaxMeddling
      BY <1>19, ChainAssumption DEF Meddles, ChainTypeOK
    <2> QED
      BY <1>19, <2>1 DEF Meddles, callVars, ChainTypeOK
  <1>20. CASE Rewrite
    <2>1. PICK p \in Path : version' = [version EXCEPT ![File(p, place[p])] = @ + 1]
      BY <1>20 DEF Rewrite
    <2>2. version' \in [Files -> Nat]
      BY <2>1 DEF ChainTypeOK, Files, Places
    <2>3. moments' \subseteq Moments
      BY <1>20, <2>2 DEF Rewrite, Moment, Moments, ChainTypeOK
    <2> QED
      BY <1>19, <1>20, <2>2, <2>3 DEF Rewrite, ChainTypeOK
  <1>21. CASE LeadAway
    <2>1. place' \in [Path -> Places]
      BY <1>21 DEF LeadAway, ChainTypeOK, Places
    <2> QED
      BY <1>19, <1>21, <2>1 DEF LeadAway, ChainTypeOK
  <1>22. CASE LinkToKnown
    <2>1. PICK p \in Path, to \in KnownFiles :
            /\ place' = [place EXCEPT ![p] = to]
            /\ version' = [version EXCEPT ![File(p, place[p])] = @ + 1, ![File(p, to)] = @ + 1]
      BY <1>22 DEF LinkToKnown
    <2>2. place' \in [Path -> Places]
      BY <2>1 DEF ChainTypeOK, Places
    <2>3. version' \in [Files -> Nat]
      <3>1. File(p, place[p]) \in Files /\ File(p, to) \in Files
        BY DEF ChainTypeOK, Files, Places
      <3> QED
        BY <2>1, <3>1 DEF ChainTypeOK
    <2>4. moments' \subseteq Moments
      BY <1>22, <2>3 DEF LinkToKnown, Moment, Moments, ChainTypeOK
    <2> QED
      BY <1>19, <1>22, <2>2, <2>3, <2>4 DEF LinkToKnown, ChainTypeOK
  <1>23. CASE ChangeContext
    <2>1. context' \in Nat /\ moments' \subseteq Moments
      BY <1>23 DEF ChangeContext, Moment, Moments, ChainTypeOK
    <2> QED
      BY <1>19, <1>23, <2>1 DEF ChangeContext, ChainTypeOK
  <1>24. CASE EndLease
    <2>1. leases' \in [Leases -> {"none", "whole", "torn", "ended"}]
      BY <1>24 DEF EndLease, ChainTypeOK
    <2> QED
      BY <1>19, <1>24, <2>1 DEF EndLease, ChainTypeOK
  <1>25. CASE UNCHANGED chainVars
    BY <1>25 DEF chainVars, worldVars, callVars, ChainTypeOK
  <1> QED
    BY <1>3, <1>4, <1>5, <1>6, <1>7, <1>8, <1>9, <1>10, <1>11, <1>12, <1>13, <1>14, <1>15, <1>16, <1>17,
       <1>18, <1>20, <1>21, <1>22, <1>23, <1>24, <1>25 DEF ChainNext

-----------------------------------------------------------------------------
(* The kinds of steps: a look that passes, a step that refuses the call,   *)
(* and one that takes no look.                                             *)

LookTaken ==
  /\ Looking /\ verdict' = "looking" /\ call' = call /\ taken' = taken + 1
  /\ UNCHANGED <<version, context, moments>>
  /\ pinned' = IF This.look = "open" THEN [pinned EXCEPT ![This.path] = Found(This.path)] ELSE pinned
  /\ kept' = IF This.look = "keep" THEN pinned ELSE kept
  /\ held' = IF This.look = "pin" THEN context ELSE held
  /\ copies' = IF This.look = "consume" THEN [copies EXCEPT ![This.path] = pinned[This.path]] ELSE copies
  /\ touched' = IF This.look = "read" THEN touched \cup {pinned[This.path].at} ELSE touched
  /\ alive' = IF This.look \in {"read", "holds", "bytes", "anchors", "redo"}
              THEN (alive \ Relied) \cup (Relied \cap Whole) ELSE alive
  /\ This.look \in {"bytes", "anchors", "redo"} => This.of \subseteq Whole
  /\ This.look = "open" => place[This.path] \notin This.bars
  /\ This.look = "same" => pinned = kept
  /\ This.look = "expected" => \A p \in Path : pinned[p] = Original(p)
  /\ This.look = "kept" => held = context

NoLookTaken ==
  /\ UNCHANGED <<call, taken, callVars>>
  /\ verdict' = verdict \/ (verdict = "looking" /\ verdict' = "issued" /\ taken = Len(call.looks))
  /\ moments \subseteq moments' /\ (Moment \in moments => Moment' \in moments')
  /\ context <= context' /\ \A f \in Files : version[f] <= version'[f]

Refused ==
  /\ verdict' = "refused" /\ call' = call
  /\ \/ touched' = touched
     \/ Looking /\ This.look = "read" /\ touched' = touched \cup {pinned[This.path].at}

LEMMA StepKinds ==
  ASSUME ChainTypeOK, OpenedInv, [ChainNext]_chainVars
  PROVE  LookTaken \/ NoLookTaken \/ Refused
  <1>1. context \in Nat /\ version \in [Files -> Nat] /\ place \in [Path -> Places]
    BY DEF ChainTypeOK
  <1>2. CASE LookAtFields
    BY <1>2 DEF LookAtFields, Looking, Pass, Note, Refused, worldVars, callVars, LookTaken
  <1>3. CASE LookAtDescriptors
    BY <1>3 DEF LookAtDescriptors, DescriptorLooks, Readable, Looking, Pass, Note, Refused, worldVars, callVars, LookTaken
  <1>4. CASE LookAtAncestors
    BY <1>4 DEF LookAtAncestors, Looking, Pass, Refused, Unread, worldVars, callVars, LookTaken
  <1>5. CASE OpenFile
    BY <1>5 DEF OpenFile, Looking, Pass, Refused, Barred, worldVars, callVars, LookTaken
  <1>6. CASE ReadFile
    BY <1>6 DEF ReadFile, Looking, Pass, Note, Refused, worldVars, callVars, LookTaken
  <1>7. CASE ConsumeFile
    <2>1. pinned[This.path] \in Measurement
      BY <1>7, OpenWhenLookedAt DEF ConsumeFile
    <2>2. verdict' = "refused" \/ version[pinned[This.path].file] = pinned[This.path].version
      BY <1>7 DEF ConsumeFile, Pass, Unchanged, Looking
    <2>3. verdict' = "refused" \/ [pinned[This.path] EXCEPT !.version = version[pinned[This.path].file]] = pinned[This.path]
      BY <2>1, <2>2 DEF Measurement
    <2> QED
      BY <1>7, <2>3 DEF ConsumeFile, Looking, Pass, Refused, worldVars, callVars, LookTaken
  <1>8. CASE ReopenFile
    BY <1>8 DEF ReopenFile, Looking, Pass, Refused, Unread, worldVars, callVars, LookTaken
  <1>9. CASE CompareInSet
    BY <1>9 DEF CompareInSet, Looking, Pass, Refused, Unread, worldVars, callVars, LookTaken
  <1>10. CASE WalkAgain
    BY <1>10 DEF WalkAgain, Looking, Pass, Refused, Unread, worldVars, callVars, LookTaken
  <1>11. CASE KeepMeasurement
    BY <1>11 DEF KeepMeasurement, Looking, Pass, Refused, worldVars, callVars, LookTaken
  <1>12. CASE CompareMeasurements
    <2>1. verdict' = "refused" \/ \A p \in Path : pinned[p] = kept[p]
      BY <1>12 DEF CompareMeasurements, Looking, Pass, Refused, MeasuredAlike
    <2>2. verdict' = "refused" \/ pinned = kept
      BY <2>1 DEF ChainTypeOK
    <2> QED
      BY <1>12, <2>2 DEF CompareMeasurements, Looking, Pass, Refused, Unread, worldVars, callVars, LookTaken
  <1>13. CASE CompareWithReceipt
    BY <1>13 DEF CompareWithReceipt, Looking, Pass, Refused, Unread, worldVars, callVars, LookTaken
  <1>14. CASE PinContext
    BY <1>14 DEF PinContext, Looking, Pass, Refused, worldVars, callVars, LookTaken
  <1>15. CASE CompareContext
    BY <1>15 DEF CompareContext, Looking, Pass, Refused, Unread, worldVars, callVars, LookTaken
  <1>16. CASE DetachCopies
    BY <1>16 DEF DetachCopies, Looking, Unread, callVars, LookTaken
  <1>17. CASE Issue
    BY <1>1, <1>17 DEF Issue, Unread, worldVars, callVars, Moment, NoLookTaken
  <1>18. CASE Rewrite
    <2>1. PICK p \in Path : version' = [version EXCEPT ![File(p, place[p])] = @ + 1]
      BY <1>18 DEF Rewrite
    <2>2. \A f \in Files : version[f] <= version'[f]
      BY <1>1, <2>1
    <2> QED
      BY <1>1, <1>18, <2>2 DEF Rewrite, Meddles, callVars, Moment, NoLookTaken
  <1>19. CASE LeadAway
    BY <1>1, <1>19 DEF LeadAway, Meddles, callVars, Moment, NoLookTaken
  <1>20. CASE LinkToKnown
    <2>1. PICK p \in Path, to \in KnownFiles :
            version' = [version EXCEPT ![File(p, place[p])] = @ + 1, ![File(p, to)] = @ + 1]
      BY <1>20 DEF LinkToKnown
    <2>2. \A f \in Files : version[f] <= version'[f]
      BY <1>1, <2>1
    <2> QED
      BY <1>1, <1>20, <2>2 DEF LinkToKnown, Meddles, callVars, Moment, NoLookTaken
  <1>21. CASE ChangeContext
    BY <1>1, <1>21 DEF ChangeContext, Meddles, callVars, Moment, NoLookTaken
  <1>22. CASE EndLease
    BY <1>1, <1>22 DEF EndLease, Meddles, callVars, Moment, NoLookTaken, ChainTypeOK
  <1>23. CASE UNCHANGED chainVars
    BY <1>1, <1>23 DEF chainVars, worldVars, callVars, Moment, NoLookTaken
  <1> QED
    BY <1>2, <1>3, <1>4, <1>5, <1>6, <1>7, <1>8, <1>9, <1>10, <1>11, <1>12, <1>13, <1>14, <1>15, <1>16,
       <1>17, <1>18, <1>19, <1>20, <1>21, <1>22, <1>23 DEF ChainNext

-----------------------------------------------------------------------------
(* What a look that passes adds.                                           *)

LEMMA PlaceRange ==
  ASSUME ChainTypeOK, NEW i \in DOMAIN call.looks
  PROVE  i \in Nat /\ i > 0 /\ i <= Len(call.looks)
  BY ChainAssumption DEF ChainTypeOK, AnyCall

\* The places up to the one just passed are those before it and itself.
LEMMA PlacesPassed ==
  ASSUME ChainTypeOK, LookTaken
  PROVE  /\ taken \in Nat /\ taken + 1 \in DOMAIN call.looks
         /\ \A i \in DOMAIN call.looks : i <= taken + 1 <=> i <= taken \/ i = taken + 1
         /\ \A kinds : taken + 1 \in PlacesOf(call, kinds) <=> This.look \in kinds
         /\ \A p : taken + 1 \in OpensOf(call, p) <=> This.look = "open" /\ This.path = p
         /\ \A p : taken + 1 \in ConsumesOf(call, p) <=> This.look = "consume" /\ This.path = p
  <1>1. taken \in Nat /\ taken + 1 \in DOMAIN call.looks /\ This = call.looks[taken + 1]
    BY DueLook DEF LookTaken
  <1>2. \A i \in DOMAIN call.looks : i <= taken + 1 <=> i <= taken \/ i = taken + 1
    BY <1>1, PlaceRange
  <1> QED
    BY <1>1, <1>2 DEF PlacesOf, OpensOf, ConsumesOf

\* A path is pinned anew exactly by a look that opens it.
LEMMA PinnedAnew ==
  ASSUME ChainTypeOK, LookTaken, NEW p \in Path
  PROVE  IF taken + 1 \in OpensOf(call, p) THEN pinned'[p] = Found(p) ELSE pinned'[p] = pinned[p]
  <1>1. pinned \in [Path -> Measurement]
    BY DEF ChainTypeOK
  <1>2. This.look = "open" => This.path \in Path
    BY DueLook DEF LookTaken
  <1> QED
    BY <1>1, <1>2, PlacesPassed DEF LookTaken

LEMMA SinceStep ==
  ASSUME ChainTypeOK, LookTaken, NEW p \in Path, NEW k \in Nat
  PROVE  Since(k, p)' <=> Since(k, p) \/ (taken + 1 \in OpensOf(call, p) /\ k < taken + 1)
  <1>1. \A o \in OpensOf(call, p) : o \in DOMAIN call.looks
    BY DEF OpensOf, PlacesOf
  <1>2. OpensOf(call, p)' = OpensOf(call, p) /\ taken' = taken + 1
    BY DEF LookTaken, OpensOf, PlacesOf
  <1>3. Since(k, p)' <=> \E o \in OpensOf(call, p) : k < o /\ o <= taken + 1
    BY <1>2 DEF Since
  <1> QED
    BY <1>1, <1>3, PlacesPassed DEF Since

LEMMA OpenedStep ==
  ASSUME ChainTypeOK, OpenedInv, [ChainNext]_chainVars
  PROVE  OpenedInv'
  <1>1. CASE LookTaken
    <2> SUFFICES ASSUME NEW p \in Path, Since(0, p)'
                 PROVE  pinned'[p].file \in Files
      BY DEF OpenedInv
    <2>1. CASE taken + 1 \in OpensOf(call, p)
      BY <1>1, <2>1, PinnedAnew, FoundType
    <2>2. CASE taken + 1 \notin OpensOf(call, p)
      BY <1>1, <2>2, PinnedAnew, SinceStep DEF OpenedInv, Upright, LookTaken, Looking
    <2> QED
      BY <2>1, <2>2
  <1>2. CASE NoLookTaken
    BY <1>2 DEF NoLookTaken, callVars, OpenedInv, Upright, Since, OpensOf, PlacesOf
  <1>3. CASE Refused
    BY <1>3 DEF Refused, OpenedInv, Upright
  <1> QED
    BY <1>1, <1>2, <1>3, StepKinds

LEMMA IssuedLastStep ==
  ASSUME ChainTypeOK, OpenedInv, IssuedLast, [ChainNext]_chainVars
  PROVE  IssuedLast'
  BY StepKinds DEF LookTaken, NoLookTaken, Refused, IssuedLast

-----------------------------------------------------------------------------
(* Nothing protected is read.                                              *)

LEMMA NoneIsNoBar == None.at \notin Bars /\ \A c \in AnyCall : c.bars \subseteq Bars
  BY DEF None, Bars, SourceBars, TargetBars, AnyCall

LEMMA PinnedInit == ChainInit => PinnedInv
  <1> SUFFICES ASSUME ChainInit PROVE PinnedInv
    OBVIOUS
  <1>1. call \in AnyCall /\ \A p \in Path : pinned[p] = None
    BY ChainAssumption DEF ChainInit, Begins
  <1>2. \A i \in DOMAIN call.looks : i \in Nat
    BY <1>1 DEF AnyCall
  <1>3. \A p \in Path : ~ Since(0, p)
    BY <1>2 DEF ChainInit, Begins, Since, OpensOf, PlacesOf
  <1> QED
    BY <1>1, <1>3, NoneIsNoBar DEF ChainInit, Begins, PinnedInv

LEMMA PinnedStep ==
  ASSUME ChainTypeOK, OpenedInv, PinnedInv, [ChainNext]_chainVars
  PROVE  PinnedInv'
  <1>1. ASSUME Looking, This.look = "read"
        PROVE  pinned[This.path].at \notin call.bars
    BY <1>1, DueLook DEF PinnedInv, Upright, Looking
  <1>2. CASE LookTaken
    <2>1. touched' \cap call'.bars = {}
      BY <1>1, <1>2 DEF LookTaken, PinnedInv
    <2>2. ASSUME NEW p \in Path
          PROVE  pinned'[p].at \notin call.bars /\ (Since(0, p)' => pinned'[p].version <= version[pinned'[p].file])
      <3>1. CASE taken + 1 \in OpensOf(call, p)
        <4>1. This.look = "open" /\ This.path = p /\ taken + 1 \in PlacesOf(call, {"open"})
          BY <1>2, <3>1, PlacesPassed
        <4>2. call.bars \subseteq This.bars
          BY <1>2, <4>1, DueLook DEF LookTaken, WellOrdered, OpensAreBarred
        <4>3. pinned'[p] = Found(p) /\ place[p] \notin This.bars
          BY <1>2, <3>1, <4>1, PinnedAnew DEF LookTaken
        <4>4. version[Found(p).file] \in Nat
          BY FoundType DEF ChainTypeOK
        <4> QED
          BY <4>2, <4>3, <4>4, FoundType
      <3>2. CASE taken + 1 \notin OpensOf(call, p)
        BY <1>2, <3>2, PinnedAnew, SinceStep DEF PinnedInv, Upright, LookTaken, Looking
      <3> QED
        BY <3>1, <3>2
    <2> QED
      BY <1>2, <2>1, <2>2 DEF PinnedInv, LookTaken
  <1>3. CASE NoLookTaken
    <2>1. ASSUME NEW p \in Path, Upright, Since(0, p)
          PROVE  pinned[p].version <= version'[pinned[p].file]
      <3>1. pinned[p].file \in Files /\ pinned[p].version \in Nat
        BY <2>1 DEF OpenedInv, ChainTypeOK, Measurement
      <3>2. version[pinned[p].file] \in Nat /\ version[pinned[p].file] <= version'[pinned[p].file]
        BY <1>3, <3>1 DEF NoLookTaken, ChainTypeOK
      <3>3. version'[pinned[p].file] \in Nat
        BY <3>1, TypeStep DEF ChainTypeOK
      <3> QED
        BY <2>1, <3>1, <3>2, <3>3 DEF PinnedInv
    <2> QED
      BY <1>3, <2>1 DEF NoLookTaken, callVars, PinnedInv, Upright, Since, OpensOf, PlacesOf
  <1>4. CASE Refused
    BY <1>1, <1>4 DEF Refused, PinnedInv, Upright
  <1> QED
    BY <1>2, <1>3, <1>4, StepKinds

-----------------------------------------------------------------------------
(* Receipts rest on live leases.                                           *)

LEMMA LeaseInit == ChainInit => LostLeaseInv
  <1> SUFFICES ASSUME ChainInit PROVE LostLeaseInv
    OBVIOUS
  <1>1. call \in AnyCall /\ taken = 0
    BY ChainAssumption DEF ChainInit, Begins
  <1>2. \A j \in DOMAIN call.looks : j \in Nat /\ j > 0
    BY <1>1 DEF AnyCall
  <1> QED
    BY <1>1, <1>2 DEF LostLeaseInv, PlacesOf

LEMMA LeaseStep ==
  ASSUME ChainTypeOK, OpenedInv, LostLeaseInv, [ChainNext]_chainVars
  PROVE  LostLeaseInv'
  <1>1. CASE LookTaken
    <2>1. call' = call /\ taken' = taken + 1 /\ taken \in Nat /\ Upright /\ This = call.looks[taken + 1]
      BY <1>1, PlacesPassed DEF LookTaken, Looking, Upright, This
    <2>2. call.on \subseteq Leases /\ call'.on = call.on
      BY <1>1, DueLook DEF LookTaken, AnyCall
    <2>3. \A kinds : PlacesOf(call, kinds) \subseteq DOMAIN call.looks /\ PlacesOf(call, kinds)' = PlacesOf(call, kinds)
      BY <2>1 DEF PlacesOf
    <2>4. taken + 1 \in DOMAIN call.looks /\ \A i \in DOMAIN call.looks : i \in Nat
      BY <1>1, PlacesPassed, PlaceRange
    <2>5. ASSUME NEW l \in call.on, l \notin alive', NEW j \in PlacesOf(call, DescriptorLooks),
                 l \in call.looks[j].of, j <= taken + 1
          PROVE  \E i \in DOMAIN call.looks : Relies(call, i, l) /\ j < i /\ i <= taken + 1
      <3>1. j = taken + 1 => Relies(call, taken + 1, l) /\ l \in Whole
        BY <1>1, <2>1, <2>5 DEF PlacesOf, Relies, LookTaken, DescriptorLooks
      <3>2. CASE Relies(call, taken + 1, l)
        <4>1. l \in Relied /\ This.look \in {"read", "holds", "bytes", "anchors", "redo"}
          BY <2>1, <2>2, <3>2 DEF Relied, Relies, DescriptorLooks
        <4>2. l \notin Whole
          BY <1>1, <2>5, <4>1 DEF LookTaken
        <4>3. j # taken + 1 /\ j \in Nat
          BY <2>3, <2>4, <3>1, <4>2
        <4> QED
          BY <2>1, <2>4, <2>5, <3>2, <4>3
      <3>3. CASE ~ Relies(call, taken + 1, l)
        <4>1. l \notin Relied
          BY <3>3 DEF Relied
        <4>2. l \notin alive
          BY <1>1, <2>5, <4>1 DEF LookTaken
        <4>3. j <= taken
          BY <2>1, <2>3, <2>4, <2>5, <3>1, <3>3
        <4>4. PICK i \in DOMAIN call.looks : Relies(call, i, l) /\ j < i /\ i <= taken
          BY <2>1, <2>5, <4>2, <4>3 DEF LostLeaseInv
        <4>5. i <= taken + 1
          BY <2>1, <2>4, <4>4
        <4> QED
          BY <4>4, <4>5
      <3> QED
        BY <3>2, <3>3
    <2> QED
      BY <2>1, <2>2, <2>3, <2>5 DEF LostLeaseInv, Relies
  <1>2. CASE NoLookTaken
    BY <1>2 DEF NoLookTaken, callVars, LostLeaseInv, Upright, PlacesOf, Relies
  <1>3. CASE Refused
    BY <1>3 DEF Refused, LostLeaseInv, Upright
  <1> QED
    BY <1>1, <1>2, <1>3, StepKinds

-----------------------------------------------------------------------------
(* What a call keeps of its looks.                                         *)

LEMMA CallKept ==
  ASSUME call' = call
  PROVE  /\ Keeps' = Keeps /\ Opens' = Opens
         /\ \A kinds : PlacesOf(call, kinds)' = PlacesOf(call, kinds)
         /\ \A p : OpensOf(call, p)' = OpensOf(call, p) /\ ConsumesOf(call, p)' = ConsumesOf(call, p)
  BY DEF Keeps, Opens, PlacesOf, OpensOf, ConsumesOf

LEMMA PlacesAreLooks ==
  /\ \A kinds : PlacesOf(call, kinds) \subseteq DOMAIN call.looks
  /\ Keeps \subseteq DOMAIN call.looks /\ Opens \subseteq DOMAIN call.looks
  /\ \A p : OpensOf(call, p) \subseteq Opens /\ ConsumesOf(call, p) \subseteq DOMAIN call.looks
  BY DEF Keeps, Opens, PlacesOf, OpensOf, ConsumesOf

\* Nothing of a kind has come since some look, so neither is it the one just
\* passed nor had it come before that one.
LEMMA ClearBefore ==
  ASSUME ChainTypeOK, LookTaken, NEW X, X \subseteq DOMAIN call.looks, NEW s \in DOMAIN call.looks, s <= taken,
         Clear(X, s, taken' + 1)
  PROVE  taken + 1 \notin X /\ Clear(X, s, taken + 1)
  <1>1. taken \in Nat /\ taken' = taken + 1
    BY PlacesPassed DEF LookTaken
  <1>2. \A x \in X : x \in Nat
    BY PlaceRange
  <1>3. s \in Nat
    BY PlaceRange
  <1> QED
    BY <1>1, <1>2, <1>3 DEF Clear

\* What the last measurement of a set rests on.
LEMMA LastKeep ==
  ASSUME ChainTypeOK, NEW k \in Keeps, Latest(k, Keeps)
  PROVE  /\ k \in Nat /\ k > 0
         /\ \A p \in Path : \E o \in OpensOf(call, p) : o \in Nat /\ o < k /\ \A i \in PlacesOf(call, {"pin"}) : i < o
         /\ \A i \in PlacesOf(call, {"pin"}) : i < k
         /\ PlacesOf(call, {"pin"}) # {} => \E h \in PlacesOf(call, {"kept"}) : k < h
  <1>1. KeepsWhatWasOpened(call)
    BY ChainAssumption DEF ChainTypeOK, WellOrdered
  <1>2. \A x \in DOMAIN call.looks : x \in Nat /\ x > 0
    BY PlaceRange
  <1>3. PICK j \in Keeps :
          /\ Latest(j, Keeps)
          /\ \A p \in Path : \E o \in OpensOf(call, p) : o < j /\ \A i \in PlacesOf(call, {"pin"}) : i < o
          /\ PlacesOf(call, {"pin"}) # {} => \E h \in PlacesOf(call, {"kept"}) : j < h
    BY <1>1 DEF KeepsWhatWasOpened, Keeps
  <1>4. j \in Nat /\ k \in Nat /\ k > 0
    BY <1>2, PlacesAreLooks
  <1>5. j = k
    BY <1>3, <1>4 DEF Latest
  <1>6. \A p \in Path : \E o \in OpensOf(call, p) : o \in Nat /\ o < k /\ \A i \in PlacesOf(call, {"pin"}) : i < o
    BY <1>2, <1>3, <1>5, PlacesAreLooks
  <1>7. 1 \in Path
    BY ChainAssumption DEF Path
  <1>8. PICK o \in OpensOf(call, 1) : o \in Nat /\ o < k /\ \A i \in PlacesOf(call, {"pin"}) : i < o
    BY <1>6, <1>7
  <1>9. \A i \in PlacesOf(call, {"pin"}) : i \in Nat /\ i < o
    BY <1>2, <1>8, PlacesAreLooks
  <1>10. \A i \in PlacesOf(call, {"pin"}) : i < k
    BY <1>4, <1>8, <1>9
  <1> QED
    BY <1>3, <1>4, <1>5, <1>6, <1>10

\* When the last measurement is kept, or was, every path had been opened since
\* the registration was pinned.
LEMMA OpenedBeforeKeep ==
  ASSUME ChainTypeOK, taken \in Nat, NEW k \in Keeps, Latest(k, Keeps), k <= taken + 1, NEW p \in Path
  PROVE  SincePins(p) /\ Since(0, p)
  <1>1. PICK o \in OpensOf(call, p) : o \in Nat /\ o < k /\ \A i \in PlacesOf(call, {"pin"}) : i < o
    BY LastKeep
  <1>2. o > 0
    BY PlaceRange, PlacesAreLooks
  <1> QED
    BY <1>1, <1>2, LastKeep DEF SincePins, Since

-----------------------------------------------------------------------------
(* Comparisons.                                                            *)

LEMMA AgreeInit == ChainInit => AgreeInv
  <1> SUFFICES ASSUME ChainInit PROVE AgreeInv
    OBVIOUS
  <1>1. ChainTypeOK /\ taken = 0
    BY TypeInit DEF ChainInit, Begins
  <1>2. \A i \in DOMAIN call.looks : i \in Nat /\ i > 0
    BY <1>1, PlaceRange
  <1>3. \A kinds : \A i \in PlacesOf(call, kinds) : i \in Nat /\ ~ (i <= taken)
    BY <1>1, <1>2, PlacesAreLooks
  <1> QED
    BY <1>3 DEF AgreeInv

LEMMA AgreeStep ==
  ASSUME ChainTypeOK, LookTaken, AgreeInv
  PROVE  AgreeInv'
  <1>1. taken \in Nat /\ taken' = taken + 1 /\ call' = call
    BY PlacesPassed DEF LookTaken
  <1>2. \A x \in DOMAIN call.looks : x \in Nat /\ (x <= taken' => x <= taken \/ x = taken + 1)
    BY <1>1, PlacesPassed, PlaceRange
  <1>3. taken + 1 \notin Opens => pinned' = pinned
    BY <1>1, PlacesPassed DEF Opens, LookTaken
  <1>4. taken + 1 \notin Keeps => kept' = kept
    BY <1>1, PlacesPassed DEF Keeps, LookTaken
  <1>5. ASSUME NEW s \in PlacesOf(call, {"keep", "same"}),
               s <= taken', Clear(Opens, s, taken' + 1), Clear(Keeps, s, taken' + 1)
        PROVE  pinned' = kept'
    <2>1. CASE s = taken + 1
      <3>1. This.look \in {"keep", "same"}
        BY <2>1, PlacesPassed
      <3> QED
        BY <3>1 DEF LookTaken
    <2>2. CASE s <= taken
      <3>1. s \in DOMAIN call.looks
        BY PlacesAreLooks
      <3>2. taken + 1 \notin Opens /\ Clear(Opens, s, taken + 1)
        BY <1>5, <2>2, <3>1, ClearBefore, PlacesAreLooks
      <3>3. taken + 1 \notin Keeps /\ Clear(Keeps, s, taken + 1)
        BY <1>5, <2>2, <3>1, ClearBefore, PlacesAreLooks
      <3> QED
        BY <1>3, <1>4, <2>2, <3>2, <3>3 DEF AgreeInv
    <2> QED
      BY <1>2, <1>5, <2>1, <2>2, PlacesAreLooks
  <1>6. ASSUME NEW s \in PlacesOf(call, {"keep", "same"}), NEW e \in PlacesOf(call, {"expected"}),
               s < e, e <= taken', Clear(Opens, s, e), \A k \in Keeps : k <= s,
               NEW p \in Path
        PROVE  kept'[p] = Original(p)
    <2>1. s \in Nat /\ e \in Nat /\ e <= taken + 1
      BY <1>1, <1>2, <1>6, PlacesAreLooks
    <2>2. \A k \in Keeps : k \in Nat /\ k <= taken
      BY <1>1, <1>2, <1>6, <2>1, PlacesAreLooks
    <2>3. kept' = kept
      BY <1>1, <1>4, <2>2
    <2>4. CASE e = taken + 1
      <3>1. pinned[p] = Original(p)
        BY <2>4, PlacesPassed DEF LookTaken
      <3>2. s <= taken /\ Clear(Opens, s, taken + 1) /\ Clear(Keeps, s, taken + 1)
        BY <1>1, <1>6, <2>1, <2>2, <2>4 DEF Clear
      <3>3. pinned = kept
        BY <3>2 DEF AgreeInv
      <3> QED
        BY <2>3, <3>1, <3>3
    <2>5. CASE e <= taken
      BY <1>6, <2>3, <2>5 DEF AgreeInv
    <2> QED
      BY <1>1, <2>1, <2>4, <2>5
  <1>7. \A p : Original(p)' = Original(p)
    BY DEF Original, File
  <1> QED
    BY <1>1, <1>5, <1>6, <1>7, CallKept DEF AgreeInv

-----------------------------------------------------------------------------
(* Copies.                                                                 *)

LEMMA CopyInit == ChainInit => CopyInv
  <1> SUFFICES ASSUME ChainInit PROVE CopyInv
    OBVIOUS
  <1>1. ChainTypeOK /\ taken = 0
    BY TypeInit DEF ChainInit, Begins
  <1>2. \A i \in DOMAIN call.looks : i \in Nat /\ ~ (i <= taken)
    BY <1>1, PlaceRange
  <1> QED
    BY <1>2 DEF CopyInv

LEMMA CopyStep ==
  ASSUME ChainTypeOK, LookTaken, AgreeInv, CopyInv
  PROVE  CopyInv'
  <1>1. taken \in Nat /\ taken' = taken + 1 /\ call' = call
    BY PlacesPassed DEF LookTaken
  <1>2. \A x \in DOMAIN call.looks : x \in Nat /\ (x <= taken' => x <= taken \/ x = taken + 1)
    BY <1>1, PlacesPassed, PlaceRange
  <1>3. taken + 1 \notin Keeps => kept' = kept
    BY <1>1, PlacesPassed DEF Keeps, LookTaken
  <1>4. ASSUME NEW p \in Path, NEW u \in ConsumesOf(call, p), Latest(u, ConsumesOf(call, p)), u <= taken'
        PROVE  /\ Clear(OpensOf(call, p), u, taken' + 1) => copies'[p] = pinned'[p]
               /\ \A k \in Keeps :
                    u < k /\ k <= taken' /\ Clear(OpensOf(call, p), u, k) /\ Clear(Keeps, k, taken' + 1)
                    => kept'[p] = copies'[p]
               /\ \A e \in PlacesOf(call, {"expected"}) :
                    u < e /\ e <= taken' /\ CopiedAsExpected(call, u, e) => copies'[p] = Original(p)
    <2>1. u \in DOMAIN call.looks /\ u \in Nat /\ call.looks[u].path = p
      BY <1>2, <1>4, PlacesAreLooks DEF ConsumesOf
    <2>2. OpensOf(call, p) \subseteq DOMAIN call.looks
      BY PlacesAreLooks
    <2>3. ASSUME u <= taken
          PROVE  copies'[p] = copies[p]
      <3>1. taken + 1 \notin ConsumesOf(call, p)
        BY <1>1, <1>4, <2>1, <2>3 DEF Latest
      <3>2. This.look = "consume" => This.path \in Path /\ This.path # p
        BY <3>1, DueLook, PlacesPassed DEF LookTaken
      <3> QED
        BY <3>2 DEF LookTaken, ChainTypeOK
    <2>4. ASSUME u <= taken, Clear(OpensOf(call, p), u, taken + 1)
          PROVE  copies[p] = pinned[p]
      BY <1>4, <2>1, <2>4 DEF CopyInv
    <2>5. ASSUME Clear(OpensOf(call, p), u, taken' + 1)
          PROVE  copies'[p] = pinned'[p]
      <3>1. CASE u = taken + 1
        <4>1. This.look = "consume" /\ This.path = p
          BY <1>4, <3>1, PlacesPassed
        <4> QED
          BY <4>1 DEF LookTaken, ChainTypeOK
      <3>2. CASE u <= taken
        <4>1. taken + 1 \notin OpensOf(call, p) /\ Clear(OpensOf(call, p), u, taken + 1)
          BY <2>1, <2>2, <2>5, <3>2, ClearBefore
        <4> QED
          BY <2>3, <2>4, <3>2, <4>1, PinnedAnew
      <3> QED
        BY <1>2, <1>4, <2>1, <3>1, <3>2
    <2>6. ASSUME NEW k \in Keeps, u < k, k <= taken, Clear(OpensOf(call, p), u, k), Clear(Keeps, k, taken + 1)
          PROVE  kept[p] = copies[p] /\ u <= taken
      <3>1. k \in Nat /\ u <= taken
        BY <1>1, <1>2, <2>1, <2>6, PlacesAreLooks
      <3> QED
        BY <1>4, <2>1, <2>6, <3>1 DEF CopyInv
    <2>7. ASSUME NEW k \in Keeps, u < k, k <= taken', Clear(OpensOf(call, p), u, k), Clear(Keeps, k, taken' + 1)
          PROVE  kept'[p] = copies'[p]
      <3>1. k \in DOMAIN call.looks /\ k \in Nat
        BY <1>2, PlacesAreLooks
      <3>2. CASE k = taken + 1
        <4>1. u <= taken /\ Clear(OpensOf(call, p), u, taken + 1)
          BY <1>1, <2>1, <2>7, <3>2
        <4>2. kept' = pinned
          BY <3>2, PlacesPassed DEF Keeps, LookTaken
        <4> QED
          BY <2>3, <2>4, <4>1, <4>2
      <3>3. CASE k <= taken
        <4>1. taken + 1 \notin Keeps /\ Clear(Keeps, k, taken + 1)
          BY <2>7, <3>1, <3>3, ClearBefore, PlacesAreLooks
        <4> QED
          BY <1>3, <2>3, <2>6, <2>7, <3>3, <4>1
      <3> QED
        BY <1>2, <2>7, <3>1, <3>2, <3>3
    <2>8. ASSUME NEW e \in PlacesOf(call, {"expected"}), u < e, e <= taken', CopiedAsExpected(call, u, e)
          PROVE  copies'[p] = Original(p)
      <3>1. e \in DOMAIN call.looks /\ e \in Nat
        BY <1>2, PlacesAreLooks
      <3>2. u <= taken
        BY <1>1, <2>1, <2>8, <3>1
      <3>3. CASE e <= taken
        <4>1. copies[p] = Original(p)
          BY <1>4, <2>1, <2>8, <3>2, <3>3 DEF CopyInv
        <4> QED
          BY <2>3, <3>2, <4>1
      <3>4. CASE e = taken + 1
        <4>1. pinned[p] = Original(p)
          BY <3>4, PlacesPassed DEF LookTaken
        <4>2. CASE Clear(OpensOf(call, p), u, e)
          BY <2>3, <2>4, <3>2, <3>4, <4>1, <4>2
        <4>3. CASE ~ Clear(OpensOf(call, p), u, e)
          <5>1. PICK k \in Keeps, s \in PlacesOf(call, {"same"}) :
                  /\ u < k /\ k < s /\ s < e
                  /\ Clear(OpensOf(call, p), u, k) /\ Clear(Keeps, k, e)
                  /\ Clear(Opens, s, e)
            BY <2>1, <2>8, <4>3 DEF CopiedAsExpected, Keeps, Opens
          <5>2. k \in Nat /\ s \in Nat /\ k <= taken /\ s <= taken
            BY <1>1, <1>2, <3>1, <3>4, <5>1, PlacesAreLooks
          <5>3. \A x \in Keeps : x \in Nat
            BY <1>2, PlacesAreLooks
          <5>4. Clear(Keeps, k, taken + 1) /\ Clear(Keeps, s, taken + 1) /\ Clear(Opens, s, taken + 1)
            BY <1>1, <3>4, <5>1, <5>2, <5>3 DEF Clear
          <5>5. kept[p] = copies[p]
            BY <2>6, <5>1, <5>2, <5>4
          <5>6. s \in PlacesOf(call, {"keep", "same"})
            BY <5>1 DEF PlacesOf
          <5>7. pinned = kept
            BY <5>2, <5>4, <5>6 DEF AgreeInv
          <5> QED
            BY <2>3, <3>2, <4>1, <5>5, <5>7
        <4> QED
          BY <4>2, <4>3
      <3> QED
        BY <1>2, <2>8, <3>1, <3>3, <3>4
    <2> QED
      BY <2>5, <2>7, <2>8
  <1>5. \A p : Original(p)' = Original(p)
    BY DEF Original, File
  <1>6. \A u, e : CopiedAsExpected(call, u, e)' = CopiedAsExpected(call, u, e)
    BY <1>1 DEF CopiedAsExpected, PlacesOf, OpensOf
  <1> QED
    BY <1>1, <1>4, <1>5, <1>6, CallKept DEF CopyInv

-----------------------------------------------------------------------------
(* Moments.                                                                *)

LEMMA TimelyStep ==
  ASSUME ChainTypeOK, LookTaken, NEW m \in moments, NEW k \in Keeps, Latest(k, Keeps), k <= taken, Timely(m, k)
  PROVE  Timely(m, k)'
  <1>1. taken \in Nat /\ taken' = taken + 1 /\ call' = call /\ context' = context
    BY PlacesPassed DEF LookTaken
  <1>2. k \in Nat /\ m.context \in Nat /\ held \in Nat /\ context \in Nat
    BY LastKeep DEF ChainTypeOK, Moments
  <1>3. taken + 1 \notin PlacesOf(call, {"pin"})
    BY <1>1, <1>2, LastKeep
  <1>4. held' = held
    BY <1>3, PlacesPassed DEF LookTaken
  <1>5. ASSUME NEW h \in PlacesOf(call, {"kept"}), k < h, h <= taken'
        PROVE  m.context = held
    <2>1. CASE h = taken + 1
      <3>1. held = context
        BY <2>1, PlacesPassed DEF LookTaken
      <3> QED
        BY <1>2, <3>1 DEF Timely
    <2>2. CASE h <= taken
      BY <1>5, <2>2 DEF Timely
    <2> QED
      BY <1>1, <1>5, <2>1, <2>2, PlacesPassed, PlacesAreLooks
  <1> QED
    BY <1>1, <1>4, <1>5, CallKept DEF Timely

\* What is kept now has not been compared with the context since.
LEMMA TimelyAtKeep ==
  ASSUME ChainTypeOK, LookTaken, NEW k \in Keeps, k = taken + 1,
         NEW m \in moments, held <= m.context, m.context <= context
  PROVE  Timely(m, k)'
  <1>1. taken \in Nat /\ taken' = taken + 1 /\ call' = call /\ context' = context /\ held' = held
    BY PlacesPassed DEF LookTaken, Keeps
  <1>2. \A h \in PlacesOf(call, {"kept"}) : h \in Nat
    BY PlaceRange, PlacesAreLooks
  <1> QED
    BY <1>1, <1>2, CallKept DEF Timely

LEMMA SincePinsStep ==
  ASSUME ChainTypeOK, LookTaken, NEW p \in Path, SincePins(p)'
  PROVE  /\ This.look # "pin" /\ held' = held
         /\ taken + 1 \in OpensOf(call, p) \/ SincePins(p)
  <1>1. taken \in Nat /\ taken' = taken + 1 /\ call' = call
    BY PlacesPassed DEF LookTaken
  <1>2. PICK o \in OpensOf(call, p) : o <= taken + 1 /\ \A i \in PlacesOf(call, {"pin"}) : i < o
    BY <1>1, CallKept DEF SincePins
  <1>3. o \in Nat
    BY PlaceRange, PlacesAreLooks
  <1>4. This.look # "pin"
    BY <1>1, <1>2, <1>3, PlacesPassed
  <1>5. held' = held
    BY <1>4 DEF LookTaken
  <1> QED
    BY <1>1, <1>2, <1>3, <1>4, <1>5 DEF SincePins

LEMMA MomentsInit == ChainInit => ApartInv /\ BetweenInv /\ SinceInv
  <1> SUFFICES ASSUME ChainInit PROVE ApartInv /\ BetweenInv /\ SinceInv
    OBVIOUS
  <1>1. ChainTypeOK /\ taken = 0 /\ held = 0 /\ context = 0 /\ moments = {Moment}
    BY TypeInit DEF ChainInit, Begins
  <1>2. \A i \in DOMAIN call.looks : i \in Nat /\ ~ (i <= taken)
    BY <1>1, PlaceRange
  <1>3. \A p \in Path : ~ SincePins(p)
    BY <1>2, PlacesAreLooks DEF SincePins
  <1>4. \A k \in Keeps : ~ (k <= taken)
    BY <1>2, PlacesAreLooks
  <1>5. Moment \in moments /\ held <= Moment.context /\ Moment.context <= context
        /\ \A f \in Files : Moment.version[f] <= version[f]
    BY <1>1, MomentType DEF ChainTypeOK
  <1>6. ApartInv
    BY <1>1, <1>3, <1>4 DEF ApartInv
  <1>7. BetweenInv
    BY <1>4 DEF BetweenInv
  <1>8. SinceInv
    BY <1>3, <1>4, <1>5 DEF SinceInv
  <1> QED
    BY <1>6, <1>7, <1>8

LEMMA ApartStep ==
  ASSUME ChainTypeOK, OpenedInv, LookTaken, ApartInv
  PROVE  ApartInv'
  <1>1. taken \in Nat /\ taken' = taken + 1 /\ call' = call /\ Upright
        /\ UNCHANGED <<version, context, moments>>
    BY PlacesPassed DEF LookTaken, Looking, Upright
  <1>2. context \in Nat /\ held \in Nat
    BY DEF ChainTypeOK
  <1>3. Moment' \in moments' /\ held' <= context'
    BY <1>1, <1>2 DEF ApartInv, Moment, LookTaken
  <1>4. ASSUME NEW p \in Path, SincePins(p)'
        PROVE  \E m \in moments' : At(m, pinned'[p]) /\ held' <= m.context /\ m.context <= context'
    <2>1. CASE taken + 1 \in OpensOf(call, p)
      <3>1. At(Moment, pinned'[p])
        BY <2>1, PinnedAnew, FoundType, MomentType DEF At
      <3>2. Moment \in moments' /\ held' <= Moment.context /\ Moment.context <= context'
        BY <1>1, <1>2, <1>3, MomentType DEF Moment
      <3> QED
        BY <3>1, <3>2
    <2>2. CASE taken + 1 \notin OpensOf(call, p)
      <3>1. pinned'[p] = pinned[p] /\ held' = held /\ SincePins(p)
        BY <1>4, <2>2, PinnedAnew, SincePinsStep
      <3> QED
        BY <1>1, <3>1 DEF ApartInv
    <2> QED
      BY <2>1, <2>2
  <1>5. ASSUME NEW k \in Keeps, Latest(k, Keeps), k <= taken', NEW p \in Path
        PROVE  kept'[p].file \in Files /\ \E m \in moments' : At(m, kept'[p]) /\ Timely(m, k)'
    <2>1. CASE k = taken + 1
      <3>1. kept' = pinned
        BY <2>1, PlacesPassed DEF Keeps, LookTaken
      <3>2. SincePins(p) /\ Since(0, p)
        BY <1>1, <1>5, OpenedBeforeKeep
      <3>3. pinned[p].file \in Files
        BY <1>1, <3>2 DEF OpenedInv
      <3>4. PICK m \in moments : At(m, pinned[p]) /\ held <= m.context /\ m.context <= context
        BY <3>2 DEF ApartInv
      <3>5. Timely(m, k)'
        BY <2>1, <3>4, TimelyAtKeep
      <3> QED
        BY <1>1, <3>1, <3>3, <3>4, <3>5
    <2>2. CASE k <= taken
      <3>1. taken + 1 \notin Keeps
        BY <1>1, <1>5, <2>2, LastKeep DEF Latest
      <3>2. kept' = kept
        BY <3>1, PlacesPassed DEF Keeps, LookTaken
      <3>3. kept[p].file \in Files
        BY <1>5, <2>2 DEF ApartInv
      <3>4. PICK m \in moments : At(m, kept[p]) /\ Timely(m, k)
        BY <1>5, <2>2 DEF ApartInv
      <3>5. Timely(m, k)'
        BY <1>5, <2>2, <3>4, TimelyStep
      <3> QED
        BY <1>1, <3>2, <3>3, <3>4, <3>5
    <2> QED
      BY <1>1, <1>5, <2>1, <2>2, LastKeep
  <1>6. \A m, file : At(m, file)' = At(m, file)
    BY DEF At
  <1> QED
    BY <1>1, <1>3, <1>4, <1>5, <1>6, CallKept DEF ApartInv, At, Latest

\* What is older than what a moment finds is older than what is found now.
LEMMA FoundIsNotOlder ==
  ASSUME ChainTypeOK, LookTaken, NEW m \in moments, \A f \in Files : m.version[f] <= version[f],
         NEW p \in Path, taken + 1 \in OpensOf(call, p)
  PROVE  m.version[pinned'[p].file] <= pinned'[p].version
  BY PinnedAnew, FoundType

LEMMA BetweenStep ==
  ASSUME ChainTypeOK, OpenedInv, PinnedInv, LookTaken, ApartInv, BetweenInv
  PROVE  BetweenInv'
  <1>1. taken \in Nat /\ taken' = taken + 1 /\ call' = call /\ Upright
        /\ UNCHANGED <<version, context, moments>>
    BY PlacesPassed DEF LookTaken, Looking, Upright
  <1>2. \A x \in DOMAIN call.looks : x \in Nat
    BY PlaceRange
  <1> SUFFICES ASSUME NEW k \in Keeps, Latest(k, Keeps), k <= taken + 1
               PROVE  \E m \in moments :
                        /\ Timely(m, k)'
                        /\ \A f \in Files : m.version[f] <= version[f]
                        /\ \A p \in Path :
                             /\ kept'[p].version <= m.version[kept'[p].file]
                             /\ Since(k, p)' => m.version[pinned'[p].file] <= pinned'[p].version
                        /\ \A s \in PlacesOf(call, {"same"}) :
                             s <= taken + 1 /\ (\A p \in Path : \E o \in OpensOf(call, p) : k < o /\ o < s)
                             => \A p \in Path : At(m, kept'[p])
    BY <1>1, CallKept DEF BetweenInv, At, Latest
  <1>3. k \in Nat
    BY LastKeep
  <1>4. CASE k = taken + 1
    <2>1. kept' = pinned
      BY <1>4, PlacesPassed DEF Keeps, LookTaken
    <2>2. PICK m \in moments : m = Moment /\ m.version = version /\ m.context = context
      BY MomentType DEF ApartInv
    <2>3. Timely(m, k)'
      BY <1>4, <2>2, TimelyAtKeep DEF ApartInv, ChainTypeOK
    <2>4. \A f \in Files : m.version[f] <= version[f]
      BY <2>2 DEF ChainTypeOK
    <2>5. ASSUME NEW p \in Path
          PROVE  kept'[p].version <= m.version[kept'[p].file] /\ ~ Since(k, p)'
      <3>1. Since(0, p)
        BY <1>1, OpenedBeforeKeep
      <3>2. ~ Since(k, p)'
        <4>1. \A o \in OpensOf(call, p) : o \in Nat
          BY <1>2, PlacesAreLooks
        <4> QED
          BY <1>1, <1>3, <1>4, <4>1, CallKept DEF Since
      <3> QED
        BY <1>1, <2>1, <2>2, <3>1, <3>2 DEF PinnedInv
    <2>6. ASSUME NEW s \in PlacesOf(call, {"same"}), s <= taken + 1, NEW p \in Path
          PROVE  ~ \E o \in OpensOf(call, p) : k < o /\ o < s
      <3>1. s \in Nat /\ \A o \in OpensOf(call, p) : o \in Nat
        BY <1>2, PlacesAreLooks
      <3> QED
        BY <1>1, <1>3, <1>4, <2>6, <3>1
    <2> QED
      BY <2>3, <2>4, <2>5, <2>6
  <1>5. CASE k <= taken
    <2>1. taken + 1 \notin Keeps
      BY <1>1, <1>3, <1>5 DEF Latest
    <2>2. kept' = kept
      BY <2>1, PlacesPassed DEF Keeps, LookTaken
    <2>3. PICK m \in moments :
            /\ Timely(m, k)
            /\ \A f \in Files : m.version[f] <= version[f]
            /\ \A p \in Path :
                 /\ kept[p].version <= m.version[kept[p].file]
                 /\ Since(k, p) => m.version[pinned[p].file] <= pinned[p].version
            /\ \A s \in PlacesOf(call, {"same"}) :
                 s <= taken /\ (\A p \in Path : \E o \in OpensOf(call, p) : k < o /\ o < s)
                 => \A p \in Path : At(m, kept[p])
      BY <1>5 DEF BetweenInv
    <2>4. Timely(m, k)'
      BY <1>5, <2>3, TimelyStep
    <2>5. ASSUME NEW p \in Path, Since(k, p)'
          PROVE  m.version[pinned'[p].file] <= pinned'[p].version
      <3>1. CASE taken + 1 \in OpensOf(call, p)
        BY <2>3, <3>1, FoundIsNotOlder
      <3>2. CASE taken + 1 \notin OpensOf(call, p)
        BY <1>3, <2>3, <2>5, <3>2, PinnedAnew, SinceStep
      <3> QED
        BY <3>1, <3>2
    <2>6. ASSUME NEW s \in PlacesOf(call, {"same"}), s <= taken + 1,
                 \A p \in Path : \E o \in OpensOf(call, p) : k < o /\ o < s,
                 NEW p \in Path
          PROVE  At(m, kept[p])
      <3>1. CASE s = taken + 1
        <4>1. pinned = kept
          BY <3>1, PlacesPassed DEF LookTaken
        <4>2. PICK o \in OpensOf(call, p) : k < o /\ o < s
          BY <2>6
        <4>3. o \in Nat /\ o <= taken
          BY <1>1, <1>2, <3>1, <4>2, PlacesAreLooks
        <4>4. Since(k, p)
          BY <4>2, <4>3 DEF Since
        <4>5. kept[p].file \in Files /\ kept[p].version \in Nat
          BY <1>5 DEF ApartInv, ChainTypeOK, Measurement
        <4>6. m.version[kept[p].file] \in Nat
          BY <4>5 DEF ChainTypeOK, Moments
        <4>7. m.version[kept[p].file] <= kept[p].version /\ kept[p].version <= m.version[kept[p].file]
          BY <2>3, <4>1, <4>4
        <4> QED
          BY <4>5, <4>6, <4>7 DEF At
      <3>2. CASE s <= taken
        BY <2>3, <2>6, <3>2
      <3> QED
        BY <1>1, <2>6, <3>1, <3>2, PlacesPassed, PlacesAreLooks
    <2> QED
      BY <2>2, <2>3, <2>4, <2>5, <2>6
  <1> QED
    BY <1>1, <1>3, <1>4, <1>5

LEMMA SinceInvStep ==
  ASSUME ChainTypeOK, LookTaken, ApartInv, SinceInv
  PROVE  SinceInv'
  <1>1. taken \in Nat /\ taken' = taken + 1 /\ call' = call /\ UNCHANGED <<version, context, moments>>
    BY PlacesPassed DEF LookTaken
  <1>2. \A x \in DOMAIN call.looks : x \in Nat
    BY PlaceRange
  <1> SUFFICES ASSUME \A i \in PlacesOf(call, {"pin"}) : i <= taken + 1
               PROVE  \E m \in moments :
                        /\ held' <= m.context /\ m.context <= context
                        /\ \A k \in Keeps : Latest(k, Keeps) /\ k <= taken + 1 => Timely(m, k)'
                        /\ \A f \in Files : m.version[f] <= version[f]
                        /\ \A p \in Path :
                             /\ SincePins(p)' => m.version[pinned'[p].file] <= pinned'[p].version
                             /\ \A k \in Keeps :
                                  Latest(k, Keeps) /\ k <= taken + 1 => m.version[kept'[p].file] <= kept'[p].version
    BY <1>1, CallKept DEF SinceInv, Latest
  <1>3. CASE This.look = "pin"
    <2>1. PICK m \in moments : m = Moment /\ m.version = version /\ m.context = context
      BY MomentType DEF ApartInv
    <2>2. held' = context /\ \A p \in Path : ~ SincePins(p)'
      BY <1>3, SincePinsStep DEF LookTaken
    <2>3. ASSUME NEW k \in Keeps, Latest(k, Keeps)
          PROVE  ~ (k <= taken + 1)
      <3>1. taken + 1 \in PlacesOf(call, {"pin"})
        BY <1>3, PlacesPassed
      <3> QED
        BY <1>1, <2>3, <3>1, LastKeep
    <2>4. context <= context /\ \A f \in Files : version[f] <= version[f]
      BY DEF ChainTypeOK
    <2> QED
      BY <2>1, <2>2, <2>3, <2>4
  <1>4. CASE This.look # "pin"
    <2>1. held' = held
      BY <1>4 DEF LookTaken
    <2>2. \A i \in PlacesOf(call, {"pin"}) : i <= taken
      BY <1>1, <1>2, <1>4, PlacesPassed, PlacesAreLooks
    <2>3. PICK m \in moments :
            /\ held <= m.context /\ m.context <= context
            /\ \A k \in Keeps : Latest(k, Keeps) /\ k <= taken => Timely(m, k)
            /\ \A f \in Files : m.version[f] <= version[f]
            /\ \A p \in Path :
                 /\ SincePins(p) => m.version[pinned[p].file] <= pinned[p].version
                 /\ \A k \in Keeps : Latest(k, Keeps) /\ k <= taken => m.version[kept[p].file] <= kept[p].version
      BY <2>2 DEF SinceInv
    <2>4. ASSUME NEW k \in Keeps, Latest(k, Keeps), k <= taken + 1
          PROVE  Timely(m, k)' /\ \A p \in Path : m.version[kept'[p].file] <= kept'[p].version
      <3>1. CASE k = taken + 1
        <4>1. kept' = pinned
          BY <3>1, PlacesPassed DEF Keeps, LookTaken
        <4>2. \A p \in Path : SincePins(p)
          BY <1>1, <2>4, OpenedBeforeKeep
        <4>3. Timely(m, k)'
          BY <2>3, <3>1, TimelyAtKeep
        <4> QED
          BY <2>3, <4>1, <4>2, <4>3
      <3>2. CASE k <= taken
        <4>1. taken + 1 \notin Keeps
          BY <1>1, <2>4, <3>2, LastKeep DEF Latest
        <4>2. kept' = kept
          BY <4>1, PlacesPassed DEF Keeps, LookTaken
        <4>3. Timely(m, k)'
          BY <2>3, <2>4, <3>2, TimelyStep
        <4> QED
          BY <2>3, <2>4, <3>2, <4>2, <4>3
      <3> QED
        BY <1>1, <2>4, <3>1, <3>2, LastKeep
    <2>5. ASSUME NEW p \in Path, SincePins(p)'
          PROVE  m.version[pinned'[p].file] <= pinned'[p].version
      <3>1. CASE taken + 1 \in OpensOf(call, p)
        BY <2>3, <3>1, FoundIsNotOlder
      <3>2. CASE taken + 1 \notin OpensOf(call, p)
        BY <2>3, <2>5, <3>2, PinnedAnew, SincePinsStep
      <3> QED
        BY <3>1, <3>2
    <2> QED
      BY <2>1, <2>3, <2>4, <2>5
  <1> QED
    BY <1>3, <1>4

LEMMA MeasureInit == ChainInit => MeasureInv
  BY AgreeInit, CopyInit, MomentsInit DEF MeasureInv

LEMMA MeasureStep ==
  ASSUME ChainTypeOK, OpenedInv, PinnedInv, MeasureInv, [ChainNext]_chainVars
  PROVE  MeasureInv'
  <1>1. CASE LookTaken
    <2>1. AgreeInv /\ CopyInv /\ ApartInv /\ BetweenInv /\ SinceInv
      BY <1>1 DEF MeasureInv, Upright, LookTaken, Looking
    <2> QED
      BY <1>1, <2>1, AgreeStep, CopyStep, ApartStep, BetweenStep, SinceInvStep DEF MeasureInv
  <1>2. CASE NoLookTaken
    <2>1. call' = call /\ taken' = taken /\ UNCHANGED callVars /\ moments \subseteq moments'
          /\ (Moment \in moments => Moment' \in moments')
      BY <1>2 DEF NoLookTaken
    <2>2. UNCHANGED <<pinned, kept, held, copies>>
      BY <2>1 DEF callVars
    <2> SUFFICES ASSUME Upright, AgreeInv, CopyInv, ApartInv, BetweenInv, SinceInv
                 PROVE  AgreeInv' /\ CopyInv' /\ ApartInv' /\ BetweenInv' /\ SinceInv'
      BY <1>2 DEF MeasureInv, Upright, NoLookTaken
    <2>3. context \in Nat /\ context' \in Nat /\ context <= context' /\ held \in Nat
      BY <1>2, TypeStep DEF ChainTypeOK, NoLookTaken
    <2>4. \A m \in moments : m.context \in Nat /\ \A f \in Files : m.version[f] \in Nat
      BY DEF ChainTypeOK, Moments
    <2>5. \A f \in Files : version[f] \in Nat /\ version'[f] \in Nat /\ version[f] <= version'[f]
      BY <1>2, TypeStep DEF ChainTypeOK, NoLookTaken
    <2>6. \A m \in moments : m.context <= context => m.context <= context'
      BY <2>3, <2>4
    <2>7. \A m \in moments : (\A f \in Files : m.version[f] <= version[f]) => \A f \in Files : m.version[f] <= version'[f]
      BY <2>4, <2>5
    <2>8. ASSUME NEW m \in moments, NEW k, Timely(m, k)
          PROVE  Timely(m, k)'
      BY <2>1, <2>2, <2>6, <2>8, CallKept DEF Timely
    <2>9. AgreeInv'
      BY <2>1, <2>2, CallKept DEF AgreeInv, Original, File
    <2>10. CopyInv'
      <3>1. \A p : Original(p)' = Original(p)
        BY DEF Original, File
      <3>2. \A u, e : CopiedAsExpected(call, u, e)' = CopiedAsExpected(call, u, e)
        BY <2>1 DEF CopiedAsExpected, PlacesOf, OpensOf
      <3>3. \A X, i, j : Clear(X, i, j)' = Clear(X, i, j)
        BY DEF Clear
      <3> QED
        BY <2>1, <2>2, <3>1, <3>2, <3>3, CallKept DEF CopyInv, Latest
    <2>11. \A p : SincePins(p)' <=> SincePins(p)
      BY <2>1, CallKept DEF SincePins
    <2>12. ApartInv'
      <3>1. held' <= context'
        BY <2>2, <2>3 DEF ApartInv
      <3>2. ASSUME NEW p \in Path, SincePins(p)'
            PROVE  \E m \in moments' : At(m, pinned'[p]) /\ held' <= m.context /\ m.context <= context'
        <4>1. PICK m \in moments : At(m, pinned[p]) /\ held <= m.context /\ m.context <= context
          BY <2>11, <3>2 DEF ApartInv
        <4> QED
          BY <2>1, <2>2, <2>6, <4>1
      <3>3. ASSUME NEW k \in Keeps, Latest(k, Keeps), k <= taken, NEW p \in Path
            PROVE  kept'[p].file \in Files /\ \E m \in moments' : At(m, kept'[p]) /\ Timely(m, k)'
        <4>1. kept[p].file \in Files
          BY <3>3 DEF ApartInv
        <4>2. PICK m \in moments : At(m, kept[p]) /\ Timely(m, k)
          BY <3>3 DEF ApartInv
        <4> QED
          BY <2>1, <2>2, <2>8, <4>1, <4>2
      <3> QED
        BY <2>1, <3>1, <3>2, <3>3, CallKept DEF ApartInv, At, Latest
    <2>13. BetweenInv'
      <3>1. ASSUME NEW k \in Keeps, Latest(k, Keeps), k <= taken
            PROVE  \E m \in moments' :
                     /\ Timely(m, k)'
                     /\ \A f \in Files : m.version[f] <= version'[f]
                     /\ \A p \in Path :
                          /\ kept'[p].version <= m.version[kept'[p].file]
                          /\ Since(k, p)' => m.version[pinned'[p].file] <= pinned'[p].version
                     /\ \A s \in PlacesOf(call, {"same"}) :
                          s <= taken /\ (\A p \in Path : \E o \in OpensOf(call, p) : k < o /\ o < s)
                          => \A p \in Path : At(m, kept'[p])
        <4>1. PICK m \in moments :
                /\ Timely(m, k)
                /\ \A f \in Files : m.version[f] <= version[f]
                /\ \A p \in Path :
                     /\ kept[p].version <= m.version[kept[p].file]
                     /\ Since(k, p) => m.version[pinned[p].file] <= pinned[p].version
                /\ \A s \in PlacesOf(call, {"same"}) :
                     s <= taken /\ (\A p \in Path : \E o \in OpensOf(call, p) : k < o /\ o < s)
                     => \A p \in Path : At(m, kept[p])
          BY <3>1 DEF BetweenInv
        <4>2. Timely(m, k)' /\ m \in moments' /\ \A f \in Files : m.version[f] <= version'[f]
          BY <2>1, <2>7, <2>8, <4>1
        <4>3. \A p \in Path : Since(k, p)' <=> Since(k, p)
          BY <2>1, CallKept DEF Since
        <4>4. \A p \in Path :
                /\ kept'[p].version <= m.version[kept'[p].file]
                /\ Since(k, p)' => m.version[pinned'[p].file] <= pinned'[p].version
          BY <2>2, <4>1, <4>3
        <4>5. \A s \in PlacesOf(call, {"same"}) :
                s <= taken /\ (\A p \in Path : \E o \in OpensOf(call, p) : k < o /\ o < s)
                => \A p \in Path : At(m, kept'[p])
          BY <2>2, <4>1
        <4> QED
          BY <4>2, <4>4, <4>5
      <3> QED
        BY <2>1, <3>1, CallKept DEF BetweenInv, At, Latest
    <2>14. SinceInv'
      <3>1. ASSUME \A i \in PlacesOf(call, {"pin"}) : i <= taken
            PROVE  \E m \in moments' :
                     /\ held' <= m.context /\ m.context <= context'
                     /\ \A k \in Keeps : Latest(k, Keeps) /\ k <= taken => Timely(m, k)'
                     /\ \A f \in Files : m.version[f] <= version'[f]
                     /\ \A p \in Path :
                          /\ SincePins(p)' => m.version[pinned'[p].file] <= pinned'[p].version
                          /\ \A k \in Keeps :
                               Latest(k, Keeps) /\ k <= taken => m.version[kept'[p].file] <= kept'[p].version
        <4>1. PICK m \in moments :
                /\ held <= m.context /\ m.context <= context
                /\ \A k \in Keeps : Latest(k, Keeps) /\ k <= taken => Timely(m, k)
                /\ \A f \in Files : m.version[f] <= version[f]
                /\ \A p \in Path :
                     /\ SincePins(p) => m.version[pinned[p].file] <= pinned[p].version
                     /\ \A k \in Keeps :
                          Latest(k, Keeps) /\ k <= taken => m.version[kept[p].file] <= kept[p].version
          BY <3>1 DEF SinceInv
        <4>2. m \in moments' /\ m.context <= context' /\ \A f \in Files : m.version[f] <= version'[f]
          BY <2>1, <2>6, <2>7, <4>1
        <4>3. \A k \in Keeps : Latest(k, Keeps) /\ k <= taken => Timely(m, k)'
          BY <2>8, <4>1
        <4> QED
          BY <2>2, <2>11, <4>1, <4>2, <4>3
      <3> QED
        BY <2>1, <3>1, CallKept DEF SinceInv, Latest
    <2> QED
      BY <2>9, <2>10, <2>12, <2>13, <2>14
  <1>3. CASE Refused
    BY <1>3 DEF Refused, MeasureInv, Upright
  <1> QED
    BY <1>1, <1>2, <1>3, StepKinds

-----------------------------------------------------------------------------
(* The theorems.                                                           *)

LEMMA ChainInvariant == ChainSpec => []ChainInv
  <1>1. ChainInit => ChainInv
    BY TypeInit, PinnedInit, LeaseInit, MeasureInit DEF ChainInv, IssuedLast, ChainInit
  <1>2. ChainInv /\ [ChainNext]_chainVars => ChainInv'
    BY TypeStep, OpenedStep, IssuedLastStep, PinnedStep, LeaseStep, MeasureStep DEF ChainInv
  <1> QED
    BY <1>1, <1>2, PTL DEF ChainSpec

\* Whatever is looked at and whatever others do, the state of a call has its
\* type: a look never finds a file, a lease or a place the chain does not have
\* (repository_executable_*.py: what a receipt is put together from).
THEOREM ChainTypeCorrect == ChainSpec => []ChainTypeOK
  <1>1. ChainInv => ChainTypeOK
    BY DEF ChainInv
  <1> QED
    BY <1>1, ChainInvariant, PTL

\* No inspection or staging reads a byte through a directory that the chain
\* stages in, or of a file that it staged, wherever the paths are led while it
\* runs and even if it refuses afterwards: every walk compares what it opens
\* (repository_executable_*.py).
THEOREM ProtectedIsNeverRead == ChainSpec => []NothingProtectedIsRead
  <1>1. ChainInv => NothingProtectedIsRead
    BY DEF ChainInv, PinnedInv, NothingProtectedIsRead
  <1> QED
    BY <1>1, ChainInvariant, PTL

\* The leases that an issued receipt rests on were whole when a file was last
\* read and when the call relied on them last itself, whenever another owner
\* gives one back or closes a descriptor of it: a call that goes by the fields
\* of a lease looks at its descriptors after that.
THEOREM ReceiptsRestOnLiveLeases == ChainSpec => []RestsOnLiveLeases
  <1>1. ASSUME ChainInv, verdict = "issued", NEW l \in call.on, l \notin alive
        PROVE  FALSE
    <2>1. EndsAtLeases(call)
      BY <1>1, ChainAssumption DEF ChainInv, ChainTypeOK, WellOrdered
    <2>2. taken = Len(call.looks) /\ Upright
      BY <1>1 DEF ChainInv, IssuedLast, Upright
    <2>3. \A x \in DOMAIN call.looks : x \in Nat /\ x <= taken
      BY <1>1, <2>2, PlaceRange DEF ChainInv
    <2>4. PICK j \in PlacesOf(call, DescriptorLooks) :
            l \in call.looks[j].of /\ \A i \in DOMAIN call.looks : Relies(call, i, l) => i <= j
      BY <2>1 DEF EndsAtLeases
    <2>5. j \in DOMAIN call.looks
      BY DEF PlacesOf
    <2>6. PICK i \in DOMAIN call.looks : Relies(call, i, l) /\ j < i
      BY <1>1, <2>2, <2>3, <2>4, <2>5 DEF ChainInv, LostLeaseInv
    <2> QED
      BY <2>3, <2>4, <2>5, <2>6
  <1>2. ChainInv => RestsOnLiveLeases
    BY <1>1 DEF RestsOnLiveLeases
  <1> QED
    BY <1>2, ChainInvariant, PTL

\* What an issued receipt says of several files and of the registration was
\* true of all of them at one moment of the call, although they were looked at
\* one after the other while others rewrote, replaced or linked them; the plain
\* resolution promises it of each file.  What was copied is what was measured.
THEOREM ReceiptsAreMeasuredTogether == ChainSpec => []MeasuredTogether
  <1>1. ASSUME ChainInv, verdict = "issued", Measures
        PROVE  /\ IF call.apart
                  THEN \A p \in Path : \E m \in moments : InContext(m) /\ At(m, kept[p])
                  ELSE \E m \in moments : InContext(m) /\ \A p \in Path : At(m, kept[p])
               /\ Copies => copies = kept
    <2>1. call \in AnyCall /\ WellOrdered(call) /\ ChainTypeOK
      BY <1>1, ChainAssumption DEF ChainInv, ChainTypeOK
    <2>2. taken = Len(call.looks) /\ Upright
      BY <1>1 DEF ChainInv, IssuedLast, Upright
    <2>3. \A x \in DOMAIN call.looks : x \in Nat /\ x > 0 /\ x <= taken
      BY <2>1, <2>2, PlaceRange
    <2>4. \A kinds : \A x \in PlacesOf(call, kinds) : x \in Nat /\ x <= taken
      BY <2>3, PlacesAreLooks
    <2>5. AgreeInv /\ CopyInv /\ ApartInv /\ BetweenInv /\ SinceInv
      BY <1>1, <2>2 DEF ChainInv, MeasureInv
    <2>6. PICK k \in Keeps : Latest(k, Keeps)
      BY <1>1, <2>1 DEF Measures, WellOrdered, KeepsWhatWasOpened, Keeps
    <2>7. k \in Nat /\ k <= taken
      BY <2>4, <2>6 DEF Keeps
    <2>8. \A m \in moments : Timely(m, k) => InContext(m)
      BY <2>1, <2>4, <2>6, LastKeep DEF Timely, InContext, Pins
    <2>9. \A p \in Path : kept[p].file \in Files /\ \E m \in moments : InContext(m) /\ At(m, kept[p])
      BY <2>5, <2>6, <2>7, <2>8 DEF ApartInv
    <2>10. ASSUME AsExpected(call), NEW p \in Path
           PROVE  kept[p] = Original(p)
      BY <2>4, <2>5, <2>10 DEF AsExpected, AgreeInv, Keeps, Opens
    <2>11. ASSUME MeasuresTwice(call)
           PROVE  \E m \in moments : InContext(m) /\ \A p \in Path : At(m, kept[p])
      <3>1. PICK j \in Keeps, s \in PlacesOf(call, {"same"}) :
              Latest(j, Keeps) /\ \A p \in Path : \E o \in OpensOf(call, p) : j < o /\ o < s
        BY <2>11 DEF MeasuresTwice, Keeps
      <3>2. j = k /\ s <= taken
        BY <2>4, <2>6, <3>1 DEF Latest, Keeps
      <3>3. \E m \in moments : Timely(m, k) /\ \A p \in Path : At(m, kept[p])
        BY <2>5, <2>6, <2>7, <3>1, <3>2 DEF BetweenInv
      <3> QED
        BY <2>8, <3>3
    <2>12. ASSUME AsExpected(call)
           PROVE  \E m \in moments : InContext(m) /\ \A p \in Path : At(m, kept[p])
      <3>1. PICK m \in moments :
              /\ Timely(m, k)
              /\ \A p \in Path : m.version[kept[p].file] <= kept[p].version
        <4>1. \A i \in PlacesOf(call, {"pin"}) : i <= taken
          BY <2>4
        <4> QED
          BY <2>5, <2>6, <2>7, <4>1 DEF SinceInv
      <3>2. ASSUME NEW p \in Path PROVE At(m, kept[p])
        <4>1. kept[p].version = 0
          <5>1. kept[p] = Original(p)
            BY <2>10, <2>12
          <5>2. Original(p).version = 0
            BY DEF Original
          <5> QED
            BY <5>1, <5>2
        <4>2. m.version[kept[p].file] \in Nat
          BY <2>1, <2>9, <3>1 DEF ChainTypeOK, Moments
        <4>3. m.version[kept[p].file] <= 0
          BY <3>1, <4>1
        <4> QED
          BY <4>1, <4>2, <4>3 DEF At
      <3> QED
        BY <2>8, <3>1, <3>2
    <2>13. Copies => copies = kept
      <3> SUFFICES ASSUME Copies PROVE copies = kept
        OBVIOUS
      <3>1. CopiesWhatIsExpected(call) /\ PlacesOf(call, {"consume"}) # {}
        BY <2>1 DEF WellOrdered, Copies
      <3>2. ASSUME NEW p \in Path PROVE copies[p] = kept[p]
        <4>1. PICK u \in ConsumesOf(call, p), e \in PlacesOf(call, {"expected"}) :
                Latest(u, ConsumesOf(call, p)) /\ u < e /\ CopiedAsExpected(call, u, e)
          BY <3>1 DEF CopiesWhatIsExpected
        <4>2. u \in DOMAIN call.looks /\ u <= taken /\ e <= taken
          BY <2>3, <2>4, PlacesAreLooks
        <4>3. copies[p] = Original(p)
          BY <2>5, <4>1, <4>2 DEF CopyInv
        <4> QED
          BY <2>10, <3>1, <4>3 DEF CopiesWhatIsExpected
      <3> QED
        BY <2>1, <3>2 DEF ChainTypeOK
    <2>14. call.apart \/ MeasuresTwice(call) \/ AsExpected(call)
      BY <1>1, <2>1 DEF Measures, WellOrdered
    <2> QED
      BY <2>9, <2>11, <2>12, <2>13, <2>14
  <1>2. ChainInv => MeasuredTogether
    BY <1>1 DEF MeasuredTogether
  <1> QED
    BY <1>2, ChainInvariant, PTL

-----------------------------------------------------------------------------
(* The lease of a stage. *)

-----------------------------------------------------------------------------
(* The invariant. *)

LeaseRecords ==
  [state : LeaseStates, receipt : BOOLEAN, stuck : BOOLEAN,
   cleanup : {"none", "removed", "absent", "unverifiable"},
   pendName : BOOLEAN, pendFds : SUBSET Fd, files : SUBSET Item, root : BOOLEAN]

FdTables == [Fd -> FdStates]

NameTables == [Item -> {"none", "own", "foreign"}]

\* The places where the root is held and no step has failed yet.
Staging == {"open", "pair", "detach", "write", "single", "install", "verify"}

StagingPlaces == {"idle", "root", "active", "handle", "abort", "done"} \cup Staging

TypeInv == TypeOK /\ pc \in StagingPlaces

HeldBy(l) == l.pendFds \cup {<<i, "reader">> : i \in l.files} \cup (IF l.root THEN {Root} ELSE {})

\* What the lease, with the descriptors `extra' of the frame, answers for:
\* every descriptor that is open is held, one that may not be closed is owned
\* up to, a pending name can be looked for, and so can any name of the lease's.
Answers(s, extra) ==
  /\ \A d \in Fd : s.fds[d] \in {"open", "reused"} => d \in HeldBy(s.lease) \cup extra \/ s.lease.stuck
  /\ \A d \in Fd : s.fds[d] = "limbo" => s.lease.stuck
  /\ s.lease.pendName => s.lease.root /\ s.lease.pendFds # {}
  /\ \A i \in Item : s.names[i] = "own" => s.lease.root

\* Nothing was staged, and nothing is held.
Pristine ==
  /\ lease = NewLease /\ frame = {} /\ written = {} /\ item = 1
  /\ \A i \in Item : names[i] = "none" /\ ~ links[i]
  /\ \A d \in Fd : fds[d] = "none" \/ (d = Root /\ fds[d] = "closed")

\* Where the call is tells the state of the lease.
StateInv ==
  /\ pc = "root" => Pristine
  /\ pc \in {"idle", "done"} /\ lease.state = "new" => Pristine
  /\ pc = "abort" /\ lease.state = "new" /\ Untouched(lease) => Pristine
  /\ pc \in {"root", "active", "handle"} \cup Staging => lease.state = "new"
  /\ pc = "idle" => lease.state \in {"new", "cleaned"}
  /\ pc = "abort" => lease.state \in {"new", "unverifiable"}
  /\ lease.state = "active" => pc = "done"

Writer == <<item, "writer">>
Reader == <<item, "reader">>

\* What the frame and the lease hold at each step.
FrameInv ==
  /\ pc \in {"idle", "root", "open", "verify", "active", "abort", "done"} => frame = {}
  /\ pc = "pair" => frame = {Writer} /\ lease.pendFds = {Writer}
  /\ pc = "detach" => frame = {Writer, Reader} /\ lease.pendFds = {Writer, Reader}
  /\ pc \in {"write", "single"} => frame = {Writer, Reader}
  /\ pc = "install" => frame = {Reader}
  /\ pc \in {"pair", "detach"} => lease.pendName
  /\ pc \in {"open", "write", "single", "install", "verify", "active"} => ~ lease.pendName /\ lease.pendFds = {}
  /\ pc = "handle" =>
       /\ frame \subseteq {Writer, Reader} /\ lease.pendFds \subseteq {Writer, Reader}
       /\ lease.pendName => lease.pendFds = frame
       /\ ~ lease.pendName /\ frame # {} => lease.pendFds = {}
  /\ \A d \in frame : fds[d] = "open"
  /\ pc \in {"handle"} \cup Staging => lease.root /\ fds[Root] = "open"
  /\ pc \in {"active"} \cup Staging => ~ lease.stuck
  /\ pc = "active" => ~ lease.root

\* Which items are done, and that the later ones are not begun.
ItemInv ==
  /\ pc \in {"open", "pair", "detach", "write", "single", "install"} => lease.files = 1 .. item - 1
  /\ pc \in {"verify", "active"} => lease.files = Item
  /\ pc \in {"open", "pair", "detach", "write"} => written = 1 .. item - 1
  /\ pc \in {"single", "install"} => written = 1 .. item
  /\ pc \in {"verify", "active"} => written = Item
  /\ pc \in Staging =>
       \A j \in Item : j > item => names[j] = "none" /\ \A e \in Ends : fds[<<j, e>>] = "none"
  /\ pc = "open" => names[item] = "none" /\ \A e \in Ends : fds[<<item, e>>] = "none"
  /\ pc = "pair" => fds[Reader] = "none"

\* A file that holds bytes, or is about to, has no name and gets none, and only
\* such files are retained.
ContentInv ==
  /\ lease.files \subseteq written
  /\ \A i \in written : names[i] = "none" /\ ~ links[i]
  /\ pc = "write" => names[item] = "none" /\ ~ links[item]

\* What is pending is apart from what is retained.
Readers(l) == {<<i, "reader">> : i \in l.files}

Apart(l) == Root \notin l.pendFds /\ l.pendFds \cap Readers(l) = {}

HoldInv == Answers(Now, frame) /\ Apart(lease) /\ frame \cap Readers(lease) = {}

EndInv ==
  /\ ActiveHoldsExactly
  /\ lease.state = "active" => ~ lease.stuck
  /\ lease.state = "cleaned" => NothingHeld
  /\ pc = "done" /\ result = "invalid" => lease.state = "cleaned" \/ Pristine

LeaseInv ==
  TypeInv /\ StateInv /\ FrameInv /\ ItemInv /\ ContentInv /\ HoldInv /\ EndInv

\* Undisturbed, nothing is out of its place.
Calm ==
  /\ ~ stray /\ ~ moved /\ \A i \in Item : ~ links[i]
  /\ pc \notin {"handle", "abort"} /\ lease.state # "unverifiable"
  /\ \A i \in Item : names[i] = IF pc \in {"pair", "detach"} /\ i = item THEN "own" ELSE "none"
  /\ pc \in {"active"} \cup Staging \/ lease.state = "active" =>
       \A i \in lease.files : fds[<<i, "reader">>] = "open"

CalmInv == faults = 0 /\ meddles = 0 => Calm

-----------------------------------------------------------------------------
(* Descriptors, and the states of a cleanup. *)

LEMMA Numbers ==
  /\ Items \in Nat \ {0} /\ 1 \in Item /\ Item \subseteq Nat /\ 0 \notin Item
  /\ \A n \in Nat : n \in Item <=> 1 <= n /\ n <= Items
  BY StageAssumption DEF Item

LEMMA Descriptors ==
  /\ Root \in Fd /\ Look \notin Fd /\ Sync \notin Fd
  /\ \A i \in Item, e \in Ends : <<i, e>> \in Fd /\ <<i, e>> # Root
  /\ \A d \in Fd : d = Root \/ \E i \in Item, e \in Ends : d = <<i, e>>
  /\ \A i, j \in Item, e, f \in Ends : <<i, e>> = <<j, f>> => i = j /\ e = f
  /\ Ends = {"writer", "reader"}
<1>1. 0 \notin Item
  BY Numbers
<1> QED
  BY <1>1 DEF Root, Look, Sync, Fd, Ends

LEMMA ClosedMeans ==
  ASSUME NEW f \in FdTables, NEW ds, NEW failing
  PROVE  /\ Closed(f, ds, failing) \in FdTables
         /\ \A d \in Fd : Closed(f, ds, failing)[d] =
              IF d \notin ds THEN f[d] ELSE IF d \in failing THEN "limbo" ELSE "closed"
  BY DEF Closed, FdTables, FdStates

CStates == [lease : LeaseRecords, fds : FdTables, names : NameTables, ok : BOOLEAN]

\* A cleanup closes what is open and removes what is its own, and no more.
Tidies(s, t) ==
  /\ t \in CStates
  /\ \A d \in Fd : t.fds[d] = s.fds[d] \/ (s.fds[d] = "open" /\ t.fds[d] \in {"closed", "limbo"})
  /\ \A i \in Item : t.names[i] = s.names[i] \/ (s.names[i] = "own" /\ t.names[i] = "none")
  /\ t.lease.receipt = s.lease.receipt
  /\ t.lease.pendFds \subseteq s.lease.pendFds /\ t.lease.files \subseteq s.lease.files
  /\ s.lease.stuck => t.lease.stuck

LEMMA TidiesTwice ==
  ASSUME NEW s, NEW t, NEW u, Tidies(s, t), Tidies(t, u)
  PROVE  Tidies(s, u)
  BY DEF Tidies

LEMMA NowIsState ==
  ASSUME TypeInv
  PROVE  /\ Now \in CStates /\ Tidies(Now, Now)
         /\ Now.lease = lease /\ Now.fds = fds /\ Now.names = names /\ Now.ok = TRUE
<1>1. Now \in CStates /\ Now.lease = lease /\ Now.fds = fds /\ Now.names = names /\ Now.ok = TRUE
  BY DEF TypeInv, TypeOK, Now, CStates, LeaseRecords, FdTables, NameTables
<1> QED
  BY <1>1 DEF Tidies

\* Giving up, and being done.
LEMMA MarkedMeans ==
  ASSUME NEW s \in CStates
  PROVE  LET t == Marked(s)
         IN  /\ t \in CStates /\ Tidies(s, t) /\ t.fds = s.fds /\ t.names = s.names /\ ~ t.ok
             /\ t.lease.state = "unverifiable" /\ t.lease.stuck = s.lease.stuck
             /\ t.lease.pendName = s.lease.pendName /\ t.lease.pendFds = s.lease.pendFds
             /\ t.lease.files = s.lease.files /\ t.lease.root = s.lease.root
             /\ \A extra : Answers(s, extra) => Answers(t, extra)
<1> DEFINE t == Marked(s)
<1>1. /\ t \in CStates /\ t.fds = s.fds /\ t.names = s.names /\ t.ok = FALSE
      /\ t.lease.state = "unverifiable" /\ t.lease.stuck = s.lease.stuck /\ t.lease.receipt = s.lease.receipt
      /\ t.lease.pendName = s.lease.pendName /\ t.lease.pendFds = s.lease.pendFds
      /\ t.lease.files = s.lease.files /\ t.lease.root = s.lease.root
  BY DEF Marked, CStates, LeaseRecords, LeaseStates
<1> HIDE DEF t
<1>2. Tidies(s, t)
  BY <1>1 DEF Tidies
<1>3. \A extra : Answers(s, extra) => Answers(t, extra)
  BY <1>1 DEF Answers, HeldBy
<1> QED
  BY <1>1, <1>2, <1>3 DEF t

LEMMA CleanedMeans ==
  ASSUME NEW s \in CStates, NEW outcome \in {"removed", "absent"}
  PROVE  LET t == Cleaned(s, outcome)
         IN  /\ t \in CStates /\ Tidies(s, t) /\ t.fds = s.fds /\ t.names = s.names /\ t.ok
             /\ t.lease.state = "cleaned" /\ t.lease.stuck = s.lease.stuck
             /\ t.lease.pendName = s.lease.pendName /\ t.lease.pendFds = s.lease.pendFds
             /\ t.lease.files = s.lease.files /\ t.lease.root = s.lease.root
             /\ \A extra : Answers(s, extra) => Answers(t, extra)
<1> DEFINE t == Cleaned(s, outcome)
<1>1. /\ t \in CStates /\ t.fds = s.fds /\ t.names = s.names /\ t.ok = TRUE
      /\ t.lease.state = "cleaned" /\ t.lease.stuck = s.lease.stuck /\ t.lease.receipt = s.lease.receipt
      /\ t.lease.pendName = s.lease.pendName /\ t.lease.pendFds = s.lease.pendFds
      /\ t.lease.files = s.lease.files /\ t.lease.root = s.lease.root
  BY DEF Cleaned, CStates, LeaseRecords, LeaseStates
<1> HIDE DEF t
<1>2. Tidies(s, t)
  BY <1>1 DEF Tidies
<1>3. \A extra : Answers(s, extra) => Answers(t, extra)
  BY <1>1 DEF Answers, HeldBy
<1> QED
  BY <1>1, <1>2, <1>3 DEF t

\* A step that could not be verified differs in its verdict only.
LEMMA RefusedMeans ==
  ASSUME NEW s \in CStates, NEW ok \in BOOLEAN
  PROVE  LET t == [s EXCEPT !.ok = ok]
         IN  /\ t \in CStates /\ Tidies(s, t) /\ t.fds = s.fds /\ t.names = s.names /\ t.ok = ok
             /\ t.lease = s.lease
             /\ \A extra : Answers(s, extra) => Answers(t, extra)
<1> DEFINE t == [s EXCEPT !.ok = ok]
<1>1. t \in CStates /\ t.fds = s.fds /\ t.names = s.names /\ t.ok = ok /\ t.lease = s.lease
  BY DEF CStates
<1> HIDE DEF t
<1>2. Tidies(s, t)
  BY <1>1 DEF Tidies
<1>3. \A extra : Answers(s, extra) => Answers(t, extra)
  BY <1>1 DEF Answers
<1> QED
  BY <1>1, <1>2, <1>3 DEF t

\* The ways the look for a pending name ends.
PendingKnown(s) == s.lease.root /\ s.fds[Root] = "open" /\ s.lease.pendName /\ s.lease.pendFds # {}

AttemptFails(s, i, failing, t) ==
  /\ t.lease = s.lease /\ t.fds = s.fds /\ t.ok = FALSE
  /\ \/ ~ PendingKnown(s) \/ Look \in failing \/ s.names[i] = "foreign" \/ ~ Detached(i) \/ moved
     \/ Sync \in failing \/ \E d \in s.lease.pendFds : ~ Ours(s, d)

AttemptCloses(s, i, failing, t) ==
  /\ PendingKnown(s) /\ \A d \in s.lease.pendFds : s.fds[d] = "open"
  /\ t.names[i] # "own"
  /\ t.fds = Closed(s.fds, s.lease.pendFds, failing)
  /\ t.lease.pendName = FALSE /\ t.lease.pendFds = {}
  /\ t.lease.stuck = (s.lease.stuck \/ s.lease.pendFds \cap failing # {})
  /\ t.ok = (s.lease.pendFds \cap failing = {})

AttemptEnds(s, i, failing, t) ==
  /\ t \in CStates
  /\ t.lease.state = s.lease.state /\ t.lease.receipt = s.lease.receipt
  /\ t.lease.files = s.lease.files /\ t.lease.root = s.lease.root
  /\ t.names = s.names \/ t.names = [s.names EXCEPT ![i] = IF @ = "own" THEN "none" ELSE @]
  /\ AttemptFails(s, i, failing, t) \/ AttemptCloses(s, i, failing, t)

LEMMA AttemptIs ==
  ASSUME NEW s \in CStates, NEW i \in Item, NEW failing
  PROVE  AttemptEnds(s, i, failing, AttemptPendingName(s, i, failing))
<1> DEFINE pending == s.lease.pendFds
           known == PendingKnown(s)
           unlinked == [s EXCEPT !.names[i] = IF @ = "own" THEN "none" ELSE @]
           names1 == [s.names EXCEPT ![i] = IF @ = "own" THEN "none" ELSE @]
           u == [unlinked EXCEPT
                   !.fds = Closed(@, pending, failing),
                   !.lease.pendName = FALSE,
                   !.lease.pendFds = {},
                   !.lease.stuck = @ \/ pending \cap failing # {},
                   !.ok = pending \cap failing = {}]
           t == AttemptPendingName(s, i, failing)
<1>1. s.fds \in FdTables /\ s.names \in NameTables /\ s.lease \in LeaseRecords /\ s.lease.stuck \in BOOLEAN
  BY DEF CStates, LeaseRecords
<1>2. names1 \in NameTables /\ names1[i] # "own"
  BY <1>1 DEF NameTables
<1>3. unlinked \in CStates /\ unlinked.names = names1 /\ unlinked.fds = s.fds /\ unlinked.lease = s.lease
  BY <1>2 DEF CStates
<1>4. t = IF ~ known \/ Look \in failing \/ s.names[i] = "foreign"
          THEN [s EXCEPT !.ok = FALSE]
          ELSE IF ~ Detached(i) \/ moved \/ Sync \in failing \/ \E d \in pending : ~ Ours(s, d)
          THEN [unlinked EXCEPT !.ok = FALSE]
          ELSE u
  BY DEF AttemptPendingName, PendingKnown
<1>5. Closed(s.fds, pending, failing) \in FdTables
  BY <1>1, ClosedMeans
<1> HIDE DEF unlinked, names1
<1>6. /\ u \in CStates /\ u.names = names1 /\ u.fds = Closed(s.fds, pending, failing)
      /\ u.lease.state = s.lease.state /\ u.lease.receipt = s.lease.receipt
      /\ u.lease.files = s.lease.files /\ u.lease.root = s.lease.root
      /\ u.lease.pendName = FALSE /\ u.lease.pendFds = {}
      /\ u.lease.stuck = (s.lease.stuck \/ pending \cap failing # {})
      /\ u.ok = (pending \cap failing = {})
  <2> DEFINE A == Closed(s.fds, pending, failing)
             b == (pending \cap failing = {})
             c == (s.lease.stuck \/ pending \cap failing # {})
  <2>1. u = [unlinked EXCEPT !.fds = A, !.lease.pendName = FALSE, !.lease.pendFds = {},
                             !.lease.stuck = c, !.ok = b]
    BY <1>3
  <2>2. A \in FdTables /\ b \in BOOLEAN /\ c \in BOOLEAN
    BY <1>5
  <2> HIDE DEF A, b, c, u
  <2>3. /\ u \in CStates /\ u.names = names1 /\ u.fds = A
        /\ u.lease.state = s.lease.state /\ u.lease.receipt = s.lease.receipt
        /\ u.lease.files = s.lease.files /\ u.lease.root = s.lease.root
        /\ u.lease.pendName = FALSE /\ u.lease.pendFds = {}
        /\ u.lease.stuck = c /\ u.ok = b
    BY <1>1, <1>2, <1>3, <2>1, <2>2 DEF CStates, LeaseRecords
  <2> QED
    BY <2>3 DEF A, b, c
<1>7. CASE ~ known \/ Look \in failing \/ s.names[i] = "foreign"
  <2>1. t = [s EXCEPT !.ok = FALSE]
    BY <1>4, <1>7
  <2> HIDE DEF t, u, known, pending
  <2>2. t \in CStates /\ t.names = s.names /\ t.fds = s.fds /\ t.lease = s.lease /\ t.ok = FALSE
    BY <2>1 DEF CStates
  <2> QED
    BY <1>7, <2>2 DEF t, known, pending, AttemptEnds, AttemptFails, AttemptCloses
<1>8. CASE /\ ~ (~ known \/ Look \in failing \/ s.names[i] = "foreign")
           /\ ~ Detached(i) \/ moved \/ Sync \in failing \/ \E d \in pending : ~ Ours(s, d)
  <2>1. t = [unlinked EXCEPT !.ok = FALSE]
    BY <1>4, <1>8
  <2> HIDE DEF t, u, known, pending
  <2>2. t \in CStates /\ t.names = names1 /\ t.fds = s.fds /\ t.lease = s.lease /\ t.ok = FALSE
    BY <1>3, <2>1 DEF CStates
  <2> QED
    BY <1>8, <2>2 DEF t, known, pending, names1, AttemptEnds, AttemptFails, AttemptCloses
<1>9. CASE /\ ~ (~ known \/ Look \in failing \/ s.names[i] = "foreign")
           /\ ~ (~ Detached(i) \/ moved \/ Sync \in failing \/ \E d \in pending : ~ Ours(s, d))
  <2>1. t = u
    BY <1>4, <1>9
  <2>2. known /\ \A d \in pending : s.fds[d] = "open"
    BY <1>9 DEF Ours
  <2> HIDE DEF t, u, known, pending
  <2> QED
    BY <1>2, <1>6, <2>1, <2>2 DEF t, known, pending, names1, AttemptEnds, AttemptFails, AttemptCloses
<1> QED
  BY <1>7, <1>8, <1>9

LEMMA AttemptMeans ==
  ASSUME NEW s \in CStates, NEW i \in Item, NEW failing, NEW extra, Answers(s, extra)
  PROVE  LET t == AttemptPendingName(s, i, failing)
         IN  /\ Tidies(s, t) /\ Answers(t, extra)
             /\ t.lease.state = s.lease.state /\ t.lease.files = s.lease.files /\ t.lease.root = s.lease.root
             /\ t.ok => /\ ~ t.lease.pendName /\ t.lease.pendFds = {} /\ t.lease.stuck = s.lease.stuck
                        /\ s.lease.pendName /\ \A d \in s.lease.pendFds : t.fds[d] = "closed"
             /\ ~ t.ok => \/ t.lease.pendName = s.lease.pendName /\ t.lease.pendFds = s.lease.pendFds
                             /\ t.fds = s.fds /\ t.lease.stuck = s.lease.stuck
                          \/ ~ t.lease.pendName /\ t.lease.pendFds = {} /\ t.lease.stuck
<1> DEFINE t == AttemptPendingName(s, i, failing)
           pending == s.lease.pendFds
<1>a. AttemptEnds(s, i, failing, t)
  BY AttemptIs
<1>0. /\ t \in CStates
      /\ t.lease.state = s.lease.state /\ t.lease.receipt = s.lease.receipt
      /\ t.lease.files = s.lease.files /\ t.lease.root = s.lease.root
      /\ t.names = s.names \/ t.names = [s.names EXCEPT ![i] = IF @ = "own" THEN "none" ELSE @]
      /\ \/ t.lease = s.lease /\ t.fds = s.fds /\ t.ok = FALSE
         \/ /\ s.lease.root /\ s.lease.pendName /\ \A d \in pending : s.fds[d] = "open"
            /\ t.fds = Closed(s.fds, pending, failing)
            /\ t.lease.pendName = FALSE /\ t.lease.pendFds = {}
            /\ t.lease.stuck = (s.lease.stuck \/ pending \cap failing # {})
            /\ t.ok = (pending \cap failing = {})
  BY <1>a DEF AttemptEnds, AttemptFails, AttemptCloses, PendingKnown
<1>1. /\ s.fds \in FdTables /\ s.names \in NameTables /\ pending \subseteq Fd
      /\ s.lease.stuck \in BOOLEAN /\ t.lease.stuck \in BOOLEAN
  BY <1>0 DEF CStates, LeaseRecords
<1>2. \A d \in Fd : Closed(s.fds, pending, failing)[d] =
        IF d \notin pending THEN s.fds[d] ELSE IF d \in failing THEN "limbo" ELSE "closed"
  BY <1>1, ClosedMeans
<1> HIDE DEF t, pending
<1>3. \A j \in Item : t.names[j] = s.names[j] \/ (s.names[j] = "own" /\ t.names[j] = "none")
  BY <1>0, <1>1 DEF NameTables
<1>4. CASE t.lease = s.lease /\ t.fds = s.fds /\ t.ok = FALSE
  <2>1. Tidies(s, t)
    BY <1>0, <1>3, <1>4 DEF Tidies
  <2>2. Answers(t, extra)
    BY <1>3, <1>4 DEF Answers
  <2> QED
    BY <1>0, <1>4, <2>1, <2>2 DEF t
<1>5. CASE /\ s.lease.root /\ s.lease.pendName /\ \A d \in pending : s.fds[d] = "open"
           /\ t.fds = Closed(s.fds, pending, failing)
           /\ t.lease.pendName = FALSE /\ t.lease.pendFds = {}
           /\ t.lease.stuck = (s.lease.stuck \/ pending \cap failing # {})
           /\ t.ok = (pending \cap failing = {})
  <2>1. Tidies(s, t)
    BY <1>0, <1>1, <1>2, <1>3, <1>5 DEF Tidies
  <2>2. Answers(t, extra)
    <3>1. ASSUME NEW d \in Fd, t.fds[d] \in {"open", "reused"}
          PROVE  d \in HeldBy(t.lease) \cup extra \/ t.lease.stuck
      <4>1. d \notin pending /\ t.fds[d] = s.fds[d]
        BY <1>2, <1>5, <3>1
      <4>2. d \in HeldBy(s.lease) \cup extra \/ s.lease.stuck
        BY <3>1, <4>1 DEF Answers
      <4> QED
        BY <1>0, <1>5, <4>1, <4>2 DEF HeldBy, pending
    <3>2. ASSUME NEW d \in Fd, t.fds[d] = "limbo" PROVE t.lease.stuck
      <4>1. CASE d \in pending
        <5>1. pending \cap failing # {}
          BY <1>2, <1>5, <3>2, <4>1
        <5> QED
          BY <1>5, <5>1
      <4>2. CASE d \notin pending
        <5>1. s.lease.stuck
          BY <1>2, <1>5, <3>2, <4>2 DEF Answers
        <5> QED
          BY <1>5, <5>1
      <4> QED
        BY <4>1, <4>2
    <3> QED
      BY <1>0, <1>3, <1>5, <3>1, <3>2 DEF Answers
  <2>3. t.ok => t.lease.stuck = s.lease.stuck /\ \A d \in pending : t.fds[d] = "closed"
    BY <1>1, <1>2, <1>5
  <2> QED
    BY <1>0, <1>5, <2>1, <2>2, <2>3 DEF t, pending
<1> QED
  BY <1>0, <1>4, <1>5 DEF t, pending

LEMMA AttemptClosesPending ==
  ASSUME NEW s \in CStates, NEW i \in Item, NEW failing, AttemptPendingName(s, i, failing).ok
  PROVE  \A d \in s.lease.pendFds : AttemptPendingName(s, i, failing).fds[d] = "closed"
<1> DEFINE t == AttemptPendingName(s, i, failing)
<1>1. AttemptEnds(s, i, failing, t) /\ t.ok
  BY AttemptIs
<1> HIDE DEF t
<1>2. t.fds = Closed(s.fds, s.lease.pendFds, failing) /\ s.lease.pendFds \cap failing = {}
  BY <1>1 DEF AttemptEnds, AttemptFails, AttemptCloses
<1>3. s.fds \in FdTables /\ s.lease.pendFds \subseteq Fd
  BY DEF CStates, LeaseRecords
<1>4. \A d \in Fd : t.fds[d] = IF d \notin s.lease.pendFds THEN s.fds[d]
                               ELSE IF d \in failing THEN "limbo" ELSE "closed"
  BY <1>2, <1>3, ClosedMeans
<1> QED
  BY <1>2, <1>3, <1>4 DEF t

\* No retained file has a link again.
Unlinked(s) == \A i \in s.lease.files : Detached(i)

LEMMA ReleaseFilesMeans ==
  ASSUME NEW s \in CStates, NEW failing, Unlinked(s)
  PROVE  LET t == ReleaseFiles(s, failing)
         IN  /\ Tidies(s, t) /\ \A extra : Answers(s, extra) => Answers(t, extra)
             /\ t.lease.state = s.lease.state /\ t.lease.root = s.lease.root /\ t.lease.files = {}
             /\ t.lease.pendName = s.lease.pendName /\ t.lease.pendFds = s.lease.pendFds
             /\ t.names = s.names
             /\ t.ok = ~ t.lease.stuck
             /\ t.fds[Root] = s.fds[Root]
             /\ \A d \in Fd : t.fds[d] # s.fds[d] => d \in Readers(s.lease)
             /\ /\ ~ s.lease.stuck /\ \A d \in Readers(s.lease) : s.fds[d] = "open"
                /\ \A d \in Readers(s.lease) : d \in failing => t.fds[d] = s.fds[d]
                => t.ok
<1> DEFINE readers == Readers(s.lease)
           ours == {d \in readers : Ours(s, d)}
           lost == readers # ours \/ ours \cap failing # {}
           A == Closed(s.fds, ours, failing)
           c == (s.lease.stuck \/ lost)
           b == ~ c
           t == ReleaseFiles(s, failing)
<1>1. t = [s EXCEPT !.fds = A, !.lease.files = {}, !.lease.stuck = c, !.ok = b]
  <2> DEFINE linked == {i \in s.lease.files : Ours(s, <<i, "reader">>) /\ ~ Detached(i)}
  <2>1. linked = {}
    BY DEF Unlinked
  <2>2. {<<i, "reader">> : i \in s.lease.files \ linked} = readers
    BY <2>1 DEF Readers
  <2> QED
    BY <2>1, <2>2 DEF ReleaseFiles
<1>2. /\ s.fds \in FdTables /\ readers \subseteq Fd /\ Root \notin readers /\ s.lease.stuck \in BOOLEAN
  <2>1. s.fds \in FdTables /\ s.lease.stuck \in BOOLEAN /\ s.lease.files \subseteq Item
    BY DEF CStates, LeaseRecords
  <2>2. ASSUME NEW i \in Item PROVE <<i, "reader">> \in Fd /\ <<i, "reader">> # Root
    <3>1. "reader" \in Ends
      BY DEF Ends
    <3> QED
      BY <3>1, Descriptors
  <2> QED
    BY <2>1, <2>2 DEF Readers
<1>3. /\ A \in FdTables /\ b \in BOOLEAN /\ c \in BOOLEAN
      /\ \A d \in Fd : A[d] = IF d \notin ours THEN s.fds[d] ELSE IF d \in failing THEN "limbo" ELSE "closed"
  BY <1>2, ClosedMeans
<1>4. \A d \in ours : d \in readers /\ s.fds[d] = "open"
  BY DEF Ours
<1>5. \A d \in readers : s.fds[d] = "open" => d \in ours
  BY DEF Ours
<1>6. lost <=> readers # ours \/ ours \cap failing # {}
  OBVIOUS
<1> HIDE DEF A, t, readers, ours, lost
<1>7. /\ t \in CStates /\ t.names = s.names /\ t.fds = A /\ t.ok = b
      /\ t.lease.state = s.lease.state /\ t.lease.receipt = s.lease.receipt
      /\ t.lease.files = {} /\ t.lease.root = s.lease.root
      /\ t.lease.pendName = s.lease.pendName /\ t.lease.pendFds = s.lease.pendFds
      /\ t.lease.stuck = c
  <2> HIDE DEF b, c
  <2> QED
    BY <1>1, <1>3 DEF CStates, LeaseRecords
<1>8. Tidies(s, t)
  BY <1>2, <1>3, <1>4, <1>7 DEF Tidies
<1>9. ASSUME NEW extra, Answers(s, extra) PROVE Answers(t, extra)
  <2>1. ASSUME NEW d \in Fd, t.fds[d] \in {"open", "reused"}
        PROVE  d \in HeldBy(t.lease) \cup extra \/ t.lease.stuck
    <3>1. d \notin ours /\ t.fds[d] = s.fds[d]
      BY <1>3, <1>7, <2>1
    <3>2. d \in HeldBy(s.lease) \cup extra \/ s.lease.stuck
      BY <1>9, <2>1, <3>1 DEF Answers
    <3>3. d \in readers => t.lease.stuck
      BY <1>6, <1>7, <3>1
    <3>4. HeldBy(s.lease) \subseteq HeldBy(t.lease) \cup readers
      BY <1>7 DEF HeldBy, readers, Readers
    <3> QED
      BY <1>7, <3>2, <3>3, <3>4
  <2>2. ASSUME NEW d \in Fd, t.fds[d] = "limbo" PROVE t.lease.stuck
    BY <1>3, <1>6, <1>7, <1>9, <2>2 DEF Answers
  <2> QED
    BY <1>7, <1>9, <2>1, <2>2 DEF Answers
<1>10. ASSUME ~ s.lease.stuck, \A d \in readers : s.fds[d] = "open",
              \A d \in readers : d \in failing => t.fds[d] = s.fds[d]
       PROVE  t.ok
  <2>1. readers = ours
    BY <1>4, <1>5, <1>10
  <2>2. ours \cap failing = {}
    BY <1>2, <1>3, <1>7, <1>10, <2>1
  <2> QED
    BY <1>6, <1>7, <1>10, <2>1, <2>2
<1>11. t.fds[Root] = s.fds[Root] /\ \A d \in Fd : t.fds[d] # s.fds[d] => d \in readers
  BY <1>2, <1>3, <1>4, <1>7, Descriptors
<1>12. t.ok = ~ t.lease.stuck
  BY <1>7
<1> QED
  BY <1>7, <1>8, <1>9, <1>10, <1>11, <1>12 DEF t, readers

LEMMA CloseRootMeans ==
  ASSUME NEW s \in CStates, NEW failing, ~ s.lease.pendName,
         s.lease.root => \A i \in Item : s.names[i] # "own"
  PROVE  LET t == CloseRoot(s, failing)
         IN  /\ Tidies(s, t) /\ \A extra : Answers(s, extra) => Answers(t, extra)
             /\ t.lease.state = s.lease.state /\ ~ t.lease.root /\ t.lease.files = s.lease.files
             /\ t.lease.pendName = s.lease.pendName /\ t.lease.pendFds = s.lease.pendFds
             /\ t.names = s.names
             /\ t.ok => t.lease.stuck = s.lease.stuck
             /\ t.ok /\ s.lease.root => t.fds = [s.fds EXCEPT ![Root] = "closed"]
             /\ \A d \in Fd : t.fds[d] # s.fds[d] => d = Root
             /\ ~ t.ok => t.lease.stuck
             /\ ~ s.lease.root => t.ok = ~ s.lease.stuck
             /\ s.lease.root /\ s.fds[Root] = "open" /\ (Root \in failing => t.fds[Root] = s.fds[Root]) => t.ok
<1> DEFINE t == CloseRoot(s, failing)
<1>0. /\ s.fds \in FdTables /\ s.lease.stuck \in BOOLEAN /\ s.lease.root \in BOOLEAN /\ s.lease \in LeaseRecords
      /\ Root \in Fd
  BY Descriptors DEF CStates, LeaseRecords
<1>1. CASE ~ s.lease.root
  <2> DEFINE b == ~ s.lease.stuck
  <2>1. t = [s EXCEPT !.ok = b]
    BY <1>1 DEF CloseRoot
  <2>2. b \in BOOLEAN
    OBVIOUS
  <2> HIDE DEF t, b
  <2>3. /\ t \in CStates /\ Tidies(s, t) /\ t.fds = s.fds /\ t.names = s.names /\ t.ok = b /\ t.lease = s.lease
        /\ \A extra : Answers(s, extra) => Answers(t, extra)
    BY <2>1, <2>2, RefusedMeans
  <2> QED
    BY <1>0, <1>1, <2>3 DEF t, b
<1>2. CASE s.lease.root /\ s.fds[Root] = "open" /\ Root \notin failing
  <2> DEFINE A == [s.fds EXCEPT ![Root] = "closed"]
  <2>1. t = [s EXCEPT !.fds = A, !.lease.root = FALSE, !.ok = TRUE]
    BY <1>2 DEF CloseRoot
  <2>2. A \in FdTables /\ A[Root] = "closed" /\ \A d \in Fd : d # Root => A[d] = s.fds[d]
    BY <1>0 DEF FdTables, FdStates
  <2> HIDE DEF t, A
  <2>3. /\ t \in CStates /\ t.names = s.names /\ t.fds = A /\ t.ok = TRUE
        /\ t.lease.state = s.lease.state /\ t.lease.receipt = s.lease.receipt
        /\ t.lease.files = s.lease.files /\ t.lease.root = FALSE /\ t.lease.stuck = s.lease.stuck
        /\ t.lease.pendName = s.lease.pendName /\ t.lease.pendFds = s.lease.pendFds
    BY <1>0, <2>1, <2>2 DEF CStates, LeaseRecords
  <2>4. Tidies(s, t)
    BY <1>2, <2>2, <2>3 DEF Tidies
  <2>5. \A extra : Answers(s, extra) => Answers(t, extra)
    BY <1>2, <2>2, <2>3 DEF Answers, HeldBy
  <2>6. \A d \in Fd : t.fds[d] # s.fds[d] => d = Root
    BY <2>2, <2>3
  <2> QED
    BY <1>2, <2>3, <2>4, <2>5, <2>6 DEF t, A
<1>3. CASE s.lease.root /\ ~ (s.fds[Root] = "open" /\ Root \notin failing)
  <2> DEFINE x == IF s.fds[Root] = "open" THEN "limbo" ELSE s.fds[Root]
             A == [s.fds EXCEPT ![Root] = x]
  <2>1. t = [s EXCEPT !.fds = A, !.lease.root = FALSE, !.lease.stuck = TRUE, !.ok = FALSE]
    BY <1>0, <1>3 DEF CloseRoot
  <2>2. A \in FdTables /\ A[Root] = x /\ \A d \in Fd : d # Root => A[d] = s.fds[d]
    BY <1>0 DEF FdTables, FdStates
  <2>3. x = s.fds[Root] \/ (s.fds[Root] = "open" /\ x = "limbo")
    OBVIOUS
  <2> HIDE DEF t, A, x
  <2>4. /\ t \in CStates /\ t.names = s.names /\ t.fds = A /\ t.ok = FALSE
        /\ t.lease.state = s.lease.state /\ t.lease.receipt = s.lease.receipt
        /\ t.lease.files = s.lease.files /\ t.lease.root = FALSE /\ t.lease.stuck = TRUE
        /\ t.lease.pendName = s.lease.pendName /\ t.lease.pendFds = s.lease.pendFds
    BY <1>0, <2>1, <2>2 DEF CStates, LeaseRecords
  <2>5. Tidies(s, t)
    BY <2>2, <2>3, <2>4 DEF Tidies
  <2>6. \A extra : Answers(s, extra) => Answers(t, extra)
    BY <1>3, <2>2, <2>3, <2>4 DEF Answers, HeldBy
  <2>7. \A d \in Fd : t.fds[d] # s.fds[d] => d = Root
    BY <2>2, <2>4
  <2>8. ~ (s.fds[Root] = "open" /\ (Root \in failing => t.fds[Root] = s.fds[Root]))
    BY <1>3, <2>2, <2>4 DEF x
  <2> QED
    BY <1>3, <2>4, <2>5, <2>6, <2>7, <2>8 DEF t
<1> QED
  BY <1>1, <1>2, <1>3

LEMMA RootCheckedMeans ==
  ASSUME NEW s \in CStates, NEW failing
  PROVE  LET t == RootChecked(s, failing)
         IN  /\ t \in CStates /\ Tidies(s, t) /\ t.fds = s.fds /\ t.names = s.names /\ t.lease = s.lease
             /\ \A extra : Answers(s, extra) => Answers(t, extra)
             /\ s.lease.root => t.ok = (RootVerified(s) /\ Look \notin failing)
             /\ ~ s.lease.root => t.ok
             /\ t.ok /\ s.lease.root => s.fds[Root] = "open" /\ \A i \in Item : s.names[i] = "none"
<1> DEFINE b == (s.lease.root => RootVerified(s) /\ Look \notin failing)
<1>1. RootChecked(s, failing) = [s EXCEPT !.ok = b]
  BY DEF RootChecked
<1>2. b \in BOOLEAN
  OBVIOUS
<1>3. b /\ s.lease.root => s.fds[Root] = "open" /\ \A i \in Item : s.names[i] = "none"
  BY DEF RootVerified, RootEmpty
<1>4. /\ s.lease.root => b = (RootVerified(s) /\ Look \notin failing)
      /\ ~ s.lease.root => b = TRUE
  BY DEF RootVerified
<1> HIDE DEF b
<1> QED
  BY <1>1, <1>2, <1>3, <1>4, RefusedMeans

LEMMA ReleasePendingMeans ==
  ASSUME NEW s \in CStates, NEW i \in Item, NEW failing, ~ s.lease.pendName
  PROVE  LET t == ReleasePending(s, i, failing)
         IN  /\ Tidies(s, t) /\ \A extra : Answers(s, extra) => Answers(t, extra)
             /\ t.lease.state = s.lease.state /\ t.lease.root = s.lease.root /\ t.lease.files = s.lease.files
             /\ ~ t.lease.pendName /\ t.names = s.names
             /\ t.ok => t.lease.pendFds = {}
             /\ \A d \in Fd : t.fds[d] # s.fds[d] => d \in s.lease.pendFds
             /\ /\ ~ links[i] /\ ~ s.lease.stuck /\ failing = {}
                /\ \A d \in s.lease.pendFds : s.fds[d] = "open"
                => t.ok /\ ~ t.lease.stuck
<1> DEFINE pending == s.lease.pendFds
           spared == {d \in pending : s.fds[d] = "open" /\ links[i]}
           ours == {d \in pending : s.fds[d] = "open"} \ spared
           lost == pending \ (spared \cup ours)
           A == Closed(s.fds, ours, failing)
           c == (s.lease.stuck \/ lost # {} \/ ours \cap failing # {})
           b == (spared = {})
           t == ReleasePending(s, i, failing)
<1>1. t = [s EXCEPT !.fds = A, !.lease.pendFds = spared, !.lease.stuck = c, !.ok = b]
  BY DEF ReleasePending
<1>2. s.fds \in FdTables /\ pending \subseteq Fd /\ s.lease.stuck \in BOOLEAN
  BY DEF CStates, LeaseRecords
<1>3. /\ A \in FdTables /\ b \in BOOLEAN /\ c \in BOOLEAN /\ spared \subseteq Fd
      /\ \A d \in Fd : A[d] = IF d \notin ours THEN s.fds[d] ELSE IF d \in failing THEN "limbo" ELSE "closed"
  BY <1>2, ClosedMeans
<1>4. /\ \A d \in ours : d \in pending /\ s.fds[d] = "open" /\ ~ links[i]
      /\ \A d \in pending : d \in spared \/ d \in ours \/ d \in lost
      /\ \A d \in spared : d \in pending /\ links[i]
      /\ \A d \in lost : s.fds[d] # "open"
  OBVIOUS
<1> HIDE DEF A, t, spared, ours, lost, pending
<1>7. /\ t \in CStates /\ t.names = s.names /\ t.fds = A /\ t.ok = b
      /\ t.lease.state = s.lease.state /\ t.lease.receipt = s.lease.receipt
      /\ t.lease.files = s.lease.files /\ t.lease.root = s.lease.root
      /\ t.lease.pendName = s.lease.pendName /\ t.lease.pendFds = spared
      /\ t.lease.stuck = c
  <2> HIDE DEF b, c
  <2> QED
    BY <1>1, <1>3 DEF CStates, LeaseRecords
<1>8. Tidies(s, t)
  BY <1>2, <1>3, <1>4, <1>7 DEF Tidies, pending
<1>9. ASSUME NEW extra, Answers(s, extra) PROVE Answers(t, extra)
  <2>1. ASSUME NEW d \in Fd, t.fds[d] \in {"open", "reused"}
        PROVE  d \in HeldBy(t.lease) \cup extra \/ t.lease.stuck
    <3>1. d \notin ours /\ t.fds[d] = s.fds[d]
      BY <1>3, <1>7, <2>1
    <3>2. d \in HeldBy(s.lease) \cup extra \/ s.lease.stuck
      BY <1>9, <2>1, <3>1 DEF Answers
    <3>3. d \in pending => t.lease.stuck \/ d \in t.lease.pendFds
      BY <1>4, <1>7, <3>1
    <3>4. d \in HeldBy(s.lease) => d \in HeldBy(t.lease) \/ d \in pending
      BY <1>7 DEF HeldBy, pending
    <3>5. t.lease.pendFds \subseteq HeldBy(t.lease)
      BY DEF HeldBy
    <3> QED
      BY <1>7, <3>2, <3>3, <3>4, <3>5
  <2>2. ASSUME NEW d \in Fd, t.fds[d] = "limbo" PROVE t.lease.stuck
    BY <1>3, <1>7, <1>9, <2>2 DEF Answers
  <2> QED
    BY <1>7, <1>9, <2>1, <2>2 DEF Answers
<1>10. ASSUME ~ links[i], ~ s.lease.stuck, failing = {}, \A d \in pending : s.fds[d] = "open"
       PROVE  t.ok /\ ~ t.lease.stuck
  <2>1. spared = {} /\ lost = {} /\ ours \cap failing = {}
    BY <1>4, <1>10 DEF spared, lost, ours
  <2> QED
    BY <1>7, <1>10, <2>1
<1>11. t.ok => t.lease.pendFds = {}
  BY <1>7
<1>12. \A d \in Fd : t.fds[d] # s.fds[d] => d \in pending
  BY <1>3, <1>4, <1>7
<1> QED
  BY <1>7, <1>8, <1>9, <1>10, <1>11, <1>12 DEF t, pending

\* A lease that holds nothing and lost nothing has left nothing.
NothingLeft(s) ==
  /\ \A i \in Item : s.names[i] # "own"
  /\ \A d \in Fd : s.fds[d] \in {"none", "closed", "lost"}

LEMMA HoldsNothing ==
  ASSUME NEW s \in CStates, Answers(s, {}), ~ s.lease.stuck, ~ s.lease.root,
         s.lease.files = {}, s.lease.pendFds = {}
  PROVE  NothingLeft(s)
<1>1. HeldBy(s.lease) = {}
  BY DEF HeldBy
<1>2. s.fds \in FdTables
  BY DEF CStates
<1> QED
  BY <1>1, <1>2 DEF Answers, NothingLeft, FdTables, FdStates

\* A cleanup ends verified, and then nothing is left, or uncertain.
Verdict(s, t) ==
  /\ Tidies(s, t) /\ Answers(t, {})
  /\ \/ t.ok /\ t.lease.state = "cleaned" /\ NothingLeft(t)
     \/ ~ t.ok /\ t.lease.state = "unverifiable"

LEMMA MarkedIsVerdict ==
  ASSUME NEW s, NEW t \in CStates, Tidies(s, t), Answers(t, {})
  PROVE  Verdict(s, Marked(t))
<1>1. /\ Tidies(t, Marked(t)) /\ Answers(Marked(t), {}) /\ ~ Marked(t).ok
      /\ Marked(t).lease.state = "unverifiable"
  BY MarkedMeans
<1> QED
  BY <1>1, TidiesTwice DEF Verdict

LEMMA CleanedIsVerdict ==
  ASSUME NEW s, NEW t \in CStates, Tidies(s, t), Answers(t, {}), NEW outcome \in {"removed", "absent"},
         ~ t.lease.stuck, ~ t.lease.root, t.lease.files = {}, t.lease.pendFds = {}
  PROVE  Verdict(s, Cleaned(t, outcome))
<1>1. /\ Tidies(t, Cleaned(t, outcome)) /\ Cleaned(t, outcome).ok
      /\ Cleaned(t, outcome).lease.state = "cleaned" /\ Answers(Cleaned(t, outcome), {})
      /\ Cleaned(t, outcome).names = t.names /\ Cleaned(t, outcome).fds = t.fds
  BY CleanedMeans
<1>2. NothingLeft(t)
  BY HoldsNothing
<1> QED
  BY <1>1, <1>2, TidiesTwice DEF Verdict, NothingLeft

-----------------------------------------------------------------------------
(* Aborting, cleaning up, and trying again. *)

AbortPending(s, i, failing) ==
  IF s.lease.pendName \/ s.lease.pendFds # {} THEN AttemptPendingName(s, i, failing) ELSE s

\* The abort, step by step.
AbortEnds(s, t1, t2, t3, t4, t) ==
  IF s.lease.state = "unverifiable" THEN t = [s EXCEPT !.ok = FALSE]
  ELSE IF ~ t1.ok THEN t = Marked(t1)
  ELSE IF ~ t2.ok THEN t = Marked(t2)
  ELSE IF ~ t3.ok THEN t = Marked(t3)
  ELSE IF ~ t4.ok THEN t = Marked(t4)
  ELSE t = Cleaned(t4, "removed") \/ t = Cleaned(t4, "absent")

LEMMA AbortIs ==
  ASSUME NEW s, NEW i, NEW failing
  PROVE  LET t1 == AbortPending(s, i, failing)
             t2 == RootChecked(t1, failing)
             t3 == ReleaseFiles(t2, failing)
             t4 == CloseRoot(t3, failing)
         IN  AbortEnds(s, t1, t2, t3, t4, Abort(s, i, failing))
  BY DEF Abort, Then, AbortPending, AbortEnds

LEMMA AbortMeans ==
  ASSUME NEW s \in CStates, NEW i \in Item, NEW failing, s.ok, Answers(s, {}), Unlinked(s)
  PROVE  /\ Verdict(s, Abort(s, i, failing))
         /\ /\ s.lease.state # "unverifiable" /\ ~ s.lease.pendName /\ s.lease.pendFds = {}
            /\ s.lease.files = {} /\ ~ s.lease.root /\ ~ s.lease.stuck
            => Abort(s, i, failing).ok
<1> DEFINE t1 == AbortPending(s, i, failing)
           t2 == RootChecked(t1, failing)
           t3 == ReleaseFiles(t2, failing)
           t4 == CloseRoot(t3, failing)
           t == Abort(s, i, failing)
           Bare == /\ ~ s.lease.pendName /\ s.lease.pendFds = {}
                   /\ s.lease.files = {} /\ ~ s.lease.root /\ ~ s.lease.stuck
<1>0. AbortEnds(s, t1, t2, t3, t4, t)
  BY AbortIs
<1>1. /\ t1 \in CStates /\ Tidies(s, t1) /\ Answers(t1, {})
      /\ t1.ok => ~ t1.lease.pendName /\ t1.lease.pendFds = {}
      /\ Bare => t1 = s
  <2>1. CASE s.lease.pendName \/ s.lease.pendFds # {}
    <3>1. t1 = AttemptPendingName(s, i, failing)
      BY <2>1 DEF AbortPending
    <3> HIDE DEF t1
    <3>2. /\ Tidies(s, t1) /\ Answers(t1, {})
          /\ t1.ok => ~ t1.lease.pendName /\ t1.lease.pendFds = {}
      BY <3>1, AttemptMeans
    <3> QED
      BY <2>1, <3>2 DEF Tidies
  <2>2. CASE ~ (s.lease.pendName \/ s.lease.pendFds # {})
    <3>1. t1 = s
      BY <2>2 DEF AbortPending
    <3> QED
      BY <2>2, <3>1 DEF Tidies
  <2> QED
    BY <2>1, <2>2
<1> HIDE DEF t1
<1>2. /\ t2 \in CStates /\ Tidies(t1, t2) /\ Answers(t2, {}) /\ t2.lease = t1.lease /\ t2.names = t1.names
      /\ t2.ok /\ t2.lease.root => \A j \in Item : t2.names[j] = "none"
      /\ ~ t1.lease.root => t2.ok
  BY <1>1, RootCheckedMeans
<1> HIDE DEF t2
<1>3. /\ t3 \in CStates /\ Tidies(t2, t3) /\ Answers(t3, {}) /\ t3.lease.files = {}
      /\ t3.lease.root = t2.lease.root /\ t3.lease.pendName = t2.lease.pendName
      /\ t3.lease.pendFds = t2.lease.pendFds /\ t3.names = t2.names /\ t3.ok = ~ t3.lease.stuck
      /\ ~ t2.lease.stuck /\ t2.lease.files = {} => t3.ok
  <2>0. Unlinked(t2)
    BY <1>1, <1>2 DEF Unlinked, Tidies
  <2>1. /\ Tidies(t2, t3) /\ Answers(t3, {}) /\ t3.lease.files = {}
        /\ t3.lease.root = t2.lease.root /\ t3.lease.pendName = t2.lease.pendName
        /\ t3.lease.pendFds = t2.lease.pendFds /\ t3.names = t2.names /\ t3.ok = ~ t3.lease.stuck
    BY <1>2, <2>0, ReleaseFilesMeans
  <2>2. t2.lease.files = {} => Readers(t2.lease) = {}
    BY DEF Readers
  <2>3. ~ t2.lease.stuck /\ t2.lease.files = {} => t3.ok
    BY <1>2, <2>0, <2>2, ReleaseFilesMeans
  <2> QED
    BY <2>1, <2>3 DEF Tidies
<1> HIDE DEF t3
<1>4. ASSUME t1.ok, t2.ok
      PROVE  /\ t4 \in CStates /\ Tidies(t3, t4) /\ Answers(t4, {}) /\ ~ t4.lease.root /\ t4.lease.files = {}
             /\ t4.lease.pendFds = {}
             /\ t4.ok => t4.lease.stuck = t3.lease.stuck
             /\ ~ t3.lease.root => t4.ok = ~ t3.lease.stuck
  <2>1. ~ t3.lease.pendName /\ t3.lease.pendFds = {} /\ (t3.lease.root => \A j \in Item : t3.names[j] # "own")
    BY <1>1, <1>2, <1>3, <1>4
  <2>2. /\ Tidies(t3, t4) /\ Answers(t4, {}) /\ ~ t4.lease.root /\ t4.lease.files = t3.lease.files
        /\ t4.lease.pendFds = t3.lease.pendFds
        /\ t4.ok => t4.lease.stuck = t3.lease.stuck
        /\ ~ t3.lease.root => t4.ok = ~ t3.lease.stuck
    BY <1>3, <2>1, CloseRootMeans
  <2> QED
    BY <1>3, <2>1, <2>2 DEF Tidies
<1> HIDE DEF t4, t
<1>5. Tidies(s, t1) /\ Tidies(s, t2) /\ Tidies(s, t3)
  BY <1>1, <1>2, <1>3, TidiesTwice
<1>6. t1.ok /\ t2.ok => Tidies(s, t4)
  BY <1>4, <1>5, TidiesTwice
<1>7. Verdict(s, t)
  <2>1. CASE s.lease.state = "unverifiable"
    <3>1. t = [s EXCEPT !.ok = FALSE]
      BY <1>0, <2>1 DEF AbortEnds
    <3>2. Tidies(s, t) /\ Answers(t, {}) /\ ~ t.ok /\ t.lease = s.lease
      BY <3>1, RefusedMeans
    <3> QED
      BY <2>1, <3>2 DEF Verdict
  <2>2. CASE s.lease.state # "unverifiable" /\ ~ t1.ok
    BY <1>0, <1>1, <1>5, <2>2, MarkedIsVerdict DEF AbortEnds
  <2>3. CASE s.lease.state # "unverifiable" /\ t1.ok /\ ~ t2.ok
    BY <1>0, <1>2, <1>5, <2>3, MarkedIsVerdict DEF AbortEnds
  <2>4. CASE s.lease.state # "unverifiable" /\ t1.ok /\ t2.ok /\ ~ t3.ok
    BY <1>0, <1>3, <1>5, <2>4, MarkedIsVerdict DEF AbortEnds
  <2>5. CASE s.lease.state # "unverifiable" /\ t1.ok /\ t2.ok /\ t3.ok /\ ~ t4.ok
    BY <1>0, <1>4, <1>6, <2>5, MarkedIsVerdict DEF AbortEnds
  <2>6. CASE s.lease.state # "unverifiable" /\ t1.ok /\ t2.ok /\ t3.ok /\ t4.ok
    <3>1. ~ t4.lease.stuck
      BY <1>3, <1>4, <2>6
    <3>2. t = Cleaned(t4, "removed") \/ t = Cleaned(t4, "absent")
      BY <1>0, <2>6 DEF AbortEnds
    <3> QED
      BY <1>4, <1>6, <2>6, <3>1, <3>2, CleanedIsVerdict
  <2> QED
    BY <2>1, <2>2, <2>3, <2>4, <2>5, <2>6
<1>8. ASSUME s.lease.state # "unverifiable", Bare PROVE t.ok
  <2>1. t1.ok /\ t2.ok /\ t3.ok /\ ~ t3.lease.root /\ ~ t3.lease.stuck
    BY <1>1, <1>2, <1>3, <1>8
  <2>2. t4.ok
    BY <1>4, <2>1
  <2>3. t = Cleaned(t4, "removed") \/ t = Cleaned(t4, "absent")
    BY <1>0, <1>8, <2>1, <2>2 DEF AbortEnds
  <2> QED
    BY <1>4, <2>1, <2>3, CleanedMeans
<1> QED
  BY <1>7, <1>8 DEF t

LEMMA CleanUpActiveMeans ==
  ASSUME NEW s \in CStates, NEW failing, Answers(s, {}), Unlinked(s), ~ s.lease.root, s.lease.pendFds = {}
  PROVE  /\ Verdict(s, CleanUpActive(s, failing))
         /\ /\ ~ s.lease.stuck /\ Look \notin failing /\ \A d \in Readers(s.lease) : s.fds[d] = "open"
            /\ \A d \in Readers(s.lease) : d \in failing => CleanUpActive(s, failing).fds[d] = s.fds[d]
            => CleanUpActive(s, failing).ok
<1> DEFINE t1 == ReleaseFiles(s, failing)
           t == CleanUpActive(s, failing)
<1>1. \/ t = Marked(s) /\ (Look \in failing \/ \E i \in s.lease.files : ~ Ours(s, <<i, "reader">>))
      \/ t1.ok /\ t = Cleaned(t1, "absent")
      \/ ~ t1.ok /\ t = Marked(t1)
  BY DEF CleanUpActive, Then
<1>2. /\ Tidies(s, t1) /\ Answers(t1, {}) /\ t1.lease.files = {}
      /\ ~ t1.lease.root /\ t1.lease.pendFds = {} /\ t1.ok = ~ t1.lease.stuck
      /\ /\ ~ s.lease.stuck /\ \A d \in Readers(s.lease) : s.fds[d] = "open"
         /\ \A d \in Readers(s.lease) : d \in failing => t1.fds[d] = s.fds[d]
         => t1.ok
  BY ReleaseFilesMeans
<1>3. t1 \in CStates /\ Tidies(s, s)
  BY <1>2 DEF Tidies
<1> HIDE DEF t1, t
<1>4. Verdict(s, t)
  BY <1>1, <1>2, <1>3, MarkedIsVerdict, CleanedIsVerdict
<1>5. ASSUME ~ s.lease.stuck, Look \notin failing, \A d \in Readers(s.lease) : s.fds[d] = "open",
             \A d \in Readers(s.lease) : d \in failing => t.fds[d] = s.fds[d]
      PROVE  t.ok
  <2>1. \A i \in s.lease.files : Ours(s, <<i, "reader">>)
    BY <1>5 DEF Ours, Readers
  <2>2. t = Cleaned(t1, "absent") \/ t = Marked(t1)
    BY <1>1, <1>5, <2>1
  <2>3. t.fds = t1.fds
    BY <1>3, <2>2, MarkedMeans, CleanedMeans
  <2>4. t1.ok
    BY <1>2, <1>5, <2>3
  <2> QED
    BY <1>1, <1>3, <1>5, <2>1, <2>4, CleanedMeans
<1> QED
  BY <1>4, <1>5 DEF t

RetryPending(s, i, failing) ==
  IF s.lease.pendName THEN AttemptPendingName(s, i, failing) ELSE ReleasePending(s, i, failing)

RetryFinishes(u, t) ==
  IF u.lease.stuck THEN t = Marked(u) ELSE t = Cleaned(u, "removed") \/ t = Cleaned(u, "absent")

\* The retry, step by step.
RetryEnds(s, t1, t2, t3, checked, t) ==
  IF ~ t1.ok THEN t = Marked(t1)
  ELSE IF ~ t2.ok THEN t = Marked(t2)
  ELSE IF ~ t2.lease.root THEN RetryFinishes(t2, t)
  ELSE IF ~ checked THEN t = Marked(t2)
  ELSE IF ~ t3.ok THEN t = Marked(t3)
  ELSE RetryFinishes(t3, t)

LEMMA RetryIs ==
  ASSUME NEW s, NEW i, NEW failing
  PROVE  LET t1 == RetryPending(s, i, failing)
             t2 == ReleaseFiles(t1, failing)
             t3 == CloseRoot(t2, failing)
         IN  RetryEnds(s, t1, t2, t3, RootChecked(t2, failing).ok, RetryCleanup(s, i, failing))
<1> DEFINE t1 == RetryPending(s, i, failing)
           t2 == ReleaseFiles(t1, failing)
           t3 == CloseRoot(t2, failing)
           checked == RootChecked(t2, failing).ok
           outcome == IF s.lease.pendName /\ s.names[i] = "own" THEN "removed" ELSE "absent"
           Finish(u) == IF u.lease.stuck THEN Marked(u) ELSE Cleaned(u, outcome)
<1>1. RetryCleanup(s, i, failing) =
        IF ~ t1.ok THEN Marked(t1)
        ELSE IF ~ t2.ok THEN Marked(t2)
        ELSE IF ~ t2.lease.root THEN Finish(t2)
        ELSE IF ~ checked THEN Marked(t2)
        ELSE IF ~ t3.ok THEN Marked(t3)
        ELSE Finish(t3)
  BY DEF RetryCleanup, Then, RetryPending
<1>2. \A u : RetryFinishes(u, Finish(u))
  BY DEF RetryFinishes
<1> HIDE DEF t1, t2, t3, checked, Finish
<1> QED
  BY <1>1, <1>2 DEF RetryEnds, t1, t2, t3, checked

\* The looks for what is pending, alike in both forms.
LEMMA RetryPendingMeans ==
  ASSUME NEW s \in CStates, NEW i \in Item, NEW failing, Answers(s, {})
  PROVE  LET t == RetryPending(s, i, failing)
         IN  /\ t \in CStates /\ Tidies(s, t) /\ Answers(t, {})
             /\ t.lease.files = s.lease.files /\ t.lease.root = s.lease.root
             /\ t.ok => ~ t.lease.pendName /\ t.lease.pendFds = {}
<1>1. CASE s.lease.pendName
  <2> DEFINE t == AttemptPendingName(s, i, failing)
  <2>1. RetryPending(s, i, failing) = t
    BY <1>1 DEF RetryPending
  <2>2. /\ Tidies(s, t) /\ Answers(t, {})
        /\ t.lease.files = s.lease.files /\ t.lease.root = s.lease.root
        /\ t.ok => ~ t.lease.pendName /\ t.lease.pendFds = {}
    BY AttemptMeans
  <2> QED
    BY <2>1, <2>2 DEF Tidies
<1>2. CASE ~ s.lease.pendName
  <2> DEFINE t == ReleasePending(s, i, failing)
  <2>1. RetryPending(s, i, failing) = t
    BY <1>2 DEF RetryPending
  <2>2. /\ Tidies(s, t) /\ Answers(t, {})
        /\ t.lease.files = s.lease.files /\ t.lease.root = s.lease.root
        /\ ~ t.lease.pendName /\ (t.ok => t.lease.pendFds = {})
    BY <1>2, ReleasePendingMeans
  <2> QED
    BY <2>1, <2>2 DEF Tidies
<1> QED
  BY <1>1, <1>2

LEMMA RetryMeans ==
  ASSUME NEW s \in CStates, NEW i \in Item, NEW failing, Answers(s, {}), Unlinked(s)
  PROVE  Verdict(s, RetryCleanup(s, i, failing))
<1> DEFINE t1 == RetryPending(s, i, failing)
           t2 == ReleaseFiles(t1, failing)
           t3 == CloseRoot(t2, failing)
           checked == RootChecked(t2, failing).ok
           t == RetryCleanup(s, i, failing)
<1>0. RetryEnds(s, t1, t2, t3, checked, t)
  BY RetryIs
<1>1. /\ t1 \in CStates /\ Tidies(s, t1) /\ Answers(t1, {})
      /\ t1.ok => ~ t1.lease.pendName /\ t1.lease.pendFds = {}
  BY RetryPendingMeans
<1> HIDE DEF t1
<1>2. /\ t2 \in CStates /\ Tidies(t1, t2) /\ Answers(t2, {}) /\ t2.lease.files = {}
      /\ t2.lease.pendName = t1.lease.pendName /\ t2.lease.pendFds = t1.lease.pendFds
      /\ t2.ok = ~ t2.lease.stuck
  <2>0. Unlinked(t1)
    BY <1>1 DEF Unlinked, Tidies
  <2>1. /\ Tidies(t1, t2) /\ Answers(t2, {}) /\ t2.lease.files = {}
        /\ t2.lease.pendName = t1.lease.pendName /\ t2.lease.pendFds = t1.lease.pendFds
        /\ t2.ok = ~ t2.lease.stuck
    BY <1>1, <2>0, ReleaseFilesMeans
  <2> QED
    BY <2>1 DEF Tidies
<1> HIDE DEF t2
<1>3. t2.lease.root /\ checked => \A j \in Item : t2.names[j] = "none"
  BY <1>2, RootCheckedMeans
<1>4. ASSUME t1.ok, t2.lease.root => checked
      PROVE  /\ t3 \in CStates /\ Tidies(t2, t3) /\ Answers(t3, {}) /\ ~ t3.lease.root /\ t3.lease.files = {}
             /\ t3.lease.pendFds = {} /\ (t3.ok => t3.lease.stuck = t2.lease.stuck)
  <2>1. ~ t2.lease.pendName /\ t2.lease.pendFds = {} /\ (t2.lease.root => \A j \in Item : t2.names[j] # "own")
    BY <1>1, <1>2, <1>3, <1>4
  <2>2. /\ Tidies(t2, t3) /\ Answers(t3, {}) /\ ~ t3.lease.root /\ t3.lease.files = t2.lease.files
        /\ t3.lease.pendFds = t2.lease.pendFds /\ (t3.ok => t3.lease.stuck = t2.lease.stuck)
    BY <1>2, <2>1, CloseRootMeans
  <2> QED
    BY <1>2, <2>1, <2>2 DEF Tidies
<1> HIDE DEF t3, t, checked
<1>5. Tidies(s, t1) /\ Tidies(s, t2)
  BY <1>1, <1>2, TidiesTwice
<1>6. CASE ~ t1.ok
  BY <1>0, <1>1, <1>5, <1>6, MarkedIsVerdict DEF RetryEnds, t
<1>7. CASE t1.ok /\ ~ t2.ok
  BY <1>0, <1>2, <1>5, <1>7, MarkedIsVerdict DEF RetryEnds, t
<1>8. CASE t1.ok /\ t2.ok /\ ~ t2.lease.root
  <2>1. t = Cleaned(t2, "removed") \/ t = Cleaned(t2, "absent")
    BY <1>0, <1>2, <1>8 DEF RetryEnds, RetryFinishes
  <2> QED
    BY <1>1, <1>2, <1>5, <1>8, <2>1, CleanedIsVerdict DEF t
<1>9. CASE t1.ok /\ t2.ok /\ t2.lease.root /\ ~ checked
  BY <1>0, <1>2, <1>5, <1>9, MarkedIsVerdict DEF RetryEnds, t
<1>10. CASE t1.ok /\ t2.ok /\ t2.lease.root /\ checked
  <2>1. Tidies(s, t3)
    BY <1>4, <1>5, <1>10, TidiesTwice
  <2>2. CASE ~ t3.ok
    BY <1>0, <1>4, <1>10, <2>1, <2>2, MarkedIsVerdict DEF RetryEnds, t
  <2>3. CASE t3.ok
    <3>1. ~ t3.lease.stuck
      BY <1>2, <1>4, <1>10, <2>3
    <3>2. t = Cleaned(t3, "removed") \/ t = Cleaned(t3, "absent")
      BY <1>0, <1>10, <2>3, <3>1 DEF RetryEnds, RetryFinishes
    <3> QED
      BY <1>4, <1>10, <2>1, <3>1, <3>2, CleanedIsVerdict DEF t
  <2> QED
    BY <2>2, <2>3
<1> QED
  BY <1>6, <1>7, <1>8, <1>9, <1>10

LEMMA OutcomeMeans ==
  ASSUME NEW s \in CStates, NEW i \in Item, NEW failing, s.ok, Answers(s, {}), Unlinked(s),
         s.lease.state = "active" => ~ s.lease.root /\ s.lease.pendFds = {},
         s.lease.state = "cleaned" => NothingLeft(s)
  PROVE  Verdict(s, Outcome(s, i, failing))
<1>1. CASE s.lease.state = "cleaned"
  <2>1. Outcome(s, i, failing) = s
    BY <1>1 DEF Outcome
  <2>2. Tidies(s, s)
    BY DEF Tidies
  <2> QED
    BY <1>1, <2>1, <2>2 DEF Verdict
<1>2. CASE s.lease.state = "new"
  <2>1. Outcome(s, i, failing) = Abort(s, i, failing)
    BY <1>2 DEF Outcome
  <2> QED
    BY <2>1, AbortMeans
<1>3. CASE s.lease.state = "active"
  <2>1. Outcome(s, i, failing) = CleanUpActive(s, failing)
    BY <1>3 DEF Outcome
  <2> QED
    BY <1>3, <2>1, CleanUpActiveMeans
<1>4. CASE s.lease.state \notin {"cleaned", "new", "active"}
  <2>1. Outcome(s, i, failing) = RetryCleanup(s, i, failing)
    BY <1>4 DEF Outcome
  <2> QED
    BY <2>1, RetryMeans
<1> QED
  BY <1>1, <1>2, <1>3, <1>4

\* Once everything is back in its place the retry is verified.
LEMMA RetrySucceeds ==
  ASSUME NEW s \in CStates, NEW i \in Item, NEW failing, failing = {}, Answers(s, {}), Apart(s.lease), ~ s.lease.stuck,
         ~ stray, ~ moved, \A j \in Item : ~ links[j],
         \A j \in Item : s.names[j] = "none" \/ (s.names[j] = "own" /\ s.lease.pendName /\ j = i),
         \A d \in HeldBy(s.lease) : s.fds[d] = "open"
  PROVE  RetryCleanup(s, i, failing).lease.state = "cleaned"
<1> DEFINE t1 == RetryPending(s, i, failing)
           t2 == ReleaseFiles(t1, failing)
           t3 == CloseRoot(t2, failing)
           checked == RootChecked(t2, failing).ok
           t == RetryCleanup(s, i, failing)
<1>0. RetryEnds(s, t1, t2, t3, checked, t)
  BY RetryIs
<1>1. /\ t1 \in CStates /\ t1.lease.files = s.lease.files /\ t1.lease.root = s.lease.root
      /\ t1.ok => ~ t1.lease.pendName
  BY RetryPendingMeans
<1>2. /\ t1.ok /\ ~ t1.lease.stuck /\ \A j \in Item : t1.names[j] = "none"
      /\ \A d \in Fd : d \notin s.lease.pendFds => t1.fds[d] = s.fds[d]
  <2>1. CASE s.lease.pendName
    <3> DEFINE u == AttemptPendingName(s, i, failing)
    <3>1. t1 = u
      BY <2>1 DEF RetryPending
    <3>2. AttemptEnds(s, i, failing, u)
      BY AttemptIs
    <3> HIDE DEF u, t1
    <3>3. PendingKnown(s)
      BY <2>1 DEF PendingKnown, Answers, HeldBy
    <3>4. \A d \in s.lease.pendFds : Ours(s, d)
      BY DEF Ours, HeldBy
    <3>5. ~ AttemptFails(s, i, failing, u)
      BY <3>3, <3>4 DEF AttemptFails, Detached
    <3>6. AttemptCloses(s, i, failing, u)
      BY <3>2, <3>5 DEF AttemptEnds
    <3>7. s.names \in NameTables /\ s.fds \in FdTables
      BY DEF CStates
    <3>8. \A j \in Item : u.names[j] = "none"
      BY <3>2, <3>6, <3>7 DEF AttemptEnds, AttemptCloses, NameTables
    <3>9. \A d \in Fd : d \notin s.lease.pendFds => u.fds[d] = s.fds[d]
      BY <3>6, <3>7, ClosedMeans DEF AttemptCloses
    <3> QED
      BY <3>1, <3>6, <3>8, <3>9 DEF AttemptCloses
  <2>2. CASE ~ s.lease.pendName
    <3> DEFINE u == ReleasePending(s, i, failing)
    <3>1. t1 = u
      BY <2>2 DEF RetryPending
    <3>2. \A d \in s.lease.pendFds : s.fds[d] = "open"
      BY DEF HeldBy
    <3>3. /\ u.names = s.names /\ u.ok /\ ~ u.lease.stuck
          /\ \A d \in Fd : u.fds[d] # s.fds[d] => d \in s.lease.pendFds
      BY <2>2, <3>2, ReleasePendingMeans
    <3> QED
      BY <2>2, <3>1, <3>3
  <2> QED
    BY <2>1, <2>2
<1> HIDE DEF t1
<1>3. \A d \in Readers(t1.lease) : t1.fds[d] = "open"
  <2>1. s.lease.files \subseteq Item
    BY DEF CStates, LeaseRecords
  <2>2. \A d \in Readers(s.lease) : d \in Fd /\ d \notin s.lease.pendFds /\ s.fds[d] = "open"
    <3>1. "reader" \in Ends
      BY DEF Ends
    <3>2. Readers(s.lease) \subseteq Fd
      <4>1. ASSUME NEW j \in Item PROVE <<j, "reader">> \in Fd
        BY <3>1, Descriptors
      <4> QED
        BY <2>1, <4>1 DEF Readers
    <3>3. Readers(s.lease) \subseteq HeldBy(s.lease)
      BY DEF Readers, HeldBy
    <3> QED
      BY <3>2, <3>3 DEF Apart
  <2>3. Readers(t1.lease) = Readers(s.lease)
    BY <1>1 DEF Readers
  <2> QED
    BY <1>2, <2>2, <2>3
<1>4. /\ t2 \in CStates /\ t2.ok /\ ~ t2.lease.stuck /\ t2.lease.root = t1.lease.root
      /\ ~ t2.lease.pendName /\ t2.names = t1.names /\ t2.fds[Root] = t1.fds[Root]
  <2>0. Unlinked(t1)
    BY <1>1 DEF Unlinked, Detached, CStates, LeaseRecords
  <2>1. /\ Tidies(t1, t2) /\ t2.ok /\ t2.ok = ~ t2.lease.stuck /\ t2.lease.root = t1.lease.root
        /\ t2.lease.pendName = t1.lease.pendName /\ t2.names = t1.names /\ t2.fds[Root] = t1.fds[Root]
    BY <1>1, <1>2, <1>3, <2>0, ReleaseFilesMeans
  <2> QED
    BY <1>1, <1>2, <2>1 DEF Tidies
<1> HIDE DEF t2
<1>5. CASE ~ t2.lease.root
  <2>1. t = Cleaned(t2, "removed") \/ t = Cleaned(t2, "absent")
    BY <1>0, <1>2, <1>4, <1>5 DEF RetryEnds, RetryFinishes
  <2> QED
    BY <1>4, <2>1, CleanedMeans DEF t
<1>6. CASE t2.lease.root
  <2>1. t2.fds[Root] = "open" /\ \A j \in Item : t2.names[j] = "none"
    <3>1. Root \in HeldBy(s.lease) /\ Root \notin s.lease.pendFds
      BY <1>1, <1>4, <1>6 DEF HeldBy, Apart
    <3> QED
      BY <1>2, <1>4, <3>1, Descriptors
  <2>2. checked
    <3>1. RootVerified(t2)
      BY <2>1 DEF RootVerified, RootEmpty
    <3> QED
      BY <1>4, <1>6, <3>1, RootCheckedMeans
  <2>3. /\ Tidies(t2, t3) /\ t3.ok /\ ~ t3.lease.stuck
    <3>1. \A j \in Item : t2.names[j] # "own"
      BY <2>1
    <3>2. Root \notin failing
      OBVIOUS
    <3>3. Tidies(t2, t3)
      BY <1>4, <3>1, CloseRootMeans
    <3>4. t3.ok
      BY <1>4, <1>6, <2>1, <3>1, <3>2, CloseRootMeans
    <3>5. ~ t3.lease.stuck
      BY <1>4, <1>6, <2>1, <3>2 DEF CloseRoot, CStates, LeaseRecords
    <3> QED
      BY <3>3, <3>4, <3>5
  <2> HIDE DEF t3, checked
  <2>4. t = Cleaned(t3, "removed") \/ t = Cleaned(t3, "absent")
    BY <1>0, <1>2, <1>4, <1>6, <2>2, <2>3 DEF RetryEnds, RetryFinishes
  <2>5. t3 \in CStates
    BY <2>3 DEF Tidies
  <2> QED
    BY <2>4, <2>5, CleanedMeans DEF t
<1> QED
  BY <1>5, <1>6

\* The failing item: what is open passes from the frame to the lease, or is closed.
HandledEnds(s, t) ==
  /\ t \in CStates /\ Answers(t, {})
  /\ \A d \in Fd : t.fds[d] = s.fds[d] \/ (s.fds[d] = "open" /\ t.fds[d] \in {"closed", "limbo"})
  /\ \A i \in Item : t.names[i] = s.names[i] \/ (s.names[i] = "own" /\ t.names[i] = "none")
  /\ t.lease.receipt = s.lease.receipt /\ t.lease.files = s.lease.files /\ t.lease.root = s.lease.root
  /\ t.lease.pendFds \subseteq frame \cup s.lease.pendFds
  /\ t.lease.state \in {"new", "unverifiable"}

LEMMA HandledMeans ==
  ASSUME NEW s \in CStates, NEW i \in Item, NEW failing, frame \subseteq Fd, Answers(s, frame),
         s.lease.state = "new", s.lease.pendName => s.lease.pendFds = frame,
         ~ s.lease.pendName /\ frame # {} => s.lease.pendFds = {},
         \A d \in frame : s.fds[d] = "open"
  PROVE  HandledEnds(s, Handled(s, i, failing))
<1> DEFINE t == Handled(s, i, failing)
<1>0. s.fds \in FdTables /\ s.names \in NameTables /\ s.lease \in LeaseRecords /\ s.lease.pendFds \subseteq Fd
      /\ s.lease.stuck \in BOOLEAN
  BY DEF CStates, LeaseRecords
<1>1. CASE s.lease.pendName
  <2> DEFINE t1 == AttemptPendingName(s, i, failing)
             given == IF ~ t1.lease.stuck /\ frame # {} THEN frame ELSE t1.lease.pendFds
             u == [t1 EXCEPT !.lease.pendFds = given]
  <2>1. \/ t1.ok /\ t = t1
        \/ ~ t1.ok /\ t = Marked(u)
    BY <1>1 DEF Handled
  <2>2. /\ Tidies(s, t1) /\ Answers(t1, frame) /\ t1.lease.state = "new"
        /\ t1.lease.files = s.lease.files /\ t1.lease.root = s.lease.root
        /\ t1.ok => /\ ~ t1.lease.pendName /\ t1.lease.pendFds = {}
                    /\ \A d \in frame : t1.fds[d] = "closed"
        /\ ~ t1.ok => \/ t1.lease.pendName /\ t1.lease.pendFds = frame
                      \/ ~ t1.lease.pendName /\ t1.lease.pendFds = {} /\ t1.lease.stuck
    <3>1. /\ Tidies(s, t1) /\ Answers(t1, frame) /\ t1.lease.state = s.lease.state
          /\ t1.lease.files = s.lease.files /\ t1.lease.root = s.lease.root
      BY AttemptMeans
    <3>2. t1.ok => ~ t1.lease.pendName /\ t1.lease.pendFds = {}
      BY AttemptMeans
    <3>4. ASSUME t1.ok, NEW d \in s.lease.pendFds PROVE t1.fds[d] = "closed"
      BY <3>4, AttemptClosesPending
    <3>3. ~ t1.ok => \/ t1.lease.pendName = s.lease.pendName /\ t1.lease.pendFds = s.lease.pendFds
                     \/ ~ t1.lease.pendName /\ t1.lease.pendFds = {} /\ t1.lease.stuck
      BY AttemptMeans
    <3> QED
      BY <1>1, <3>1, <3>2, <3>3, <3>4
  <2>3. t1 \in CStates
    BY <2>2 DEF Tidies
  <2> HIDE DEF t1, t
  <2>4. CASE t1.ok
    <3>1. Answers(t1, {})
      BY <2>2, <2>4 DEF Answers
    <3> QED
      BY <2>1, <2>2, <2>4, <3>1 DEF HandledEnds, Tidies, t
  <2>5. CASE ~ t1.ok
    <3>1. given = t1.lease.pendFds /\ given \subseteq Fd
      BY <2>2, <2>3, <2>5 DEF CStates, LeaseRecords
    <3> HIDE DEF given
    <3>2. u = t1
      BY <2>3, <3>1 DEF CStates, LeaseRecords
    <3>3. Answers(t1, {})
      <4>1. frame \subseteq HeldBy(t1.lease) \/ t1.lease.stuck
        BY <2>2, <2>5 DEF HeldBy
      <4> QED
        BY <2>2, <4>1 DEF Answers
    <3>4. /\ Marked(t1) \in CStates /\ Tidies(t1, Marked(t1)) /\ Answers(Marked(t1), {})
          /\ Marked(t1).lease.state = "unverifiable"
          /\ Marked(t1).lease.files = t1.lease.files /\ Marked(t1).lease.root = t1.lease.root
      BY <2>3, <3>3, MarkedMeans
    <3>5. t = Marked(t1)
      BY <2>1, <2>5, <3>2
    <3>6. Tidies(s, t)
      BY <2>2, <3>4, <3>5, TidiesTwice
    <3> HIDE DEF u
    <3> QED
      BY <2>2, <3>4, <3>5, <3>6 DEF HandledEnds, Tidies, t
  <2> QED
    BY <2>4, <2>5
<1>2. CASE ~ s.lease.pendName /\ frame # {} /\ Look \in failing
  <2> DEFINE u == [s EXCEPT !.lease.pendFds = frame]
  <2>1. t = Marked(u)
    BY <1>2 DEF Handled
  <2>2. /\ u \in CStates /\ u.fds = s.fds /\ u.names = s.names /\ u.lease.pendFds = frame
        /\ u.lease.receipt = s.lease.receipt /\ u.lease.files = s.lease.files /\ u.lease.root = s.lease.root
        /\ u.lease.stuck = s.lease.stuck /\ u.lease.pendName = s.lease.pendName
    BY <1>0 DEF CStates, LeaseRecords
  <2> HIDE DEF t, u
  <2>3. Answers(u, {})
    BY <1>2, <2>2 DEF Answers, HeldBy
  <2>4. /\ Marked(u) \in CStates /\ Tidies(u, Marked(u)) /\ Answers(Marked(u), {})
        /\ Marked(u).lease.state = "unverifiable"
        /\ Marked(u).lease.files = u.lease.files /\ Marked(u).lease.root = u.lease.root
    BY <2>2, <2>3, MarkedMeans
  <2> QED
    BY <2>1, <2>2, <2>4 DEF HandledEnds, Tidies, t
<1>3. CASE ~ s.lease.pendName /\ ~ (frame # {} /\ Look \in failing)
  <2> DEFINE failed == frame \cap failing
             A == Closed(s.fds, frame, failing)
             c == (s.lease.stuck \/ failed # {})
             left == IF failed # {} THEN {} ELSE s.lease.pendFds
             u == [s EXCEPT !.fds = A, !.lease.stuck = c, !.lease.pendFds = left]
  <2>1. t = IF failed = {} THEN u ELSE Marked(u)
    BY <1>3 DEF Handled
  <2>2. /\ A \in FdTables /\ c \in BOOLEAN /\ left \subseteq s.lease.pendFds
        /\ \A d \in Fd : A[d] = IF d \notin frame THEN s.fds[d] ELSE IF d \in failing THEN "limbo" ELSE "closed"
    BY <1>0, ClosedMeans
  <2>3. /\ c <=> s.lease.stuck \/ failed # {}
        /\ failed # {} => left = {}
        /\ failed = {} => left = s.lease.pendFds
        /\ \A d \in frame : d \in failing => failed # {}
    OBVIOUS
  <2> HIDE DEF A, c, left, failed, t
  <2>4. /\ u \in CStates /\ u.fds = A /\ u.names = s.names /\ u.lease.pendFds = left
        /\ u.lease.receipt = s.lease.receipt /\ u.lease.files = s.lease.files /\ u.lease.root = s.lease.root
        /\ u.lease.stuck = c /\ u.lease.pendName = s.lease.pendName /\ u.lease.state = s.lease.state
    BY <1>0, <2>2 DEF CStates, LeaseRecords
  <2> HIDE DEF u
  <2>5. Answers(u, {})
    <3>1. ASSUME NEW d \in Fd, u.fds[d] \in {"open", "reused"} PROVE d \in HeldBy(u.lease) \/ u.lease.stuck
      <4>1. d \notin frame /\ u.fds[d] = s.fds[d]
        BY <2>2, <2>4, <3>1
      <4>2. d \in HeldBy(s.lease) \/ s.lease.stuck
        BY <3>1, <4>1 DEF Answers
      <4> QED
        BY <2>3, <2>4, <4>2 DEF HeldBy
    <3>2. ASSUME NEW d \in Fd, u.fds[d] = "limbo" PROVE u.lease.stuck
      BY <2>2, <2>3, <2>4, <3>2 DEF Answers
    <3> QED
      BY <1>3, <2>4, <3>1, <3>2 DEF Answers
  <2>6. \A d \in Fd : u.fds[d] = s.fds[d] \/ (s.fds[d] = "open" /\ u.fds[d] \in {"closed", "limbo"})
    BY <2>2, <2>4
  <2>7. CASE failed = {}
    BY <2>1, <2>2, <2>4, <2>5, <2>6, <2>7 DEF HandledEnds, t
  <2>8. CASE failed # {}
    <3>1. /\ Marked(u) \in CStates /\ Marked(u).fds = u.fds /\ Marked(u).names = u.names
          /\ Answers(Marked(u), {}) /\ Marked(u).lease.state = "unverifiable"
          /\ Marked(u).lease.files = u.lease.files /\ Marked(u).lease.root = u.lease.root
          /\ Marked(u).lease.pendFds = u.lease.pendFds /\ Tidies(u, Marked(u))
      BY <2>4, <2>5, MarkedMeans
    <3> QED
      BY <2>1, <2>2, <2>4, <2>6, <2>8, <3>1 DEF HandledEnds, Tidies, t
  <2> QED
    BY <2>7, <2>8
<1> QED
  BY <1>1, <1>2, <1>3 DEF t

-----------------------------------------------------------------------------
(* What may fail is bounded. *)

LEMMA FiniteFd == IsFiniteSet(Fd \cup {Look, Sync})
<1>1. IsFiniteSet(Item)
  BY Numbers, FS_Interval DEF Item
<1>2. IsFiniteSet(Ends)
  <2>1. Ends = {"writer"} \cup {"reader"}
    BY DEF Ends
  <2> QED
    BY <2>1, FS_Singleton, FS_Union
<1>3. IsFiniteSet(Item \X Ends)
  BY <1>1, <1>2, FS_Product
<1>4. IsFiniteSet(Fd)
  BY <1>3, FS_Singleton, FS_Union DEF Fd
<1>5. Fd \cup {Look, Sync} = (Fd \cup {Look}) \cup {Sync}
  OBVIOUS
<1> QED
  BY <1>4, <1>5, FS_AddElement

\* Only what took effect counts as a failure.
Noticed(s, failing) == {d \in failing : d \in Fd => s.fds[d] # fds[d]}

LEMMA FailuresAreBounded ==
  ASSUME TypeInv, NEW ds \in SUBSET Fd, NEW failing \in Failures(ds), NEW s
  PROVE  /\ failing \subseteq Fd \cup {Look, Sync}
         /\ faults + Cardinality(Noticed(s, failing)) \in 0 .. MaxFaults
         /\ faults <= faults + Cardinality(Noticed(s, failing))
         /\ faults + Cardinality(Noticed(s, failing)) = 0 => Noticed(s, failing) = {}
<1>1. failing \subseteq Fd \cup {Look, Sync} /\ faults + Cardinality(failing) <= MaxFaults
  BY DEF Failures
<1>2. IsFiniteSet(failing)
  BY <1>1, FiniteFd, FS_Subset
<1>3. Noticed(s, failing) \subseteq failing
  BY DEF Noticed
<1>4. IsFiniteSet(Noticed(s, failing)) /\ Cardinality(Noticed(s, failing)) <= Cardinality(failing)
  BY <1>2, <1>3, FS_Subset
<1>5. Cardinality(Noticed(s, failing)) \in Nat /\ Cardinality(failing) \in Nat
  BY <1>2, <1>4, FS_CardinalityType
<1>6. Cardinality(Noticed(s, failing)) = 0 => Noticed(s, failing) = {}
  BY <1>4, FS_EmptySet
<1>7. faults \in Nat /\ MaxFaults \in Nat
  BY StageAssumption DEF TypeInv, TypeOK
<1> QED
  BY <1>1, <1>4, <1>5, <1>6, <1>7

LEMMA BecomeMeans ==
  ASSUME NEW s, NEW failing, Become(s, failing)
  PROVE  /\ lease' = s.lease /\ fds' = s.fds /\ names' = s.names
         /\ faults' = faults + Cardinality(Noticed(s, failing))
  BY DEF Become, Noticed

LEMMA ItemDescriptors ==
  ASSUME TypeInv
  PROVE  /\ Writer \in Fd /\ Reader \in Fd /\ Writer # Reader /\ Writer # Root /\ Reader # Root
         /\ item \in Item /\ item \in Nat /\ 1 <= item /\ item <= Items
         /\ Root \in Fd
<1>1. item \in Item
  BY DEF TypeInv, TypeOK
<1>2. "reader" \in Ends /\ "writer" \in Ends
  BY DEF Ends
<1> QED
  BY <1>1, <1>2, Numbers, Descriptors DEF Writer, Reader

LEMMA Counters ==
  ASSUME TypeInv
  PROVE  /\ faults \in Nat /\ meddles \in Nat /\ cleanups \in Nat
         /\ MaxFaults \in Nat /\ MaxMeddles \in Nat /\ MaxCleanups \in Nat
         /\ faults <= MaxFaults
         /\ (Fault => faults' \in 0 .. MaxFaults /\ faults' # 0 /\ faults' > faults)
  BY StageAssumption DEF TypeInv, TypeOK, Fault

\* What a cleanup leaves is a state of the program.
LEMMA TypeOfState ==
  ASSUME NEW s \in CStates
  PROVE  s.lease \in LeaseRecords /\ s.fds \in FdTables /\ s.names \in NameTables
  BY DEF CStates

-----------------------------------------------------------------------------
(* What each step of the staging does to the lease. *)

\* The fields a step of the staging leaves alone.
Continues ==
  /\ lease' \in LeaseRecords
  /\ lease'.receipt = lease.receipt /\ lease'.state = lease.state /\ lease'.stuck = lease.stuck
  /\ lease'.files = lease.files /\ lease'.root = lease.root

Goes(next) == pc' = next /\ faults' = faults
Breaks(next) == pc' = next /\ faults' \in 0 .. MaxFaults /\ faults' # 0

LEMMA LeaseIsTyped ==
  ASSUME TypeInv
  PROVE  lease \in LeaseRecords /\ fds \in FdTables /\ names \in NameTables
  BY DEF TypeInv, TypeOK, LeaseRecords, FdTables, NameTables

LEMMA PrepareRootMeans ==
  ASSUME LeaseInv, PrepareRoot
  PROVE  /\ pc = "root" /\ Pristine
         /\ UNCHANGED <<item, frame, names, links, stray, moved, written, result, meddles, cleanups>>
         /\ lease' \in LeaseRecords /\ fds' \in FdTables
         /\ ~ lease'.receipt /\ ~ lease'.pendName /\ lease'.pendFds = {} /\ lease'.files = {}
         /\ \A d \in Fd : d # Root => fds'[d] = "none"
         /\ \/ /\ Goes("open") /\ RootEmpty(names) /\ fds'[Root] = "open"
               /\ lease'.root /\ lease'.state = "new" /\ ~ lease'.stuck
            \/ /\ (Goes("abort") /\ ~ RootEmpty(names)) \/ Breaks("abort")
               /\ fds'[Root] = "closed" /\ lease' = lease
            \/ /\ Breaks("abort") /\ fds'[Root] = "limbo"
               /\ ~ lease'.root /\ lease'.state = "unverifiable" /\ lease'.stuck
<1>1. /\ pc = "root" /\ Pristine
      /\ UNCHANGED <<item, frame, names, links, stray, moved, written, result, meddles, cleanups>>
  BY DEF PrepareRoot, LeaseInv, StateInv, world
<1>2. lease \in LeaseRecords /\ fds \in FdTables /\ Root \in Fd /\ (Fault => faults' \in 0 .. MaxFaults /\ faults' # 0)
  BY LeaseIsTyped, Counters, Descriptors DEF LeaseInv
<1>3. lease = NewLease /\ \A d \in Fd : d # Root => fds[d] = "none"
  BY <1>1 DEF Pristine
<1>4. CASE /\ RootEmpty(names)
           /\ fds' = [fds EXCEPT ![Root] = "open"]
           /\ lease' = [lease EXCEPT !.root = TRUE]
           /\ pc' = "open" /\ faults' = faults
  <2>1. lease' \in LeaseRecords /\ ~ lease'.receipt /\ ~ lease'.pendName /\ lease'.pendFds = {} /\ lease'.files = {}
        /\ lease'.root /\ lease'.state = "new" /\ ~ lease'.stuck
    BY <1>2, <1>3, <1>4 DEF LeaseRecords, NewLease
  <2>2. fds' \in FdTables /\ fds'[Root] = "open" /\ \A d \in Fd : d # Root => fds'[d] = "none"
    BY <1>2, <1>3, <1>4 DEF FdTables, FdStates
  <2> QED
    BY <1>1, <1>4, <2>1, <2>2 DEF Goes
<1>5. CASE /\ pc' = "abort"
           /\ (~ RootEmpty(names) /\ faults' = faults) \/ Fault
           /\ fds' = [fds EXCEPT ![Root] = "closed"]
           /\ lease' = lease
  <2>1. lease' \in LeaseRecords /\ ~ lease'.receipt /\ ~ lease'.pendName /\ lease'.pendFds = {} /\ lease'.files = {}
    BY <1>2, <1>3, <1>5 DEF NewLease
  <2>2. fds' \in FdTables /\ fds'[Root] = "closed" /\ \A d \in Fd : d # Root => fds'[d] = "none"
    BY <1>2, <1>3, <1>5 DEF FdTables, FdStates
  <2> QED
    BY <1>1, <1>2, <1>5, <2>1, <2>2 DEF Goes, Breaks
<1>6. CASE /\ Fault /\ pc' = "abort"
           /\ fds' = [fds EXCEPT ![Root] = "limbo"]
           /\ lease' = Marked([Now EXCEPT !.lease.stuck = TRUE]).lease
  <2>1. lease' = [lease EXCEPT !.stuck = TRUE, !.state = "unverifiable", !.cleanup = "unverifiable"]
    BY <1>2, <1>6 DEF Marked, Now, LeaseRecords
  <2>2. lease' \in LeaseRecords /\ ~ lease'.receipt /\ ~ lease'.pendName /\ lease'.pendFds = {} /\ lease'.files = {}
        /\ ~ lease'.root /\ lease'.state = "unverifiable" /\ lease'.stuck
    BY <1>2, <1>3, <2>1 DEF LeaseRecords, LeaseStates, NewLease
  <2>3. fds' \in FdTables /\ fds'[Root] = "limbo" /\ \A d \in Fd : d # Root => fds'[d] = "none"
    BY <1>2, <1>3, <1>6 DEF FdTables, FdStates
  <2> QED
    BY <1>1, <1>2, <1>6, <2>2, <2>3 DEF Breaks
<1> QED
  BY <1>4, <1>5, <1>6 DEF PrepareRoot, Goto

LEMMA OpenWriterMeans ==
  ASSUME LeaseInv, OpenWriter
  PROVE  /\ pc = "open" /\ Continues /\ fds' \in FdTables /\ names' \in NameTables
         /\ UNCHANGED <<item, links, stray, moved, written, result, meddles, cleanups>>
         /\ \A d \in Fd : d # Writer => fds'[d] = fds[d]
         /\ \A j \in Item : j # item => names'[j] = names[j]
         /\ \/ Breaks("handle") /\ lease' = lease /\ frame' = frame /\ fds' = fds /\ names' = names
            \/ /\ Goes("pair") \/ Breaks("handle")
               /\ names'[item] = "own" /\ fds'[Writer] = "open"
               /\ lease'.pendName /\ lease'.pendFds = {Writer} /\ frame' = {Writer}
            \/ /\ Breaks("handle") /\ lease' = lease /\ frame' = frame
               /\ names'[item] = "own" /\ fds'[Writer] = "lost"
<1>1. /\ pc = "open" /\ UNCHANGED <<item, links, stray, moved, written, result, meddles, cleanups>>
  BY DEF OpenWriter
<1>2. /\ lease \in LeaseRecords /\ fds \in FdTables /\ names \in NameTables /\ Writer \in Fd /\ item \in Item
      /\ (Fault => faults' \in 0 .. MaxFaults /\ faults' # 0)
  BY LeaseIsTyped, Counters, ItemDescriptors DEF LeaseInv
<1>3. CASE Fails /\ UNCHANGED <<lease, frame, fds, names>>
  BY <1>1, <1>2, <1>3 DEF Continues, Breaks, Fails, Goto
<1>4. CASE /\ names' = [names EXCEPT ![item] = "own"]
           /\ lease' = [lease EXCEPT !.pendName = TRUE, !.pendFds = {Writer}] /\ frame' = {Writer}
           /\ fds' = [fds EXCEPT ![Writer] = "open"]
           /\ Proceeds("pair")
  <2>1. Continues /\ lease'.pendName /\ lease'.pendFds = {Writer}
    BY <1>2, <1>4 DEF LeaseRecords, Continues
  <2>2. fds' \in FdTables /\ fds'[Writer] = "open" /\ \A d \in Fd : d # Writer => fds'[d] = fds[d]
    BY <1>2, <1>4 DEF FdTables, FdStates
  <2>3. names' \in NameTables /\ names'[item] = "own" /\ \A j \in Item : j # item => names'[j] = names[j]
    BY <1>2, <1>4 DEF NameTables
  <2>4. Goes("pair") \/ Breaks("handle")
    BY <1>2, <1>4 DEF Goes, Breaks, Proceeds, Goto, Fails
  <2> QED
    BY <1>1, <1>4, <2>1, <2>2, <2>3, <2>4
<1>5. CASE names' = [names EXCEPT ![item] = "own"] /\ HandOverFails(Writer) /\ UNCHANGED <<lease, frame>>
  <2>2. fds' \in FdTables /\ fds'[Writer] = "lost" /\ \A d \in Fd : d # Writer => fds'[d] = fds[d]
    BY <1>2, <1>5 DEF FdTables, FdStates, HandOverFails
  <2>3. names' \in NameTables /\ names'[item] = "own" /\ \A j \in Item : j # item => names'[j] = names[j]
    BY <1>2, <1>5 DEF NameTables
  <2>4. Breaks("handle")
    BY <1>2, <1>5 DEF Breaks, HandOverFails, Fails, Goto
  <2> QED
    BY <1>1, <1>2, <1>5, <2>2, <2>3, <2>4 DEF Continues
<1> QED
  BY <1>3, <1>4, <1>5 DEF OpenWriter, Writer

LEMMA OpenReaderMeans ==
  ASSUME LeaseInv, OpenReader
  PROVE  /\ pc = "pair" /\ Continues /\ fds' \in FdTables
         /\ UNCHANGED <<item, names, links, stray, moved, written, result, meddles, cleanups>>
         /\ \A d \in Fd : d # Reader => fds'[d] = fds[d]
         /\ \/ /\ Breaks("handle") \/ (Goes("handle") /\ names[item] # "own")
               /\ lease' = lease /\ frame' = frame /\ fds' = fds
            \/ /\ Goes("detach") \/ Breaks("handle")
               /\ fds'[Reader] = "open" /\ frame' = frame \cup {Reader}
               /\ lease'.pendName = lease.pendName /\ lease'.pendFds = lease.pendFds \cup {Reader}
            \/ Breaks("handle") /\ lease' = lease /\ frame' = frame /\ fds'[Reader] = "lost"
<1>1. /\ pc = "pair" /\ UNCHANGED <<item, names, links, stray, moved, written, result, meddles, cleanups>>
  BY DEF OpenReader, world
<1>2. /\ lease \in LeaseRecords /\ fds \in FdTables /\ Reader \in Fd
      /\ (Fault => faults' \in 0 .. MaxFaults /\ faults' # 0)
  BY LeaseIsTyped, Counters, ItemDescriptors DEF LeaseInv
<1>3. CASE /\ Fails \/ (names[item] # "own" /\ pc' = "handle" /\ faults' = faults)
           /\ UNCHANGED <<lease, frame, fds>>
  BY <1>1, <1>2, <1>3 DEF Continues, Breaks, Goes, Fails, Goto
<1>4. CASE /\ fds' = [fds EXCEPT ![Reader] = "open"] /\ frame' = frame \cup {Reader}
           /\ lease' = [lease EXCEPT !.pendFds = @ \cup {Reader}]
           /\ Proceeds("detach")
  <2>1. Continues /\ lease'.pendName = lease.pendName /\ lease'.pendFds = lease.pendFds \cup {Reader}
    BY <1>2, <1>4 DEF LeaseRecords, Continues
  <2>2. fds' \in FdTables /\ fds'[Reader] = "open" /\ \A d \in Fd : d # Reader => fds'[d] = fds[d]
    BY <1>2, <1>4 DEF FdTables, FdStates
  <2>3. Goes("detach") \/ Breaks("handle")
    BY <1>2, <1>4 DEF Goes, Breaks, Proceeds, Goto, Fails
  <2> QED
    BY <1>1, <1>4, <2>1, <2>2, <2>3
<1>5. CASE HandOverFails(Reader) /\ UNCHANGED <<lease, frame>>
  <2>1. fds' \in FdTables /\ fds'[Reader] = "lost" /\ \A d \in Fd : d # Reader => fds'[d] = fds[d]
    BY <1>2, <1>5 DEF FdTables, FdStates, HandOverFails
  <2>2. Breaks("handle")
    BY <1>2, <1>5 DEF Breaks, HandOverFails, Fails, Goto
  <2> QED
    BY <1>1, <1>2, <1>5, <2>1, <2>2 DEF Continues
<1> QED
  BY <1>3, <1>4, <1>5 DEF OpenReader, Reader, Goto

LEMMA DetachMeans ==
  ASSUME LeaseInv, Detach
  PROVE  /\ pc = "detach" /\ Continues /\ names' \in NameTables
         /\ UNCHANGED <<item, frame, fds, links, stray, moved, written, result, meddles, cleanups>>
         /\ \A j \in Item : j # item => names'[j] = names[j]
         /\ \/ /\ Breaks("handle") \/ (Goes("handle") /\ names[item] # "own")
               /\ lease' = lease /\ names' = names
            \/ /\ Breaks("handle") \/ (Goes("handle") /\ links[item])
               /\ lease' = lease /\ names[item] = "own" /\ names'[item] = "none"
            \/ /\ Goes("write") /\ ~ links[item] /\ names[item] = "own"
               /\ names'[item] = "none" /\ ~ lease'.pendName /\ lease'.pendFds = {}
<1>1. pc = "detach" /\ UNCHANGED <<item, frame, fds, links, stray, moved, written, result, meddles, cleanups>>
  BY DEF Detach
<1>2. /\ lease \in LeaseRecords /\ names \in NameTables /\ item \in Item
      /\ (Fault => faults' \in 0 .. MaxFaults /\ faults' # 0)
  BY LeaseIsTyped, Counters, ItemDescriptors DEF LeaseInv
<1>3. CASE Fails /\ UNCHANGED <<lease, names>>
  BY <1>1, <1>2, <1>3 DEF Continues, Breaks, Fails, Goto
<1>4. CASE names[item] # "own" /\ pc' = "handle" /\ UNCHANGED <<lease, names, faults>>
  BY <1>1, <1>2, <1>4 DEF Continues, Goes
<1>5. CASE /\ names[item] = "own"
           /\ names' = [names EXCEPT ![item] = "none"]
           /\ \/ ~ Detached(item) /\ pc' = "handle" /\ UNCHANGED <<lease, faults>>
              \/ Fails /\ UNCHANGED lease
              \/ /\ Detached(item)
                 /\ lease' = [lease EXCEPT !.pendName = FALSE, !.pendFds = {}]
                 /\ pc' = "write" /\ UNCHANGED faults
  <2>1. names' \in NameTables /\ names'[item] = "none" /\ \A j \in Item : j # item => names'[j] = names[j]
    BY <1>2, <1>5 DEF NameTables
  <2>2. CASE ~ Detached(item) /\ pc' = "handle" /\ UNCHANGED <<lease, faults>>
    BY <1>1, <1>2, <1>5, <2>1, <2>2 DEF Continues, Goes, Detached
  <2>3. CASE Fails /\ UNCHANGED lease
    BY <1>1, <1>2, <1>5, <2>1, <2>3 DEF Continues, Breaks, Fails, Goto
  <2>4. CASE /\ Detached(item) /\ lease' = [lease EXCEPT !.pendName = FALSE, !.pendFds = {}]
             /\ pc' = "write" /\ UNCHANGED faults
    <3>1. Continues /\ ~ lease'.pendName /\ lease'.pendFds = {}
      BY <1>2, <2>4 DEF Continues, LeaseRecords
    <3> QED
      BY <1>1, <1>5, <2>1, <2>4, <3>1 DEF Goes, Detached
  <2> QED
    BY <1>5, <2>2, <2>3, <2>4
<1> QED
  BY <1>3, <1>4, <1>5 DEF Detach, Goto

LEMMA WriteMeans ==
  ASSUME LeaseInv, Write
  PROVE  /\ pc = "write" /\ written \subseteq written' /\ written' \subseteq written \cup {item}
         /\ UNCHANGED <<lease, item, frame, fds, names, links, stray, moved, result, meddles, cleanups>>
         /\ Breaks("handle") \/ (Goes("single") /\ written' = written \cup {item})
<1>1. Fault => faults' \in 0 .. MaxFaults /\ faults' # 0
  BY Counters DEF LeaseInv
<1> QED
  BY <1>1 DEF Write, Breaks, Goes, Fails, Goto, world

LEMMA CloseWriterMeans ==
  ASSUME LeaseInv, CloseWriter
  PROVE  /\ pc = "single" /\ lease' \in LeaseRecords /\ fds' \in FdTables
         /\ UNCHANGED <<item, names, links, stray, moved, written, result, meddles, cleanups>>
         /\ lease'.receipt = lease.receipt /\ lease'.state = lease.state /\ lease'.pendName = lease.pendName
         /\ lease'.files = lease.files /\ lease'.root = lease.root
         /\ \A d \in Fd : d # Writer => fds'[d] = fds[d]
         /\ \/ Goes("install") /\ lease' = lease /\ fds'[Writer] = "closed" /\ frame' = frame \ {Writer}
            \/ /\ Breaks("handle") /\ fds'[Writer] = "limbo" /\ frame' = {}
               /\ lease'.stuck /\ lease'.pendFds = {Reader}
<1>1. /\ pc = "single" /\ UNCHANGED <<item, names, links, stray, moved, written, result, meddles, cleanups>>
  BY DEF CloseWriter, world
<1>2. /\ lease \in LeaseRecords /\ fds \in FdTables /\ Reader \in Fd /\ Writer \in Fd
      /\ (Fault => faults' \in 0 .. MaxFaults /\ faults' # 0)
  BY LeaseIsTyped, Counters, ItemDescriptors DEF LeaseInv
<1>3. CASE /\ fds' = [fds EXCEPT ![Writer] = "closed"] /\ frame' = frame \ {Writer}
           /\ pc' = "install" /\ UNCHANGED <<lease, faults>>
  <2>1. fds' \in FdTables /\ fds'[Writer] = "closed" /\ \A d \in Fd : d # Writer => fds'[d] = fds[d]
    BY <1>2, <1>3 DEF FdTables, FdStates
  <2> QED
    BY <1>1, <1>2, <1>3, <2>1 DEF Goes
<1>4. CASE /\ Fails /\ fds' = [fds EXCEPT ![Writer] = "limbo"] /\ frame' = {}
           /\ lease' = [lease EXCEPT !.stuck = TRUE, !.pendFds = {Reader}]
  <2>1. fds' \in FdTables /\ fds'[Writer] = "limbo" /\ \A d \in Fd : d # Writer => fds'[d] = fds[d]
    BY <1>2, <1>4 DEF FdTables, FdStates
  <2>2. /\ lease' \in LeaseRecords /\ lease'.stuck /\ lease'.pendFds = {Reader}
        /\ lease'.receipt = lease.receipt /\ lease'.state = lease.state /\ lease'.pendName = lease.pendName
        /\ lease'.files = lease.files /\ lease'.root = lease.root
    BY <1>2, <1>4 DEF LeaseRecords
  <2> QED
    BY <1>1, <1>2, <1>4, <2>1, <2>2 DEF Breaks, Fails, Goto
<1> QED
  BY <1>3, <1>4 DEF CloseWriter, Writer, Reader, Goto

LEMMA InstallMeans ==
  ASSUME LeaseInv, Install
  PROVE  /\ pc = "install" /\ lease' \in LeaseRecords
         /\ UNCHANGED <<fds, names, links, stray, moved, written, result, meddles, cleanups>>
         /\ lease'.receipt = lease.receipt /\ lease'.state = lease.state /\ lease'.stuck = lease.stuck
         /\ lease'.root = lease.root /\ lease'.pendName = lease.pendName /\ lease'.pendFds = lease.pendFds
         /\ \/ /\ lease'.files = lease.files \cup {item} /\ frame' = {}
               /\ \/ Goes("verify") /\ item' = item /\ item = Items
                  \/ Goes("open") /\ item' = item + 1 /\ item < Items
                  \/ Breaks("handle") /\ item' = item
            \/ Breaks("handle") /\ lease' = lease /\ frame' = frame /\ item' = item
<1>1. /\ pc = "install" /\ UNCHANGED <<fds, names, links, stray, moved, written, result, meddles, cleanups>>
  BY DEF Install, world
<1>2. /\ lease \in LeaseRecords /\ item \in Item /\ item \in Nat /\ item <= Items /\ Items \in Nat
      /\ (Fault => faults' \in 0 .. MaxFaults /\ faults' # 0)
  BY LeaseIsTyped, Counters, ItemDescriptors, Numbers DEF LeaseInv
<1>3. CASE /\ lease' = [lease EXCEPT !.files = @ \cup {item}] /\ frame' = {}
           /\ \/ LastItem /\ pc' = "verify" /\ UNCHANGED <<item, faults>>
              \/ ~ LastItem /\ pc' = "open" /\ item' = item + 1 /\ UNCHANGED faults
              \/ Fails /\ UNCHANGED item
  <2>1. /\ lease' \in LeaseRecords
        /\ lease'.receipt = lease.receipt /\ lease'.state = lease.state /\ lease'.stuck = lease.stuck
        /\ lease'.root = lease.root /\ lease'.pendName = lease.pendName /\ lease'.pendFds = lease.pendFds
        /\ lease'.files = lease.files \cup {item}
    BY <1>2, <1>3 DEF LeaseRecords
  <2>2. \/ Goes("verify") /\ item' = item /\ item = Items
        \/ Goes("open") /\ item' = item + 1 /\ item < Items
        \/ Breaks("handle") /\ item' = item
    BY <1>2, <1>3 DEF Goes, Breaks, Fails, Goto, LastItem
  <2> QED
    BY <1>1, <1>3, <2>1, <2>2
<1>4. CASE Fails /\ UNCHANGED <<lease, frame, item>>
  BY <1>1, <1>2, <1>4 DEF Breaks, Fails, Goto
<1> QED
  BY <1>3, <1>4 DEF Install, Goto

LEMMA GrantMeans ==
  ASSUME LeaseInv, Grant
  PROVE  /\ pc = "active" /\ lease' \in LeaseRecords
         /\ UNCHANGED <<item, frame, fds, names, links, stray, moved, written, meddles, cleanups>>
         /\ lease'.stuck = lease.stuck /\ lease'.files = lease.files
         /\ lease'.root = lease.root /\ lease'.pendName = lease.pendName /\ lease'.pendFds = lease.pendFds
         /\ \/ Goes("done") /\ lease'.receipt /\ lease'.state = "active" /\ result' = "staged"
            \/ Breaks("abort") /\ lease' = lease /\ result' = result
<1>1. pc = "active" /\ UNCHANGED <<item, frame, fds, names, links, stray, moved, written, meddles, cleanups>>
  BY DEF Grant, world
<1>2. lease \in LeaseRecords /\ (Fault => faults' \in 0 .. MaxFaults /\ faults' # 0)
  BY LeaseIsTyped, Counters DEF LeaseInv
<1>3. CASE /\ lease' = [lease EXCEPT !.receipt = TRUE, !.state = "active"]
           /\ pc' = "done" /\ result' = "staged" /\ UNCHANGED faults
  <2>1. /\ lease' \in LeaseRecords /\ lease'.receipt /\ lease'.state = "active"
        /\ lease'.stuck = lease.stuck /\ lease'.files = lease.files
        /\ lease'.root = lease.root /\ lease'.pendName = lease.pendName /\ lease'.pendFds = lease.pendFds
    BY <1>2, <1>3 DEF LeaseRecords, LeaseStates
  <2> QED
    BY <1>1, <1>3, <2>1 DEF Goes
<1>4. CASE Fault /\ pc' = "abort" /\ UNCHANGED <<lease, result>>
  BY <1>1, <1>2, <1>4 DEF Breaks
<1> QED
  BY <1>3, <1>4 DEF Grant, Goto

LEMMA BeginMeans ==
  ASSUME LeaseInv, Begin
  PROVE  /\ pc \in {"idle", "done"} /\ lease = NewLease
         /\ UNCHANGED <<lease, item, frame, fds, names, links, stray, moved, written, meddles, cleanups>>
         /\ \/ Goes("root") /\ result' = "none"
            \/ Breaks("done") /\ result' = "invalid"
<1>1. Fault => faults' \in 0 .. MaxFaults /\ faults' # 0
  BY Counters DEF LeaseInv
<1> QED
  BY <1>1 DEF Begin, Goes, Breaks, Goto, world

LEMMA ActivateMeans ==
  ASSUME LeaseInv, Activate
  PROVE  /\ pc = "verify" /\ lease' \in LeaseRecords /\ fds' \in FdTables
         /\ UNCHANGED <<item, frame, names, links, stray, moved, written, result, meddles, cleanups>>
         /\ lease'.receipt = lease.receipt /\ lease'.state = lease.state /\ lease'.files = lease.files
         /\ lease'.pendName = lease.pendName /\ lease'.pendFds = lease.pendFds
         /\ \A d \in Fd : d # Root => fds'[d] = fds[d]
         /\ \/ /\ Goes("active") /\ RootVerified(Now)
               /\ fds'[Root] = "closed" /\ ~ lease'.root /\ lease'.stuck = lease.stuck
            \/ /\ Breaks("abort") /\ RootVerified(Now) /\ fds'[Root] = "limbo" /\ ~ lease'.root /\ lease'.stuck
            \/ /\ Breaks("abort") \/ (Goes("abort") /\ ~ RootVerified(Now))
               /\ lease' = lease /\ fds' = fds
<1>1. /\ pc = "verify" /\ UNCHANGED <<item, frame, links, stray, moved, written, result, meddles, cleanups>>
  BY DEF Activate
<1>2. /\ lease \in LeaseRecords /\ fds \in FdTables /\ Root \in Fd /\ lease.root /\ fds[Root] = "open"
      /\ (Fault => faults' \in 0 .. MaxFaults /\ faults' # 0)
  BY <1>1, LeaseIsTyped, Counters, Descriptors DEF LeaseInv, FrameInv, Staging
<1>3. CASE ~ RootVerified(Now) /\ pc' = "abort" /\ UNCHANGED <<lease, fds, names, faults>>
  BY <1>1, <1>2, <1>3 DEF Goes
<1>4. CASE Fault /\ pc' = "abort" /\ UNCHANGED <<lease, fds, names>>
  BY <1>1, <1>2, <1>4 DEF Breaks
<1>5. ASSUME RootVerified(Now), NEW failing \in SUBSET {Root},
             faults + Cardinality(failing) <= MaxFaults,
             Become(CloseRoot(Now, failing), failing),
             pc' = IF CloseRoot(Now, failing).ok THEN "active" ELSE "abort"
      PROVE  /\ lease' \in LeaseRecords /\ fds' \in FdTables /\ names' = names
             /\ lease'.receipt = lease.receipt /\ lease'.state = lease.state /\ lease'.files = lease.files
             /\ lease'.pendName = lease.pendName /\ lease'.pendFds = lease.pendFds
             /\ \A d \in Fd : d # Root => fds'[d] = fds[d]
             /\ \/ /\ Goes("active") /\ RootVerified(Now)
                   /\ fds'[Root] = "closed" /\ ~ lease'.root /\ lease'.stuck = lease.stuck
                \/ /\ Breaks("abort") /\ RootVerified(Now) /\ fds'[Root] = "limbo" /\ ~ lease'.root /\ lease'.stuck
  <2> DEFINE s == CloseRoot(Now, failing)
  <2>1. /\ Now \in CStates /\ Now.lease = lease /\ Now.fds = fds /\ Now.names = names /\ Now.ok = TRUE
    BY NowIsState DEF LeaseInv
  <2>2. /\ lease' = s.lease /\ fds' = s.fds /\ names' = s.names
        /\ faults' = faults + Cardinality(Noticed(s, failing))
    BY <1>5, BecomeMeans
  <2>3. faults \in Nat /\ MaxFaults \in Nat
    BY Counters DEF LeaseInv
  <2>4. CASE Root \notin failing
    <3> DEFINE A == [fds EXCEPT ![Root] = "closed"]
    <3>1. s = [Now EXCEPT !.fds = A, !.lease.root = FALSE, !.ok = TRUE]
      BY <1>2, <2>1, <2>4 DEF CloseRoot
    <3>2. A \in FdTables /\ A[Root] = "closed" /\ \A d \in Fd : d # Root => A[d] = fds[d]
      BY <1>2 DEF FdTables, FdStates
    <3>3. Noticed(s, failing) = {}
      BY <1>5, <2>4 DEF Noticed
    <3>4. faults' = faults
      BY <2>2, <2>3, <3>3, FS_EmptySet
    <3> HIDE DEF A, s
    <3>5. /\ s.fds = A /\ s.names = names /\ s.ok = TRUE /\ s.lease = [lease EXCEPT !.root = FALSE]
      BY <2>1, <3>1 DEF CStates
    <3>6. /\ s.lease \in LeaseRecords /\ ~ s.lease.root /\ s.lease.receipt = lease.receipt
          /\ s.lease.state = lease.state /\ s.lease.files = lease.files /\ s.lease.stuck = lease.stuck
          /\ s.lease.pendName = lease.pendName /\ s.lease.pendFds = lease.pendFds
      BY <1>2, <3>5 DEF LeaseRecords
    <3>7. pc' = "active"
      BY <1>5, <3>5 DEF s
    <3> QED
      BY <1>5, <2>2, <3>2, <3>4, <3>5, <3>6, <3>7 DEF Goes
  <2>5. CASE Root \in failing
    <3> DEFINE A == [fds EXCEPT ![Root] = "limbo"]
    <3>1. s = [Now EXCEPT !.fds = A, !.lease.root = FALSE, !.lease.stuck = TRUE, !.ok = FALSE]
      BY <1>2, <2>1, <2>5 DEF CloseRoot
    <3>2. A \in FdTables /\ A[Root] = "limbo" /\ \A d \in Fd : d # Root => A[d] = fds[d]
      BY <1>2 DEF FdTables, FdStates
    <3> HIDE DEF A, s
    <3>3. /\ s.fds = A /\ s.names = names /\ s.ok = FALSE
          /\ s.lease = [lease EXCEPT !.root = FALSE, !.stuck = TRUE]
      BY <2>1, <3>1 DEF CStates
    <3>4. failing = {Root} /\ Noticed(s, failing) = {Root}
      BY <1>2, <1>5, <2>5, <3>2, <3>3 DEF Noticed
    <3>5. faults' \in 0 .. MaxFaults /\ faults' # 0
      <4>1. Cardinality(failing) = 1 /\ Cardinality(Noticed(s, failing)) = 1
        BY <3>4, FS_Singleton
      <4> QED
        BY <1>5, <2>2, <2>3, <4>1
    <3>6. /\ s.lease \in LeaseRecords /\ ~ s.lease.root /\ s.lease.receipt = lease.receipt
          /\ s.lease.state = lease.state /\ s.lease.files = lease.files /\ s.lease.stuck
          /\ s.lease.pendName = lease.pendName /\ s.lease.pendFds = lease.pendFds
      BY <1>2, <3>3 DEF LeaseRecords
    <3>7. pc' = "abort"
      BY <1>5, <3>3 DEF s
    <3> QED
      BY <1>5, <2>2, <3>2, <3>3, <3>5, <3>6, <3>7 DEF Breaks
  <2> QED
    BY <2>4, <2>5
<1>6. CASE /\ RootVerified(Now)
           /\ \E failing \in SUBSET {Root} :
                /\ faults + Cardinality(failing) <= MaxFaults
                /\ Become(CloseRoot(Now, failing), failing)
                /\ pc' = IF CloseRoot(Now, failing).ok THEN "active" ELSE "abort"
  <2>1. PICK failing \in SUBSET {Root} :
          /\ faults + Cardinality(failing) <= MaxFaults
          /\ Become(CloseRoot(Now, failing), failing)
          /\ pc' = IF CloseRoot(Now, failing).ok THEN "active" ELSE "abort"
    BY <1>6
  <2>2. /\ lease' \in LeaseRecords /\ fds' \in FdTables /\ names' = names
        /\ lease'.receipt = lease.receipt /\ lease'.state = lease.state /\ lease'.files = lease.files
        /\ lease'.pendName = lease.pendName /\ lease'.pendFds = lease.pendFds
        /\ \A d \in Fd : d # Root => fds'[d] = fds[d]
        /\ \/ /\ Goes("active") /\ RootVerified(Now)
              /\ fds'[Root] = "closed" /\ ~ lease'.root /\ lease'.stuck = lease.stuck
           \/ /\ Breaks("abort") /\ RootVerified(Now) /\ fds'[Root] = "limbo" /\ ~ lease'.root /\ lease'.stuck
    BY <1>5, <1>6, <2>1
  <2> QED
    BY <1>1, <2>2
<1> QED
  BY <1>3, <1>4, <1>6 DEF Activate, Goto

LEMMA MeddleMeans ==
  ASSUME LeaseInv, Meddle
  PROVE  /\ UNCHANGED <<lease, pc, item, frame, written, result, faults, cleanups>>
         /\ meddles' \in 0 .. MaxMeddles /\ meddles' # 0 /\ meddles' # meddles
         /\ fds' \in FdTables /\ names' \in NameTables /\ links' \in [Item -> BOOLEAN]
         /\ stray' \in BOOLEAN /\ moved' \in BOOLEAN
         /\ \A i \in Item : names'[i] = names[i] \/ (names[i] # "none" /\ names'[i] # "own")
         /\ \A i \in Item : links'[i] = links[i] \/ names[i] = "own" \/ links[i]
         /\ \A d \in Fd : fds'[d] = fds[d] \/ (pc = "done" /\ fds[d] = "open" /\ fds'[d] = "reused")
<1>1. UNCHANGED <<lease, pc, item, frame, written, result, faults, cleanups>>
  BY DEF Meddle
<1>2. meddles' \in 0 .. MaxMeddles /\ meddles' # 0 /\ meddles' # meddles
  BY Counters DEF LeaseInv, Meddle
<1>3. /\ fds \in FdTables /\ names \in NameTables /\ links \in [Item -> BOOLEAN]
      /\ stray \in BOOLEAN /\ moved \in BOOLEAN
  BY LeaseIsTyped DEF LeaseInv, TypeInv, TypeOK
<1>4. CASE /\ \E i \in Item, now \in {"none", "foreign"} :
                names[i] # "none" /\ names[i] # now /\ names' = [names EXCEPT ![i] = now]
           /\ UNCHANGED <<links, stray, moved, fds>>
  BY <1>1, <1>2, <1>3, <1>4 DEF NameTables
<1>5. CASE /\ \E i \in Item : (names[i] = "own" \/ links[i]) /\ links' = [links EXCEPT ![i] = ~ @]
           /\ UNCHANGED <<names, stray, moved, fds>>
  BY <1>1, <1>2, <1>3, <1>5
<1>6. CASE stray' = ~ stray /\ UNCHANGED <<names, links, moved, fds>>
  BY <1>1, <1>2, <1>3, <1>6
<1>7. CASE lease.root /\ moved' = ~ moved /\ UNCHANGED <<names, links, stray, fds>>
  BY <1>1, <1>2, <1>3, <1>7
<1>8. CASE /\ pc = "done"
           /\ \E d \in Fd : fds[d] = "open" /\ fds' = [fds EXCEPT ![d] = "reused"]
           /\ UNCHANGED <<names, links, stray, moved>>
  BY <1>1, <1>2, <1>3, <1>8 DEF FdTables, FdStates
<1> QED
  BY <1>4, <1>5, <1>6, <1>7, <1>8 DEF Meddle

-----------------------------------------------------------------------------
(* Every step keeps the invariant. *)

LEMMA PrepareRootKeeps ==
  ASSUME LeaseInv, PrepareRoot
  PROVE  LeaseInv'
<1>0. TypeInv /\ StateInv /\ FrameInv /\ ItemInv /\ ContentInv /\ HoldInv /\ EndInv
  BY DEF LeaseInv
<1>a. /\ pc = "root" /\ Pristine
      /\ UNCHANGED <<item, frame, names, links, stray, moved, written, result, meddles, cleanups>>
      /\ lease' \in LeaseRecords /\ fds' \in FdTables
      /\ ~ lease'.receipt /\ ~ lease'.pendName /\ lease'.pendFds = {} /\ lease'.files = {}
      /\ \A d \in Fd : d # Root => fds'[d] = "none"
      /\ \/ /\ Goes("open") /\ RootEmpty(names) /\ fds'[Root] = "open"
            /\ lease'.root /\ lease'.state = "new" /\ ~ lease'.stuck
         \/ /\ (Goes("abort") /\ ~ RootEmpty(names)) \/ Breaks("abort")
            /\ fds'[Root] = "closed" /\ lease' = lease
         \/ /\ Breaks("abort") /\ fds'[Root] = "limbo"
            /\ ~ lease'.root /\ lease'.state = "unverifiable" /\ lease'.stuck
  BY PrepareRootMeans
<1>d. /\ Writer \in Fd /\ Reader \in Fd /\ Writer # Reader /\ Writer # Root /\ Reader # Root
      /\ item \in Item /\ item \in Nat /\ 1 <= item /\ item <= Items /\ Root \in Fd
  BY <1>0, ItemDescriptors
<1>1. TypeInv'
  BY <1>0, <1>a, <1>d, Counters DEF TypeInv, TypeOK, StagingPlaces, Staging, LeaseRecords, FdTables,
     NameTables, Goes, Breaks, Continues
<1>2. StateInv'
  BY <1>0, <1>a, <1>d DEF StateInv, Staging, Pristine, Untouched, TypeInv, TypeOK, Goes, Breaks,
     Continues
<1>3. FrameInv'
  BY <1>0, <1>a, <1>d DEF FrameInv, Staging, StateInv, Writer, Reader, TypeInv, TypeOK, Goes,
     Breaks, Continues
<1>4. ItemInv'
  <2>1. \A j \in Item : \A e \in Ends : fds'[<<j, e>>] = "none"
    <3>1. ASSUME NEW j \in Item, NEW e \in Ends PROVE fds'[<<j, e>>] = "none"
      <4>1. <<j, e>> \in Fd /\ <<j, e>> # Root
        BY Descriptors
      <4>2. \A d \in Fd : d # Root => fds'[d] = "none"
        BY <1>a
      <4> QED
        BY <4>1, <4>2, Zenon
    <3> QED
      BY <3>1
  <2>2. /\ 1 .. item' - 1 = {} /\ written' = {} /\ \A j \in Item : names'[j] = "none"
        /\ item' \in Item /\ pc' \in {"open", "abort"}
    BY <1>a, Numbers DEF Pristine, Goes, Breaks
  <2> QED
    BY <1>a, <2>1, <2>2 DEF ItemInv
<1>5. ContentInv'
  BY <1>0, <1>a, <1>d DEF ContentInv, ItemInv, TypeInv, TypeOK, Goes, Breaks, Continues
<1>6. HoldInv'
  <2>1. \A d \in Fd : fds'[d] \in {"open", "reused"} => d \in HeldBy(lease') \cup frame' \/ lease'.stuck
    BY <1>0, <1>a, <1>d DEF HoldInv, Answers, HeldBy, Now, FrameInv, Staging, Pristine, Continues
  <2>2. \A d \in Fd : fds'[d] = "limbo" => lease'.stuck
    BY <1>0, <1>a, <1>d DEF HoldInv, Answers, Now, FrameInv, Staging, Pristine, Continues
  <2>3. lease'.pendName => lease'.root /\ lease'.pendFds # {}
    BY <1>0, <1>a, <1>d DEF HoldInv, Answers, Now, FrameInv, Staging, Continues
  <2>4. \A i \in Item : names'[i] = "own" => lease'.root
    BY <1>0, <1>a, <1>d DEF HoldInv, Answers, Now, FrameInv, Staging, Pristine, Continues
  <2>5. Apart(lease')
    BY <1>0, <1>a, <1>d DEF HoldInv, Apart, Readers, ItemInv, FrameInv, Staging, Continues, Writer, Reader
  <2>6. frame' \cap Readers(lease') = {}
    BY <1>0, <1>a, <1>d DEF HoldInv, Readers, ItemInv, FrameInv, Staging, Continues, Writer, Reader
  <2> QED
    BY <2>1, <2>2, <2>3, <2>4, <2>5, <2>6 DEF HoldInv, Answers, Now
<1>7. EndInv'
  BY <1>0, <1>a, <1>d DEF EndInv, ActiveHoldsExactly, NothingHeld, Pristine, StateInv, FrameInv,
     ItemInv, TypeInv, TypeOK, Goes, Breaks, Continues
<1> QED
  BY <1>1, <1>2, <1>3, <1>4, <1>5, <1>6, <1>7 DEF LeaseInv

LEMMA OpenWriterKeeps ==
  ASSUME LeaseInv, OpenWriter
  PROVE  LeaseInv'
<1>0. TypeInv /\ StateInv /\ FrameInv /\ ItemInv /\ ContentInv /\ HoldInv /\ EndInv
  BY DEF LeaseInv
<1>a. /\ pc = "open" /\ Continues /\ fds' \in FdTables /\ names' \in NameTables
      /\ UNCHANGED <<item, links, stray, moved, written, result, meddles, cleanups>>
      /\ \A d \in Fd : d # Writer => fds'[d] = fds[d]
      /\ \A j \in Item : j # item => names'[j] = names[j]
      /\ \/ Breaks("handle") /\ lease' = lease /\ frame' = frame /\ fds' = fds /\ names' = names
         \/ /\ Goes("pair") \/ Breaks("handle")
            /\ names'[item] = "own" /\ fds'[Writer] = "open"
            /\ lease'.pendName /\ lease'.pendFds = {Writer} /\ frame' = {Writer}
         \/ /\ Breaks("handle") /\ lease' = lease /\ frame' = frame
            /\ names'[item] = "own" /\ fds'[Writer] = "lost"
  BY OpenWriterMeans
<1>d. /\ Writer \in Fd /\ Reader \in Fd /\ Writer # Reader /\ Writer # Root /\ Reader # Root
      /\ item \in Item /\ item \in Nat /\ 1 <= item /\ item <= Items /\ Root \in Fd
  BY <1>0, ItemDescriptors
<1>1. TypeInv'
  BY <1>0, <1>a, <1>d, Counters DEF TypeInv, TypeOK, StagingPlaces, Staging, LeaseRecords, FdTables,
     NameTables, Goes, Breaks, Continues
<1>2. StateInv'
  BY <1>0, <1>a, <1>d DEF StateInv, Staging, Pristine, Untouched, TypeInv, TypeOK, Goes, Breaks,
     Continues
<1>3. FrameInv'
  BY <1>0, <1>a, <1>d DEF FrameInv, Staging, StateInv, Writer, Reader, TypeInv, TypeOK, Goes,
     Breaks, Continues
<1>4. ItemInv'
  BY <1>0, <1>a, <1>d, Numbers, Descriptors DEF ItemInv, Staging, FrameInv, Writer, Reader,
     TypeInv, TypeOK, Goes, Breaks, Continues
<1>5. ContentInv'
  BY <1>0, <1>a, <1>d DEF ContentInv, ItemInv, TypeInv, TypeOK, Goes, Breaks, Continues
<1>6. HoldInv'
  <2>1. \A d \in Fd : fds'[d] \in {"open", "reused"} => d \in HeldBy(lease') \cup frame' \/ lease'.stuck
    BY <1>0, <1>a, <1>d DEF HoldInv, Answers, HeldBy, Now, FrameInv, Staging, Pristine, Continues
  <2>2. \A d \in Fd : fds'[d] = "limbo" => lease'.stuck
    BY <1>0, <1>a, <1>d DEF HoldInv, Answers, Now, FrameInv, Staging, Pristine, Continues
  <2>3. lease'.pendName => lease'.root /\ lease'.pendFds # {}
    BY <1>0, <1>a, <1>d DEF HoldInv, Answers, Now, FrameInv, Staging, Continues
  <2>4. \A i \in Item : names'[i] = "own" => lease'.root
    BY <1>0, <1>a, <1>d DEF HoldInv, Answers, Now, FrameInv, Staging, Pristine, Continues
  <2>5. Apart(lease')
    BY <1>0, <1>a, <1>d DEF HoldInv, Apart, Readers, ItemInv, FrameInv, Staging, Continues, Writer, Reader
  <2>6. frame' \cap Readers(lease') = {}
    BY <1>0, <1>a, <1>d DEF HoldInv, Readers, ItemInv, FrameInv, Staging, Continues, Writer, Reader
  <2> QED
    BY <2>1, <2>2, <2>3, <2>4, <2>5, <2>6 DEF HoldInv, Answers, Now
<1>7. EndInv'
  <2>1. lease'.state = "new" /\ pc' \in {"pair", "handle"}
    BY <1>0, <1>a DEF StateInv, Staging, Continues, Goes, Breaks
  <2> QED
    BY <2>1 DEF EndInv, ActiveHoldsExactly
<1> QED
  BY <1>1, <1>2, <1>3, <1>4, <1>5, <1>6, <1>7 DEF LeaseInv

LEMMA OpenReaderKeeps ==
  ASSUME LeaseInv, OpenReader
  PROVE  LeaseInv'
<1>0. TypeInv /\ StateInv /\ FrameInv /\ ItemInv /\ ContentInv /\ HoldInv /\ EndInv
  BY DEF LeaseInv
<1>a. /\ pc = "pair" /\ Continues /\ fds' \in FdTables
      /\ UNCHANGED <<item, names, links, stray, moved, written, result, meddles, cleanups>>
      /\ \A d \in Fd : d # Reader => fds'[d] = fds[d]
      /\ \/ /\ Breaks("handle") \/ (Goes("handle") /\ names[item] # "own")
            /\ lease' = lease /\ frame' = frame /\ fds' = fds
         \/ /\ Goes("detach") \/ Breaks("handle")
            /\ fds'[Reader] = "open" /\ frame' = frame \cup {Reader}
            /\ lease'.pendName = lease.pendName /\ lease'.pendFds = lease.pendFds \cup {Reader}
         \/ Breaks("handle") /\ lease' = lease /\ frame' = frame /\ fds'[Reader] = "lost"
  BY OpenReaderMeans
<1>d. /\ Writer \in Fd /\ Reader \in Fd /\ Writer # Reader /\ Writer # Root /\ Reader # Root
      /\ item \in Item /\ item \in Nat /\ 1 <= item /\ item <= Items /\ Root \in Fd
  BY <1>0, ItemDescriptors
<1>1. TypeInv'
  BY <1>0, <1>a, <1>d, Counters DEF TypeInv, TypeOK, StagingPlaces, Staging, LeaseRecords, FdTables,
     NameTables, Goes, Breaks, Continues
<1>2. StateInv'
  BY <1>0, <1>a, <1>d DEF StateInv, Staging, Pristine, Untouched, TypeInv, TypeOK, Goes, Breaks,
     Continues
<1>3. FrameInv'
  <2>1. /\ frame = {Writer} /\ lease.pendFds = {Writer} /\ lease.pendName /\ lease.root /\ fds[Root] = "open"
        /\ ~ lease.stuck /\ fds[Writer] = "open" /\ fds[Reader] # "open"
    BY <1>0, <1>a DEF FrameInv, ItemInv, Staging
  <2>2. /\ Writer' = Writer /\ Reader' = Reader /\ fds'[Root] = "open" /\ fds'[Writer] = "open"
        /\ lease'.pendName /\ lease'.root /\ ~ lease'.stuck
    BY <1>a, <1>d, <2>1 DEF Writer, Reader, Continues
  <2>3. CASE pc' = "handle" /\ lease' = lease /\ frame' = frame
    BY <2>1, <2>2, <2>3 DEF FrameInv, Staging
  <2>4. CASE /\ pc' \in {"handle", "detach"} /\ fds'[Reader] = "open" /\ frame' = {Writer, Reader}
             /\ lease'.pendFds = {Writer, Reader}
    BY <2>1, <2>2, <2>4 DEF FrameInv, Staging
  <2> QED
    BY <1>a, <2>1, <2>3, <2>4 DEF Goes, Breaks
<1>4. ItemInv'
  BY <1>0, <1>a, <1>d, Numbers, Descriptors DEF ItemInv, Staging, FrameInv, Writer, Reader,
     TypeInv, TypeOK, Goes, Breaks, Continues
<1>5. ContentInv'
  BY <1>0, <1>a, <1>d DEF ContentInv, ItemInv, TypeInv, TypeOK, Goes, Breaks, Continues
<1>6. HoldInv'
  <2>1. \A d \in Fd : fds'[d] \in {"open", "reused"} => d \in HeldBy(lease') \cup frame' \/ lease'.stuck
    BY <1>0, <1>a, <1>d DEF HoldInv, Answers, HeldBy, Now, FrameInv, Staging, Pristine, Continues
  <2>2. \A d \in Fd : fds'[d] = "limbo" => lease'.stuck
    BY <1>0, <1>a, <1>d DEF HoldInv, Answers, Now, FrameInv, Staging, Pristine, Continues
  <2>3. lease'.pendName => lease'.root /\ lease'.pendFds # {}
    BY <1>0, <1>a, <1>d DEF HoldInv, Answers, Now, FrameInv, Staging, Continues
  <2>4. \A i \in Item : names'[i] = "own" => lease'.root
    BY <1>0, <1>a, <1>d DEF HoldInv, Answers, Now, FrameInv, Staging, Pristine, Continues
  <2>5. Apart(lease')
    BY <1>0, <1>a, <1>d DEF HoldInv, Apart, Readers, ItemInv, FrameInv, Staging, Continues, Writer, Reader
  <2>6. frame' \cap Readers(lease') = {}
    BY <1>0, <1>a, <1>d DEF HoldInv, Readers, ItemInv, FrameInv, Staging, Continues, Writer, Reader
  <2> QED
    BY <2>1, <2>2, <2>3, <2>4, <2>5, <2>6 DEF HoldInv, Answers, Now
<1>7. EndInv'
  BY <1>0, <1>a, <1>d DEF EndInv, ActiveHoldsExactly, NothingHeld, Pristine, StateInv, FrameInv,
     ItemInv, TypeInv, TypeOK, Goes, Breaks, Continues
<1> QED
  BY <1>1, <1>2, <1>3, <1>4, <1>5, <1>6, <1>7 DEF LeaseInv

LEMMA DetachKeeps ==
  ASSUME LeaseInv, Detach
  PROVE  LeaseInv'
<1>0. TypeInv /\ StateInv /\ FrameInv /\ ItemInv /\ ContentInv /\ HoldInv /\ EndInv
  BY DEF LeaseInv
<1>a. /\ pc = "detach" /\ Continues /\ names' \in NameTables
      /\ UNCHANGED <<item, frame, fds, links, stray, moved, written, result, meddles, cleanups>>
      /\ \A j \in Item : j # item => names'[j] = names[j]
      /\ \/ /\ Breaks("handle") \/ (Goes("handle") /\ names[item] # "own")
            /\ lease' = lease /\ names' = names
         \/ /\ Breaks("handle") \/ (Goes("handle") /\ links[item])
            /\ lease' = lease /\ names[item] = "own" /\ names'[item] = "none"
         \/ /\ Goes("write") /\ ~ links[item] /\ names[item] = "own"
            /\ names'[item] = "none" /\ ~ lease'.pendName /\ lease'.pendFds = {}
  BY DetachMeans
<1>d. /\ Writer \in Fd /\ Reader \in Fd /\ Writer # Reader /\ Writer # Root /\ Reader # Root
      /\ item \in Item /\ item \in Nat /\ 1 <= item /\ item <= Items /\ Root \in Fd
  BY <1>0, ItemDescriptors
<1>1. TypeInv'
  BY <1>0, <1>a, <1>d, Counters DEF TypeInv, TypeOK, StagingPlaces, Staging, LeaseRecords, FdTables,
     NameTables, Goes, Breaks, Continues
<1>2. StateInv'
  BY <1>0, <1>a, <1>d DEF StateInv, Staging, Pristine, Untouched, TypeInv, TypeOK, Goes, Breaks,
     Continues
<1>3. FrameInv'
  BY <1>0, <1>a, <1>d DEF FrameInv, Staging, StateInv, Writer, Reader, TypeInv, TypeOK, Goes,
     Breaks, Continues
<1>4. ItemInv'
  BY <1>0, <1>a, <1>d, Numbers, Descriptors DEF ItemInv, Staging, FrameInv, Writer, Reader,
     TypeInv, TypeOK, Goes, Breaks, Continues
<1>5. ContentInv'
  BY <1>0, <1>a, <1>d DEF ContentInv, ItemInv, TypeInv, TypeOK, Goes, Breaks, Continues
<1>6. HoldInv'
  BY <1>0, <1>a, <1>d, Numbers, Descriptors DEF HoldInv, Answers, Apart, HeldBy, Readers, Now,
     FrameInv, ItemInv, Writer, Reader, TypeInv, TypeOK, Goes, Breaks, Continues
<1>7. EndInv'
  BY <1>0, <1>a, <1>d DEF EndInv, ActiveHoldsExactly, NothingHeld, Pristine, StateInv, FrameInv,
     ItemInv, TypeInv, TypeOK, Goes, Breaks, Continues
<1> QED
  BY <1>1, <1>2, <1>3, <1>4, <1>5, <1>6, <1>7 DEF LeaseInv

LEMMA WriteKeeps ==
  ASSUME LeaseInv, Write
  PROVE  LeaseInv'
<1>0. TypeInv /\ StateInv /\ FrameInv /\ ItemInv /\ ContentInv /\ HoldInv /\ EndInv
  BY DEF LeaseInv
<1>a. /\ pc = "write" /\ written \subseteq written' /\ written' \subseteq written \cup {item}
      /\ UNCHANGED <<lease, item, frame, fds, names, links, stray, moved, result, meddles, cleanups>>
      /\ Breaks("handle") \/ (Goes("single") /\ written' = written \cup {item})
  BY WriteMeans
<1>d. /\ Writer \in Fd /\ Reader \in Fd /\ Writer # Reader /\ Writer # Root /\ Reader # Root
      /\ item \in Item /\ item \in Nat /\ 1 <= item /\ item <= Items /\ Root \in Fd
  BY <1>0, ItemDescriptors
<1>1. TypeInv'
  BY <1>0, <1>a, <1>d, Counters DEF TypeInv, TypeOK, StagingPlaces, Staging, LeaseRecords, FdTables,
     NameTables, Goes, Breaks, Continues
<1>2. StateInv'
  BY <1>0, <1>a, <1>d DEF StateInv, Staging, Pristine, Untouched, TypeInv, TypeOK, Goes, Breaks,
     Continues
<1>3. FrameInv'
  BY <1>0, <1>a, <1>d DEF FrameInv, Staging, StateInv, Writer, Reader, TypeInv, TypeOK, Goes,
     Breaks, Continues
<1>4. ItemInv'
  <2>1. lease.files = 1 .. item - 1 /\ written = 1 .. item - 1
    BY <1>0, <1>a DEF ItemInv
  <2>2. (1 .. item - 1) \cup {item} = 1 .. item
    BY <1>d
  <2>3. pc' = "handle" \/ (pc' = "single" /\ written' = 1 .. item)
    BY <1>a, <2>1, <2>2 DEF Goes, Breaks
  <2> QED
    BY <1>0, <1>a, <2>1, <2>3 DEF ItemInv, Staging
<1>5. ContentInv'
  BY <1>0, <1>a, <1>d DEF ContentInv, ItemInv, TypeInv, TypeOK, Goes, Breaks, Continues
<1>6. HoldInv'
  BY <1>0, <1>a, <1>d, Numbers, Descriptors DEF HoldInv, Answers, Apart, HeldBy, Readers, Now,
     FrameInv, ItemInv, Writer, Reader, TypeInv, TypeOK, Goes, Breaks, Continues
<1>7. EndInv'
  BY <1>0, <1>a, <1>d DEF EndInv, ActiveHoldsExactly, NothingHeld, Pristine, StateInv, FrameInv,
     ItemInv, TypeInv, TypeOK, Goes, Breaks, Continues
<1> QED
  BY <1>1, <1>2, <1>3, <1>4, <1>5, <1>6, <1>7 DEF LeaseInv

LEMMA CloseWriterKeeps ==
  ASSUME LeaseInv, CloseWriter
  PROVE  LeaseInv'
<1>0. TypeInv /\ StateInv /\ FrameInv /\ ItemInv /\ ContentInv /\ HoldInv /\ EndInv
  BY DEF LeaseInv
<1>a. /\ pc = "single" /\ lease' \in LeaseRecords /\ fds' \in FdTables
      /\ UNCHANGED <<item, names, links, stray, moved, written, result, meddles, cleanups>>
      /\ lease'.receipt = lease.receipt /\ lease'.state = lease.state /\ lease'.pendName = lease.pendName
      /\ lease'.files = lease.files /\ lease'.root = lease.root
      /\ \A d \in Fd : d # Writer => fds'[d] = fds[d]
      /\ \/ Goes("install") /\ lease' = lease /\ fds'[Writer] = "closed" /\ frame' = frame \ {Writer}
         \/ /\ Breaks("handle") /\ fds'[Writer] = "limbo" /\ frame' = {}
            /\ lease'.stuck /\ lease'.pendFds = {Reader}
  BY CloseWriterMeans
<1>d. /\ Writer \in Fd /\ Reader \in Fd /\ Writer # Reader /\ Writer # Root /\ Reader # Root
      /\ item \in Item /\ item \in Nat /\ 1 <= item /\ item <= Items /\ Root \in Fd
  BY <1>0, ItemDescriptors
<1>1. TypeInv'
  BY <1>0, <1>a, <1>d, Counters DEF TypeInv, TypeOK, StagingPlaces, Staging, LeaseRecords, FdTables,
     NameTables, Goes, Breaks, Continues
<1>2. StateInv'
  BY <1>0, <1>a, <1>d DEF StateInv, Staging, Pristine, Untouched, TypeInv, TypeOK, Goes, Breaks,
     Continues
<1>3. FrameInv'
  BY <1>0, <1>a, <1>d DEF FrameInv, Staging, StateInv, Writer, Reader, TypeInv, TypeOK, Goes,
     Breaks, Continues
<1>4. ItemInv'
  BY <1>0, <1>a, <1>d, Numbers, Descriptors DEF ItemInv, Staging, FrameInv, Writer, Reader,
     TypeInv, TypeOK, Goes, Breaks, Continues
<1>5. ContentInv'
  BY <1>0, <1>a, <1>d DEF ContentInv, ItemInv, TypeInv, TypeOK, Goes, Breaks, Continues
<1>6. HoldInv'
  <2>1. \A d \in Fd : fds'[d] \in {"open", "reused"} => d \in HeldBy(lease') \cup frame' \/ lease'.stuck
    BY <1>0, <1>a, <1>d DEF HoldInv, Answers, HeldBy, Now, FrameInv, Staging, Pristine, Continues
  <2>2. \A d \in Fd : fds'[d] = "limbo" => lease'.stuck
    BY <1>0, <1>a, <1>d DEF HoldInv, Answers, Now, FrameInv, Staging, Pristine, Continues
  <2>3. lease'.pendName => lease'.root /\ lease'.pendFds # {}
    BY <1>0, <1>a, <1>d DEF HoldInv, Answers, Now, FrameInv, Staging, Continues
  <2>4. \A i \in Item : names'[i] = "own" => lease'.root
    BY <1>0, <1>a, <1>d DEF HoldInv, Answers, Now, FrameInv, Staging, Pristine, Continues
  <2>5. Apart(lease')
    BY <1>0, <1>a, <1>d DEF HoldInv, Apart, Readers, ItemInv, FrameInv, Staging, Continues, Writer, Reader
  <2>6. frame' \cap Readers(lease') = {}
    BY <1>0, <1>a, <1>d DEF HoldInv, Readers, ItemInv, FrameInv, Staging, Continues, Writer, Reader
  <2> QED
    BY <2>1, <2>2, <2>3, <2>4, <2>5, <2>6 DEF HoldInv, Answers, Now
<1>7. EndInv'
  BY <1>0, <1>a, <1>d DEF EndInv, ActiveHoldsExactly, NothingHeld, Pristine, StateInv, FrameInv,
     ItemInv, TypeInv, TypeOK, Goes, Breaks, Continues
<1> QED
  BY <1>1, <1>2, <1>3, <1>4, <1>5, <1>6, <1>7 DEF LeaseInv

LEMMA InstallKeeps ==
  ASSUME LeaseInv, Install
  PROVE  LeaseInv'
<1>0. TypeInv /\ StateInv /\ FrameInv /\ ItemInv /\ ContentInv /\ HoldInv /\ EndInv
  BY DEF LeaseInv
<1>a. /\ pc = "install" /\ lease' \in LeaseRecords
      /\ UNCHANGED <<fds, names, links, stray, moved, written, result, meddles, cleanups>>
      /\ lease'.receipt = lease.receipt /\ lease'.state = lease.state /\ lease'.stuck = lease.stuck
      /\ lease'.root = lease.root /\ lease'.pendName = lease.pendName /\ lease'.pendFds = lease.pendFds
      /\ \/ /\ lease'.files = lease.files \cup {item} /\ frame' = {}
            /\ \/ Goes("verify") /\ item' = item /\ item = Items
               \/ Goes("open") /\ item' = item + 1 /\ item < Items
               \/ Breaks("handle") /\ item' = item
         \/ Breaks("handle") /\ lease' = lease /\ frame' = frame /\ item' = item
  BY InstallMeans
<1>d. /\ Writer \in Fd /\ Reader \in Fd /\ Writer # Reader /\ Writer # Root /\ Reader # Root
      /\ item \in Item /\ item \in Nat /\ 1 <= item /\ item <= Items /\ Root \in Fd
  BY <1>0, ItemDescriptors
<1>1. TypeInv'
  <2>1. item' \in Item /\ frame' \subseteq Fd
    BY <1>0, <1>a, <1>d, Numbers DEF TypeInv, TypeOK
  <2>2. faults' \in 0 .. MaxFaults /\ pc' \in {"verify", "open", "handle"}
    BY <1>0, <1>a DEF TypeInv, TypeOK, Goes, Breaks
  <2> QED
    BY <1>0, <1>a, <2>1, <2>2 DEF TypeInv, TypeOK, StagingPlaces, Staging, LeaseRecords
<1>2. StateInv'
  BY <1>0, <1>a, <1>d DEF StateInv, Staging, Pristine, Untouched, TypeInv, TypeOK, Goes, Breaks,
     Continues
<1>3. FrameInv'
  BY <1>0, <1>a, <1>d DEF FrameInv, Staging, StateInv, Writer, Reader, TypeInv, TypeOK, Goes,
     Breaks, Continues
<1>4. ItemInv'
  <2>1. /\ lease.files = 1 .. item - 1 /\ written = 1 .. item
        /\ \A j \in Item : j > item => names[j] = "none" /\ \A e \in Ends : fds[<<j, e>>] = "none"
    BY <1>0, <1>a DEF ItemInv, Staging
  <2>2. (1 .. item - 1) \cup {item} = 1 .. item
    BY <1>d
  <2>3. CASE pc' = "handle"
    BY <2>3 DEF ItemInv, Staging
  <2>4. CASE pc' = "verify" /\ lease'.files = lease.files \cup {item} /\ item' = item /\ item = Items
    <3>1. lease'.files = Item /\ written' = Item
      BY <1>a, <2>1, <2>2, <2>4 DEF Item
    <3> QED
      BY <1>a, <2>1, <2>4, <3>1 DEF ItemInv
  <2>5. CASE pc' = "open" /\ lease'.files = lease.files \cup {item} /\ item' = item + 1 /\ item < Items
    <3>1. /\ 1 .. item' - 1 = 1 .. item /\ item' > item /\ item' \in Item
          /\ \A j \in Item : j > item' => j > item
      BY <1>d, <2>5, Numbers
    <3>2. lease'.files = 1 .. item' - 1 /\ written' = 1 .. item' - 1
      BY <1>a, <2>1, <2>2, <2>5, <3>1
    <3>3. /\ names'[item'] = "none" /\ \A e \in Ends : fds'[<<item', e>>] = "none"
          /\ \A j \in Item : j > item' => names'[j] = "none" /\ \A e \in Ends : fds'[<<j, e>>] = "none"
      BY <1>a, <2>1, <3>1
    <3> QED
      BY <2>5, <3>2, <3>3 DEF ItemInv
  <2> QED
    BY <1>a, <2>3, <2>4, <2>5 DEF Goes, Breaks
<1>5. ContentInv'
  BY <1>0, <1>a, <1>d DEF ContentInv, ItemInv, TypeInv, TypeOK, Goes, Breaks, Continues
<1>6. HoldInv'
  BY <1>0, <1>a, <1>d, Numbers, Descriptors DEF HoldInv, Answers, Apart, HeldBy, Readers, Now,
     FrameInv, ItemInv, Writer, Reader, TypeInv, TypeOK, Goes, Breaks, Continues
<1>7. EndInv'
  BY <1>0, <1>a, <1>d DEF EndInv, ActiveHoldsExactly, NothingHeld, Pristine, StateInv, FrameInv,
     ItemInv, TypeInv, TypeOK, Goes, Breaks, Continues
<1> QED
  BY <1>1, <1>2, <1>3, <1>4, <1>5, <1>6, <1>7 DEF LeaseInv

LEMMA GrantKeeps ==
  ASSUME LeaseInv, Grant
  PROVE  LeaseInv'
<1>0. TypeInv /\ StateInv /\ FrameInv /\ ItemInv /\ ContentInv /\ HoldInv /\ EndInv
  BY DEF LeaseInv
<1>a. /\ pc = "active" /\ lease' \in LeaseRecords
      /\ UNCHANGED <<item, frame, fds, names, links, stray, moved, written, meddles, cleanups>>
      /\ lease'.stuck = lease.stuck /\ lease'.files = lease.files
      /\ lease'.root = lease.root /\ lease'.pendName = lease.pendName /\ lease'.pendFds = lease.pendFds
      /\ \/ Goes("done") /\ lease'.receipt /\ lease'.state = "active" /\ result' = "staged"
         \/ Breaks("abort") /\ lease' = lease /\ result' = result
  BY GrantMeans
<1>d. /\ Writer \in Fd /\ Reader \in Fd /\ Writer # Reader /\ Writer # Root /\ Reader # Root
      /\ item \in Item /\ item \in Nat /\ 1 <= item /\ item <= Items /\ Root \in Fd
  BY <1>0, ItemDescriptors
<1>1. TypeInv'
  BY <1>0, <1>a, <1>d, Counters DEF TypeInv, TypeOK, StagingPlaces, Staging, LeaseRecords, FdTables,
     NameTables, Goes, Breaks, Continues
<1>2. StateInv'
  <2>1. lease.files = Item /\ 1 \in Item /\ lease.state = "new"
    BY <1>0, <1>a, Numbers DEF ItemInv, StateInv
  <2>2. CASE pc' = "done" /\ lease'.state = "active"
    BY <2>2 DEF StateInv, Staging
  <2>3. CASE pc' = "abort" /\ lease' = lease
    BY <2>1, <2>3 DEF StateInv, Staging, Untouched
  <2> QED
    BY <1>a, <2>2, <2>3 DEF Goes, Breaks
<1>3. FrameInv'
  BY <1>0, <1>a, <1>d DEF FrameInv, Staging, StateInv, Writer, Reader, TypeInv, TypeOK, Goes,
     Breaks, Continues
<1>4. ItemInv'
  BY <1>0, <1>a, <1>d, Numbers, Descriptors DEF ItemInv, Staging, FrameInv, Writer, Reader,
     TypeInv, TypeOK, Goes, Breaks, Continues
<1>5. ContentInv'
  BY <1>0, <1>a, <1>d DEF ContentInv, ItemInv, TypeInv, TypeOK, Goes, Breaks, Continues
<1>6. HoldInv'
  BY <1>0, <1>a, <1>d, Numbers, Descriptors DEF HoldInv, Answers, Apart, HeldBy, Readers, Now,
     FrameInv, ItemInv, Writer, Reader, TypeInv, TypeOK, Goes, Breaks, Continues
<1>7. EndInv'
  BY <1>0, <1>a, <1>d DEF EndInv, ActiveHoldsExactly, NothingHeld, Pristine, StateInv, FrameInv,
     ItemInv, TypeInv, TypeOK, Goes, Breaks, Continues
<1> QED
  BY <1>1, <1>2, <1>3, <1>4, <1>5, <1>6, <1>7 DEF LeaseInv

LEMMA BeginKeeps ==
  ASSUME LeaseInv, Begin
  PROVE  LeaseInv'
<1>0. TypeInv /\ StateInv /\ FrameInv /\ ItemInv /\ ContentInv /\ HoldInv /\ EndInv
  BY DEF LeaseInv
<1>a. /\ pc \in {"idle", "done"} /\ lease = NewLease
      /\ UNCHANGED <<lease, item, frame, fds, names, links, stray, moved, written, meddles, cleanups>>
      /\ \/ Goes("root") /\ result' = "none"
         \/ Breaks("done") /\ result' = "invalid"
  BY BeginMeans
<1>d. /\ Writer \in Fd /\ Reader \in Fd /\ Writer # Reader /\ Writer # Root /\ Reader # Root
      /\ item \in Item /\ item \in Nat /\ 1 <= item /\ item <= Items /\ Root \in Fd
  BY <1>0, ItemDescriptors
<1>1. TypeInv'
  BY <1>0, <1>a, <1>d, Counters DEF TypeInv, TypeOK, StagingPlaces, Staging, LeaseRecords, FdTables,
     NameTables, Goes, Breaks, Continues
<1>2. StateInv'
  <2>1. Pristine'
    BY <1>0, <1>a DEF StateInv, Pristine, NewLease
  <2> QED
    BY <1>a, <2>1 DEF StateInv, Staging, NewLease, Goes, Breaks
<1>3. FrameInv'
  BY <1>0, <1>a, <1>d DEF FrameInv, Staging, StateInv, Writer, Reader, TypeInv, TypeOK, Goes,
     Breaks, Continues
<1>4. ItemInv'
  BY <1>0, <1>a, <1>d, Numbers, Descriptors DEF ItemInv, Staging, FrameInv, Writer, Reader,
     TypeInv, TypeOK, Goes, Breaks, Continues
<1>5. ContentInv'
  BY <1>0, <1>a, <1>d DEF ContentInv, ItemInv, TypeInv, TypeOK, Goes, Breaks, Continues
<1>6. HoldInv'
  BY <1>0, <1>a, <1>d, Numbers, Descriptors DEF HoldInv, Answers, Apart, HeldBy, Readers, Now,
     FrameInv, ItemInv, Writer, Reader, TypeInv, TypeOK, Goes, Breaks, Continues
<1>7. EndInv'
  <2>1. Pristine'
    BY <1>0, <1>a DEF StateInv, Pristine, NewLease
  <2>2. lease'.state = "new"
    BY <1>a DEF NewLease
  <2> QED
    BY <2>1, <2>2 DEF EndInv, ActiveHoldsExactly
<1> QED
  BY <1>1, <1>2, <1>3, <1>4, <1>5, <1>6, <1>7 DEF LeaseInv

LEMMA ActivateKeeps ==
  ASSUME LeaseInv, Activate
  PROVE  LeaseInv'
<1>0. TypeInv /\ StateInv /\ FrameInv /\ ItemInv /\ ContentInv /\ HoldInv /\ EndInv
  BY DEF LeaseInv
<1>a. /\ pc = "verify" /\ lease' \in LeaseRecords /\ fds' \in FdTables
      /\ UNCHANGED <<item, frame, names, links, stray, moved, written, result, meddles, cleanups>>
      /\ lease'.receipt = lease.receipt /\ lease'.state = lease.state /\ lease'.files = lease.files
      /\ lease'.pendName = lease.pendName /\ lease'.pendFds = lease.pendFds
      /\ \A d \in Fd : d # Root => fds'[d] = fds[d]
      /\ \/ /\ Goes("active") /\ RootVerified(Now)
            /\ fds'[Root] = "closed" /\ ~ lease'.root /\ lease'.stuck = lease.stuck
         \/ /\ Breaks("abort") /\ RootVerified(Now) /\ fds'[Root] = "limbo" /\ ~ lease'.root /\ lease'.stuck
         \/ /\ Breaks("abort") \/ (Goes("abort") /\ ~ RootVerified(Now))
            /\ lease' = lease /\ fds' = fds
  BY ActivateMeans
<1>d. /\ Writer \in Fd /\ Reader \in Fd /\ Writer # Reader /\ Writer # Root /\ Reader # Root
      /\ item \in Item /\ item \in Nat /\ 1 <= item /\ item <= Items /\ Root \in Fd
  BY <1>0, ItemDescriptors
<1>1. TypeInv'
  BY <1>0, <1>a, <1>d, Counters DEF TypeInv, TypeOK, StagingPlaces, Staging, LeaseRecords, FdTables,
     NameTables, Goes, Breaks, Continues
<1>2. StateInv'
  <2>1. lease'.files = Item /\ 1 \in Item /\ lease'.state = "new" /\ pc' \in {"active", "abort"}
    BY <1>0, <1>a, Numbers DEF ItemInv, StateInv, Staging, Goes, Breaks
  <2> QED
    BY <2>1 DEF StateInv, Staging, Untouched
<1>3. FrameInv'
  BY <1>0, <1>a, <1>d DEF FrameInv, Staging, StateInv, Writer, Reader, TypeInv, TypeOK, Goes,
     Breaks, Continues
<1>4. ItemInv'
  BY <1>0, <1>a, <1>d, Numbers, Descriptors DEF ItemInv, Staging, FrameInv, Writer, Reader,
     TypeInv, TypeOK, Goes, Breaks, Continues
<1>5. ContentInv'
  BY <1>0, <1>a, <1>d DEF ContentInv, ItemInv, TypeInv, TypeOK, Goes, Breaks, Continues
<1>6. HoldInv'
  <2>1. \A d \in Fd : fds'[d] \in {"open", "reused"} => d \in HeldBy(lease') \cup frame' \/ lease'.stuck
    BY <1>0, <1>a, <1>d DEF HoldInv, Answers, HeldBy, Now, FrameInv, Staging, Pristine, Continues, RootVerified, RootEmpty
  <2>2. \A d \in Fd : fds'[d] = "limbo" => lease'.stuck
    BY <1>0, <1>a, <1>d DEF HoldInv, Answers, Now, FrameInv, Staging, Pristine, Continues, RootVerified, RootEmpty
  <2>3. lease'.pendName => lease'.root /\ lease'.pendFds # {}
    BY <1>0, <1>a, <1>d DEF HoldInv, Answers, Now, FrameInv, Staging, Continues, RootVerified, RootEmpty
  <2>4. \A i \in Item : names'[i] = "own" => lease'.root
    BY <1>0, <1>a, <1>d DEF HoldInv, Answers, Now, FrameInv, Staging, Pristine, Continues, RootVerified, RootEmpty
  <2>5. Apart(lease')
    BY <1>0, <1>a, <1>d DEF HoldInv, Apart, Readers, ItemInv, FrameInv, Staging, Continues, Writer, Reader
  <2>6. frame' \cap Readers(lease') = {}
    BY <1>0, <1>a, <1>d DEF HoldInv, Readers, ItemInv, FrameInv, Staging, Continues, Writer, Reader
  <2> QED
    BY <2>1, <2>2, <2>3, <2>4, <2>5, <2>6 DEF HoldInv, Answers, Now
<1>7. EndInv'
  <2>1. lease'.state = "new" /\ pc' \in {"active", "abort"}
    BY <1>0, <1>a DEF StateInv, Staging, Goes, Breaks
  <2> QED
    BY <2>1 DEF EndInv, ActiveHoldsExactly
<1> QED
  BY <1>1, <1>2, <1>3, <1>4, <1>5, <1>6, <1>7 DEF LeaseInv

LEMMA MeddleKeeps ==
  ASSUME LeaseInv, Meddle
  PROVE  LeaseInv'
<1>0. TypeInv /\ StateInv /\ FrameInv /\ ItemInv /\ ContentInv /\ HoldInv /\ EndInv
  BY DEF LeaseInv
<1>a. /\ UNCHANGED <<lease, pc, item, frame, written, result, faults, cleanups>>
      /\ meddles' \in 0 .. MaxMeddles /\ meddles' # 0
      /\ fds' \in FdTables /\ names' \in NameTables /\ links' \in [Item -> BOOLEAN]
      /\ stray' \in BOOLEAN /\ moved' \in BOOLEAN
      /\ \A i \in Item : names'[i] = names[i] \/ (names[i] # "none" /\ names'[i] # "own")
      /\ \A i \in Item : links'[i] = links[i] \/ names[i] = "own" \/ links[i]
      /\ \A d \in Fd : fds'[d] = fds[d] \/ (pc = "done" /\ fds[d] = "open" /\ fds'[d] = "reused")
  BY MeddleMeans
<1>d. /\ Writer \in Fd /\ Reader \in Fd /\ Writer # Reader /\ Writer # Root /\ Reader # Root
      /\ item \in Item /\ item \in Nat /\ 1 <= item /\ item <= Items /\ Root \in Fd
  BY <1>0, ItemDescriptors
<1>1. TypeInv'
  BY <1>0, <1>a, <1>d, Counters DEF TypeInv, TypeOK, StagingPlaces, Staging, LeaseRecords, FdTables,
     NameTables, Goes, Breaks, Continues
<1>2. StateInv'
  BY <1>0, <1>a, <1>d DEF StateInv, Staging, Pristine, Untouched, TypeInv, TypeOK, Goes, Breaks,
     Continues
<1>3. FrameInv'
  BY <1>0, <1>a, <1>d DEF FrameInv, Staging, StateInv, Writer, Reader, TypeInv, TypeOK, Goes,
     Breaks, Continues
<1>4. ItemInv'
  BY <1>0, <1>a, <1>d, Numbers, Descriptors DEF ItemInv, Staging, FrameInv, Writer, Reader,
     TypeInv, TypeOK, Goes, Breaks, Continues
<1>5. ContentInv'
  BY <1>0, <1>a, <1>d DEF ContentInv, ItemInv, TypeInv, TypeOK, Goes, Breaks, Continues
<1>6. HoldInv'
  <2>1. \A d \in Fd : fds'[d] \in {"open", "reused"} => d \in HeldBy(lease') \cup frame' \/ lease'.stuck
    BY <1>0, <1>a, <1>d DEF HoldInv, Answers, HeldBy, Now, FrameInv, Staging, Pristine, Continues
  <2>2. \A d \in Fd : fds'[d] = "limbo" => lease'.stuck
    BY <1>0, <1>a, <1>d DEF HoldInv, Answers, Now, FrameInv, Staging, Pristine, Continues
  <2>3. lease'.pendName => lease'.root /\ lease'.pendFds # {}
    BY <1>0, <1>a, <1>d DEF HoldInv, Answers, Now, FrameInv, Staging, Continues
  <2>4. \A i \in Item : names'[i] = "own" => lease'.root
    BY <1>0, <1>a, <1>d DEF HoldInv, Answers, Now, FrameInv, Staging, Pristine, Continues
  <2>5. Apart(lease')
    BY <1>0, <1>a, <1>d DEF HoldInv, Apart, Readers, ItemInv, FrameInv, Staging, Continues, Writer, Reader
  <2>6. frame' \cap Readers(lease') = {}
    BY <1>0, <1>a, <1>d DEF HoldInv, Readers, ItemInv, FrameInv, Staging, Continues, Writer, Reader
  <2> QED
    BY <2>1, <2>2, <2>3, <2>4, <2>5, <2>6 DEF HoldInv, Answers, Now
<1>7. EndInv'
  BY <1>0, <1>a, <1>d DEF EndInv, ActiveHoldsExactly, NothingHeld, Pristine, StateInv, FrameInv,
     ItemInv, TypeInv, TypeOK, Goes, Breaks, Continues
<1> QED
  BY <1>1, <1>2, <1>3, <1>4, <1>5, <1>6, <1>7 DEF LeaseInv

\* What a cleanup does to the state, whichever way it goes.
Settles ==
  /\ lease' \in LeaseRecords /\ fds' \in FdTables /\ names' \in NameTables
  /\ \A d \in Fd : fds'[d] = fds[d] \/ (fds[d] = "open" /\ fds'[d] \in {"closed", "limbo"})
  /\ \A i \in Item : names'[i] = names[i] \/ (names[i] = "own" /\ names'[i] = "none")
  /\ lease'.pendFds \subseteq lease.pendFds /\ lease'.files \subseteq lease.files
  /\ Answers(Now', {})
  /\ lease'.state \in {"cleaned", "unverifiable"}
  /\ lease'.state = "cleaned" => NothingHeld'

LEMMA SettlesMeans ==
  ASSUME TypeInv, NEW s, NEW failing, Verdict(Now, s), Become(s, failing)
  PROVE  Settles /\ (s.ok <=> lease'.state = "cleaned")
<1>1. /\ Now \in CStates /\ Now.lease = lease /\ Now.fds = fds /\ Now.names = names
  BY NowIsState
<1>2. lease' = s.lease /\ fds' = s.fds /\ names' = s.names
  BY BecomeMeans
<1>3. /\ Tidies(Now, s) /\ Answers(s, {})
      /\ \/ s.ok /\ s.lease.state = "cleaned" /\ NothingLeft(s)
         \/ ~ s.ok /\ s.lease.state = "unverifiable"
  BY DEF Verdict
<1>4. s \in CStates
  BY <1>3 DEF Tidies
<1>5. lease' \in LeaseRecords /\ fds' \in FdTables /\ names' \in NameTables
  BY <1>2, <1>4, TypeOfState
<1>6. Answers(Now', {})
  BY <1>2, <1>3 DEF Answers, Now
<1>7. lease'.state = "cleaned" => NothingHeld'
  BY <1>2, <1>3 DEF NothingLeft, NothingHeld
<1> QED
  BY <1>1, <1>2, <1>3, <1>5, <1>6, <1>7 DEF Settles, Tidies

LEMMA SettlingKeeps ==
  ASSUME LeaseInv, Settles, UNCHANGED <<item, frame, links, stray, moved, written, meddles>>, frame = {},
         pc \in {"idle", "abort", "done"}, pc' \in {pc, "done"}, pc' # "abort",
         faults' \in 0 .. MaxFaults, cleanups' \in 0 .. MaxCleanups,
         result' \in {result, "invalid", "uncertain"},
         pc' = "idle" \/ (pc' = "done" /\ result' = "invalid") => lease'.state = "cleaned"
  PROVE  LeaseInv'
<1>0. TypeInv /\ StateInv /\ FrameInv /\ ItemInv /\ ContentInv /\ HoldInv /\ EndInv
  BY DEF LeaseInv
<1>1. TypeInv'
  BY <1>0 DEF Settles, TypeInv, TypeOK, StagingPlaces, LeaseRecords, FdTables, NameTables
<1>2. StateInv'
  BY DEF StateInv, Settles, Staging
<1>3. FrameInv'
  BY DEF FrameInv, Staging
<1>4. ItemInv'
  BY DEF ItemInv, Staging
<1>5. ContentInv'
  BY <1>0 DEF ContentInv, Settles, TypeInv, TypeOK
<1>6. HoldInv'
  BY <1>0 DEF HoldInv, Settles, Apart, Readers
<1>7. EndInv'
  BY DEF EndInv, Settles, ActiveHoldsExactly
<1> QED
  BY <1>1, <1>2, <1>3, <1>4, <1>5, <1>6, <1>7 DEF LeaseInv

LEMMA OpenFds == {d \in Fd : fds[d] = "open"} \in SUBSET Fd
  OBVIOUS

LEMMA CleanUpMeans ==
  ASSUME LeaseInv, CleanUp
  PROVE  /\ pc \in {"idle", "done"} /\ frame = {} /\ Settles
         /\ UNCHANGED <<pc, item, frame, links, stray, moved, written, result, meddles>>
         /\ faults' \in 0 .. MaxFaults /\ cleanups' \in 0 .. MaxCleanups /\ faults <= faults'
         /\ lease.state = "cleaned" \/ Pristine => lease'.state = "cleaned"
         /\ /\ faults' = 0 /\ lease.state = "active"
            /\ \A d \in Readers(lease) : fds[d] = "open"
            => lease'.state = "cleaned"
<1>0. TypeInv /\ StateInv /\ FrameInv /\ ContentInv /\ HoldInv /\ EndInv
  BY DEF LeaseInv
<1>1. /\ pc \in {"idle", "done"} /\ frame = {}
      /\ UNCHANGED <<pc, item, frame, links, stray, moved, written, result, meddles>>
  BY <1>0 DEF CleanUp, FrameInv
<1>2. PICK failing \in Failures({d \in Fd : fds[d] = "open"}) :
        Become(Outcome(Now, item, failing), failing)
  BY DEF CleanUp
<1> DEFINE s == Outcome(Now, item, failing)
<1>3. /\ Now \in CStates /\ Now.ok = TRUE /\ Now.lease = lease /\ Now.fds = fds /\ Now.names = names
      /\ item \in Item
  BY <1>0, NowIsState, ItemDescriptors
<1>4. Answers(Now, {}) /\ Unlinked(Now)
  BY <1>0, <1>1, <1>3 DEF HoldInv, ContentInv, Unlinked, Detached
<1>5. /\ lease.state = "active" => ~ lease.root /\ lease.pendFds = {} /\ ~ lease.stuck
      /\ lease.state = "cleaned" => NothingLeft(Now)
  BY <1>0, <1>3 DEF EndInv, ActiveHoldsExactly, NothingHeld, NothingLeft
<1>6. Verdict(Now, s)
  BY <1>3, <1>4, <1>5, OutcomeMeans
<1>7. Become(s, failing)
  BY <1>2
<1> HIDE DEF s
<1>8. Settles /\ (s.ok <=> lease'.state = "cleaned")
  BY <1>0, <1>6, <1>7, SettlesMeans
<1>9. /\ faults' = faults + Cardinality(Noticed(s, failing)) /\ fds' = s.fds
  BY <1>7, BecomeMeans
<1>10. /\ faults' \in 0 .. MaxFaults /\ faults <= faults'
       /\ faults' = 0 => Noticed(s, failing) = {}
       /\ failing \subseteq Fd \cup {Look, Sync}
  BY <1>0, <1>9, FailuresAreBounded, OpenFds
<1>11. cleanups' \in 0 .. MaxCleanups
  BY <1>0, Counters DEF CleanUp, TypeInv, TypeOK
<1>12. ASSUME lease.state = "cleaned" PROVE lease'.state = "cleaned"
  <2>1. s = Now
    BY <1>3, <1>12 DEF s, Outcome
  <2> QED
    BY <1>3, <1>8, <2>1
<1>13. ASSUME Pristine PROVE lease'.state = "cleaned"
  <2>1. /\ lease.state = "new" /\ ~ lease.pendName /\ lease.pendFds = {}
        /\ lease.files = {} /\ ~ lease.root /\ ~ lease.stuck
    BY <1>13 DEF Pristine, NewLease
  <2>2. s = Abort(Now, item, failing)
    BY <1>3, <2>1 DEF s, Outcome
  <2>3. s.ok
    BY <1>3, <1>4, <2>1, <2>2, AbortMeans
  <2> QED
    BY <1>8, <2>3
<1>14. ASSUME faults' = 0, lease.state = "active", \A d \in Readers(lease) : fds[d] = "open"
       PROVE  lease'.state = "cleaned"
  <2>1. s = CleanUpActive(Now, failing)
    BY <1>3, <1>14 DEF s, Outcome
  <2>2. Look \notin failing /\ \A d \in Fd : d \in failing => s.fds[d] = fds[d]
    BY <1>10, <1>14, Descriptors DEF Noticed
  <2>3. Readers(lease) \subseteq Fd
    <3>1. lease.files \subseteq Item
      BY <1>0, LeaseIsTyped DEF LeaseRecords
    <3>2. "reader" \in Ends
      BY DEF Ends
    <3>3. ASSUME NEW j \in Item PROVE <<j, "reader">> \in Fd
      BY <3>2, Descriptors
    <3> QED
      BY <3>1, <3>3 DEF Readers
  <2>4. s.ok
    BY <1>3, <1>4, <1>5, <1>14, <2>1, <2>2, <2>3, CleanUpActiveMeans
  <2> QED
    BY <1>8, <2>4
<1> QED
  BY <1>1, <1>8, <1>10, <1>11, <1>12, <1>13, <1>14

LEMMA CleanUpKeeps ==
  ASSUME LeaseInv, CleanUp
  PROVE  LeaseInv'
<1>1. /\ pc \in {"idle", "done"} /\ frame = {} /\ Settles
      /\ UNCHANGED <<pc, item, frame, links, stray, moved, written, result, meddles>>
      /\ faults' \in 0 .. MaxFaults /\ cleanups' \in 0 .. MaxCleanups
      /\ lease.state = "cleaned" \/ Pristine => lease'.state = "cleaned"
  BY CleanUpMeans
<1>2. pc = "idle" \/ (pc = "done" /\ result = "invalid") => lease.state = "cleaned" \/ Pristine
  BY DEF LeaseInv, StateInv, EndInv
<1> QED
  BY <1>1, <1>2, SettlingKeeps

LEMMA AbortStagingMeans ==
  ASSUME LeaseInv, AbortStaging
  PROVE  /\ pc = "abort" /\ pc' = "done" /\ frame = {}
         /\ UNCHANGED <<item, frame, links, stray, moved, written, meddles, cleanups>>
         /\ faults' \in 0 .. MaxFaults /\ faults <= faults'
         /\ \/ Pristine /\ UNCHANGED <<lease, fds, names>> /\ result' = "invalid"
            \/ Settles /\ result' = IF lease'.state = "cleaned" THEN "invalid" ELSE "uncertain"
<1>0. TypeInv /\ StateInv /\ FrameInv /\ ContentInv /\ HoldInv /\ EndInv
  BY DEF LeaseInv
<1>1. /\ pc = "abort" /\ pc' = "done" /\ frame = {}
      /\ UNCHANGED <<item, frame, links, stray, moved, written, meddles, cleanups>>
  BY <1>0 DEF AbortStaging, FrameInv, Goto
<1> DEFINE t(failing) == IF Untouched(lease) /\ lease.state = "new" THEN Now ELSE Abort(Now, item, failing)
<1>2. PICK failing \in Failures({d \in Fd : fds[d] = "open"}) :
        /\ Become(t(failing), failing)
        /\ result' = IF t(failing).ok THEN "invalid" ELSE "uncertain"
  BY DEF AbortStaging
<1> DEFINE s == t(failing)
<1>3. Become(s, failing) /\ result' = IF s.ok THEN "invalid" ELSE "uncertain"
  BY <1>2
<1>4. s = IF Untouched(lease) /\ lease.state = "new" THEN Now ELSE Abort(Now, item, failing)
  OBVIOUS
<1> HIDE DEF s, t
<1>5. /\ Now \in CStates /\ Now.ok = TRUE /\ Now.lease = lease /\ Now.fds = fds /\ Now.names = names
      /\ item \in Item
  BY <1>0, NowIsState, ItemDescriptors
<1>6. /\ lease' = s.lease /\ fds' = s.fds /\ names' = s.names
      /\ faults' = faults + Cardinality(Noticed(s, failing))
  BY <1>3, BecomeMeans
<1>7. faults' \in 0 .. MaxFaults /\ faults <= faults'
  BY <1>0, <1>6, FailuresAreBounded, OpenFds
<1>8. CASE Untouched(lease) /\ lease.state = "new"
  <2>1. Pristine /\ s = Now
    BY <1>0, <1>1, <1>4, <1>8 DEF StateInv
  <2> QED
    BY <1>1, <1>3, <1>5, <1>6, <1>7, <2>1
<1>9. CASE ~ (Untouched(lease) /\ lease.state = "new")
  <2>1. s = Abort(Now, item, failing)
    BY <1>4, <1>9
  <2>2. Answers(Now, {}) /\ Unlinked(Now)
    BY <1>0, <1>1, <1>5 DEF HoldInv, ContentInv, Unlinked, Detached
  <2>3. Verdict(Now, s)
    BY <1>5, <2>1, <2>2, AbortMeans
  <2>4. Settles /\ (s.ok <=> lease'.state = "cleaned")
    BY <1>0, <1>3, <2>3, SettlesMeans
  <2> QED
    BY <1>1, <1>3, <1>7, <2>4
<1> QED
  BY <1>8, <1>9

LEMMA AbortStagingKeeps ==
  ASSUME LeaseInv, AbortStaging
  PROVE  LeaseInv'
<1>0. TypeInv /\ StateInv /\ FrameInv /\ ItemInv /\ ContentInv /\ HoldInv /\ EndInv
  BY DEF LeaseInv
<1>a. /\ pc = "abort" /\ pc' = "done" /\ frame = {}
      /\ UNCHANGED <<item, frame, links, stray, moved, written, meddles, cleanups>>
      /\ faults' \in 0 .. MaxFaults
      /\ \/ Pristine /\ UNCHANGED <<lease, fds, names>> /\ result' = "invalid"
         \/ Settles /\ result' = IF lease'.state = "cleaned" THEN "invalid" ELSE "uncertain"
  BY AbortStagingMeans
<1>b. cleanups' \in 0 .. MaxCleanups
  BY <1>0, <1>a DEF TypeInv, TypeOK
<1>c. CASE Settles /\ result' = IF lease'.state = "cleaned" THEN "invalid" ELSE "uncertain"
  BY <1>a, <1>b, <1>c, SettlingKeeps
<1>d. CASE Pristine /\ UNCHANGED <<lease, fds, names>> /\ result' = "invalid"
  <2>1. TypeInv'
    BY <1>0, <1>a, <1>d DEF TypeInv, TypeOK, StagingPlaces
  <2>2. Pristine' /\ lease'.state = "new"
    BY <1>a, <1>d DEF Pristine, NewLease
  <2>3. StateInv'
    BY <1>a, <2>2 DEF StateInv, Staging
  <2>4. FrameInv' /\ ItemInv'
    BY <1>a DEF FrameInv, ItemInv, Staging
  <2>5. ContentInv'
    BY <1>0, <1>a, <1>d DEF ContentInv
  <2>6. HoldInv'
    BY <1>0, <1>a, <1>d DEF HoldInv, Answers, Now
  <2>7. EndInv'
    BY <2>2 DEF EndInv, ActiveHoldsExactly
  <2> QED
    BY <2>1, <2>3, <2>4, <2>5, <2>6, <2>7 DEF LeaseInv
<1> QED
  BY <1>a, <1>c, <1>d

LEMMA HandleMeans ==
  ASSUME LeaseInv, Handle
  PROVE  /\ pc = "handle" /\ pc' = "abort" /\ frame' = {}
         /\ UNCHANGED <<item, links, stray, moved, written, result, meddles, cleanups>>
         /\ faults' \in 0 .. MaxFaults /\ faults <= faults'
         /\ lease' \in LeaseRecords /\ fds' \in FdTables /\ names' \in NameTables
         /\ \A d \in Fd : fds'[d] = fds[d] \/ (fds[d] = "open" /\ fds'[d] \in {"closed", "limbo"})
         /\ \A i \in Item : names'[i] = names[i] \/ (names[i] = "own" /\ names'[i] = "none")
         /\ lease'.files = lease.files /\ lease'.root = lease.root
         /\ lease'.pendFds \subseteq frame \cup lease.pendFds
         /\ lease'.state \in {"new", "unverifiable"}
         /\ Answers(Now', {})
<1>0. TypeInv /\ StateInv /\ FrameInv /\ HoldInv
  BY DEF LeaseInv
<1>1. /\ pc = "handle" /\ pc' = "abort" /\ frame' = {}
      /\ UNCHANGED <<item, links, stray, moved, written, result, meddles, cleanups>>
  BY DEF Handle, Goto
<1>2. PICK failing \in Failures(frame) : Become(Handled(Now, item, failing), failing)
  BY DEF Handle
<1> DEFINE s == Handled(Now, item, failing)
<1>3. /\ Now \in CStates /\ Now.lease = lease /\ Now.fds = fds /\ Now.names = names
      /\ item \in Item /\ frame \in SUBSET Fd
  BY <1>0, NowIsState, ItemDescriptors DEF TypeInv, TypeOK
<1>4. /\ Answers(Now, frame) /\ lease.state = "new" /\ (lease.pendName => lease.pendFds = frame)
      /\ ~ lease.pendName /\ frame # {} => lease.pendFds = {}
      /\ \A d \in frame : fds[d] = "open"
  BY <1>0, <1>1 DEF HoldInv, StateInv, FrameInv
<1>5. HandledEnds(Now, s)
  BY <1>3, <1>4, HandledMeans
<1>6. Become(s, failing)
  BY <1>2
<1> HIDE DEF s
<1>7. /\ lease' = s.lease /\ fds' = s.fds /\ names' = s.names
      /\ faults' = faults + Cardinality(Noticed(s, failing))
  BY <1>6, BecomeMeans
<1>8. faults' \in 0 .. MaxFaults /\ faults <= faults'
  BY <1>0, <1>3, <1>7, FailuresAreBounded
<1>9. s \in CStates /\ Answers(s, {})
  BY <1>5 DEF HandledEnds
<1>10. lease' \in LeaseRecords /\ fds' \in FdTables /\ names' \in NameTables
  BY <1>7, <1>9, TypeOfState
<1>11. Answers(Now', {})
  BY <1>7, <1>9 DEF Answers, Now
<1> QED
  BY <1>1, <1>3, <1>5, <1>7, <1>8, <1>10, <1>11 DEF HandledEnds

LEMMA HandleKeeps ==
  ASSUME LeaseInv, Handle
  PROVE  LeaseInv'
<1>0. TypeInv /\ StateInv /\ FrameInv /\ ItemInv /\ ContentInv /\ HoldInv /\ EndInv
  BY DEF LeaseInv
<1>a. /\ pc = "handle" /\ pc' = "abort" /\ frame' = {}
      /\ UNCHANGED <<item, links, stray, moved, written, result, meddles, cleanups>>
      /\ faults' \in 0 .. MaxFaults
      /\ lease' \in LeaseRecords /\ fds' \in FdTables /\ names' \in NameTables
      /\ \A i \in Item : names'[i] = names[i] \/ (names[i] = "own" /\ names'[i] = "none")
      /\ lease'.files = lease.files /\ lease'.root = lease.root
      /\ lease'.pendFds \subseteq frame \cup lease.pendFds
      /\ lease'.state \in {"new", "unverifiable"}
      /\ Answers(Now', {})
  BY HandleMeans
<1>1. TypeInv'
  BY <1>0, <1>a DEF TypeInv, TypeOK, StagingPlaces, LeaseRecords, FdTables, NameTables
<1>2. StateInv'
  BY <1>0, <1>a DEF StateInv, Staging, Untouched, FrameInv
<1>3. FrameInv' /\ ItemInv'
  BY <1>a DEF FrameInv, ItemInv, Staging
<1>4. ContentInv'
  BY <1>0, <1>a DEF ContentInv, TypeInv, TypeOK
<1>5. HoldInv'
  <2>1. Root \notin frame /\ frame \cap Readers(lease) = {}
    BY <1>0, <1>a, ItemDescriptors DEF FrameInv, HoldInv
  <2>2. Apart(lease')
    BY <1>0, <1>a, <2>1 DEF HoldInv, Apart, Readers
  <2> QED
    BY <1>a, <2>2 DEF HoldInv
<1>6. EndInv'
  BY <1>a DEF EndInv, ActiveHoldsExactly
<1> QED
  BY <1>1, <1>2, <1>3, <1>4, <1>5, <1>6 DEF LeaseInv

LEMMA InterruptedCleanUpMeans ==
  ASSUME LeaseInv, InterruptedCleanUp
  PROVE  /\ pc = "done" /\ lease.state = "active"
         /\ UNCHANGED <<lease, pc, item, frame, names, links, stray, moved, written, result, meddles>>
         /\ fds' \in FdTables
         /\ \A d \in Fd : fds'[d] = fds[d] \/ (fds[d] = "open" /\ fds'[d] = "closed")
         /\ faults' \in 0 .. MaxFaults /\ faults' # 0 /\ cleanups' \in 0 .. MaxCleanups
<1>1. /\ pc = "done" /\ lease.state = "active"
      /\ UNCHANGED <<lease, pc, item, frame, names, links, stray, moved, written, result, meddles>>
  BY DEF InterruptedCleanUp, world
<1>2. PICK gone \in SUBSET {<<i, "reader">> : i \in lease.files} :
        (\A d \in gone : fds[d] = "open") /\ fds' = Closed(fds, gone, {})
  BY DEF InterruptedCleanUp
<1>3. fds \in FdTables
  BY LeaseIsTyped DEF LeaseInv
<1>4. /\ fds' \in FdTables
      /\ \A d \in Fd : fds'[d] = IF d \notin gone THEN fds[d] ELSE IF d \in {} THEN "limbo" ELSE "closed"
  BY <1>2, <1>3, ClosedMeans
<1>5. faults' \in 0 .. MaxFaults /\ faults' # 0 /\ cleanups' \in 0 .. MaxCleanups
  BY Counters DEF InterruptedCleanUp, LeaseInv, TypeInv, TypeOK
<1> QED
  BY <1>1, <1>2, <1>4, <1>5

LEMMA InterruptedCleanUpKeeps ==
  ASSUME LeaseInv, InterruptedCleanUp
  PROVE  LeaseInv'
<1>0. TypeInv /\ StateInv /\ FrameInv /\ ItemInv /\ ContentInv /\ HoldInv /\ EndInv
  BY DEF LeaseInv
<1>a. /\ pc = "done" /\ lease.state = "active"
      /\ UNCHANGED <<lease, pc, item, frame, names, links, stray, moved, written, result, meddles>>
      /\ fds' \in FdTables
      /\ \A d \in Fd : fds'[d] = fds[d] \/ (fds[d] = "open" /\ fds'[d] = "closed")
      /\ faults' \in 0 .. MaxFaults /\ cleanups' \in 0 .. MaxCleanups
  BY InterruptedCleanUpMeans
<1>1. TypeInv'
  BY <1>0, <1>a DEF TypeInv, TypeOK, StagingPlaces, FdTables
<1>2. StateInv'
  BY <1>a DEF StateInv, Staging
<1>3. FrameInv' /\ ItemInv'
  BY <1>0, <1>a DEF FrameInv, ItemInv, Staging
<1>4. ContentInv'
  BY <1>0, <1>a DEF ContentInv
<1>5. HoldInv'
  BY <1>0, <1>a DEF HoldInv, Answers, Now
<1>6. EndInv'
  <2>1. ~ Pristine
    BY <1>a DEF Pristine, NewLease
  <2> QED
    BY <1>0, <1>a, <2>1 DEF EndInv, ActiveHoldsExactly
<1> QED
  BY <1>1, <1>2, <1>3, <1>4, <1>5, <1>6 DEF LeaseInv

LEMMA LeaseInvKept ==
  ASSUME LeaseInv, [Next]_vars
  PROVE  LeaseInv'
<1>1. CASE Next
  BY <1>1, BeginKeeps, PrepareRootKeeps, OpenWriterKeeps, OpenReaderKeeps, DetachKeeps, WriteKeeps,
     CloseWriterKeeps, InstallKeeps, ActivateKeeps, GrantKeeps, HandleKeeps, AbortStagingKeeps,
     CleanUpKeeps, InterruptedCleanUpKeeps, MeddleKeeps DEF Next
<1>2. CASE UNCHANGED vars
  <2>0. TypeInv /\ StateInv /\ FrameInv /\ ItemInv /\ ContentInv /\ HoldInv /\ EndInv
    BY DEF LeaseInv
  <2>1. /\ UNCHANGED <<lease, pc, item, frame, fds, names, links, stray, moved, written, result>>
        /\ UNCHANGED <<faults, meddles, cleanups>>
    BY <1>2 DEF vars, world, bounds
  <2>2. TypeInv'
    BY <2>0, <2>1 DEF TypeInv, TypeOK
  <2>3. Pristine' <=> Pristine
    BY <2>1 DEF Pristine
  <2>4. StateInv'
    BY <2>0, <2>1, <2>3 DEF StateInv
  <2>5. FrameInv' /\ ItemInv'
    BY <2>0, <2>1 DEF FrameInv, ItemInv, Writer, Reader
  <2>6. ContentInv'
    BY <2>0, <2>1 DEF ContentInv
  <2>7. HoldInv'
    BY <2>0, <2>1 DEF HoldInv, Answers, Now
  <2>8. EndInv'
    BY <2>0, <2>1, <2>3 DEF EndInv, ActiveHoldsExactly, NothingHeld
  <2> QED
    BY <2>2, <2>4, <2>5, <2>6, <2>7, <2>8 DEF LeaseInv
<1> QED
  BY <1>1, <1>2

LEMMA LeaseInvHolds ==
  ASSUME Init
  PROVE  LeaseInv
<1>1. item = 1 /\ 1 \in Item /\ frame = {} /\ written = {} /\ lease = NewLease /\ pc = "idle" /\ result = "none"
  BY Numbers DEF Init
<1>2. /\ lease \in LeaseRecords /\ fds \in FdTables /\ names \in NameTables /\ links \in [Item -> BOOLEAN]
      /\ \A d \in Fd : fds[d] = "none"
      /\ \A i \in Item : names[i] = "none" /\ ~ links[i]
  BY DEF Init, LeaseRecords, LeaseStates, NewLease, FdTables, FdStates, NameTables
<1>3. TypeInv
  <2>1. faults \in 0 .. MaxFaults /\ meddles \in 0 .. MaxMeddles /\ cleanups \in 0 .. MaxCleanups
    BY StageAssumption DEF Init
  <2>2. stray \in BOOLEAN /\ moved \in BOOLEAN
    BY DEF Init
  <2> QED
    BY <1>1, <1>2, <2>1, <2>2 DEF TypeInv, TypeOK, StagingPlaces, LeaseRecords, FdTables, NameTables
<1>4. Pristine
  BY <1>1, <1>2 DEF Pristine
<1>5. StateInv
  BY <1>1, <1>4 DEF StateInv, Staging, NewLease
<1>6. FrameInv /\ ItemInv
  BY <1>1 DEF FrameInv, ItemInv, Staging
<1>7. ContentInv
  BY <1>1 DEF ContentInv, NewLease
<1>8. HoldInv
  BY <1>1, <1>2 DEF HoldInv, Answers, Apart, Readers, Now, NewLease
<1>9. EndInv
  BY <1>1 DEF EndInv, ActiveHoldsExactly, NewLease
<1> QED
  BY <1>3, <1>5, <1>6, <1>7, <1>8, <1>9 DEF LeaseInv

-----------------------------------------------------------------------------
(* Undisturbed. *)

LEMMA CalmKept ==
  ASSUME LeaseInv, Calm, [Next]_vars, faults' = 0, meddles' = 0
  PROVE  Calm'
<1>0. TypeInv /\ StateInv /\ FrameInv /\ ItemInv /\ HoldInv /\ EndInv
  BY DEF LeaseInv
<1>d. /\ Writer \in Fd /\ Reader \in Fd /\ Writer # Reader /\ Writer # Root /\ Reader # Root
      /\ item \in Item /\ item \in Nat /\ 1 <= item /\ item <= Items /\ Root \in Fd
  BY <1>0, ItemDescriptors
<1>r. /\ lease.files \subseteq Item
      /\ \A i \in Item : <<i, "reader">> \in Fd /\ <<i, "reader">> # Root /\ <<i, "reader">> # Writer
      /\ \A i \in Item : i # item => <<i, "reader">> # Reader
  <2>1. "reader" \in Ends /\ "writer" \in Ends
    BY DEF Ends
  <2>2. lease.files \subseteq Item
    BY <1>0, LeaseIsTyped DEF LeaseRecords
  <2>3. ASSUME NEW i \in Item
        PROVE  <<i, "reader">> \in Fd /\ <<i, "reader">> # Root /\ <<i, "reader">> # Writer
    BY <1>d, <2>1, Descriptors DEF Writer
  <2>4. ASSUME NEW i \in Item, i # item PROVE <<i, "reader">> # Reader
    BY <2>4 DEF Reader
  <2> QED
    BY <2>2, <2>3, <2>4
<1>1. CASE Begin
  BY <1>1, BeginMeans DEF Calm, Goes, Breaks, Staging, NewLease
<1>2. CASE PrepareRoot
  BY <1>2, PrepareRootMeans DEF Calm, Goes, Breaks, Staging, RootEmpty, Pristine
<1>3. CASE OpenWriter
  <2>1. /\ pc = "open" /\ pc' = "pair" /\ UNCHANGED <<item, links, stray, moved>>
        /\ lease'.files = lease.files /\ lease'.state = lease.state /\ names'[item] = "own"
        /\ \A d \in Fd : d # Writer => fds'[d] = fds[d]
        /\ \A j \in Item : j # item => names'[j] = names[j]
    BY <1>3, OpenWriterMeans DEF Goes, Breaks, Continues
  <2> QED
    BY <1>r, <2>1 DEF Calm, Staging
<1>4. CASE OpenReader
  <2>1. /\ pc = "pair" /\ pc' = "detach" /\ UNCHANGED <<item, names, links, stray, moved>>
        /\ lease'.files = lease.files /\ lease'.state = lease.state
        /\ fds'[Reader] = "open" /\ \A d \in Fd : d # Reader => fds'[d] = fds[d]
    BY <1>4, <1>d, OpenReaderMeans DEF Goes, Breaks, Continues, Calm
  <2>2. \A i \in lease.files : fds'[<<i, "reader">>] = "open"
    BY <1>r, <2>1 DEF Calm, Staging, Reader
  <2> QED
    BY <2>1, <2>2 DEF Calm, Staging
<1>5. CASE Detach
  <2>1. /\ pc = "detach" /\ pc' = "write" /\ UNCHANGED <<item, fds, links, stray, moved>>
        /\ lease'.files = lease.files /\ lease'.state = lease.state /\ names'[item] = "none"
        /\ \A j \in Item : j # item => names'[j] = names[j]
    BY <1>5, <1>d, DetachMeans DEF Goes, Breaks, Continues, Calm
  <2> QED
    BY <2>1 DEF Calm, Staging
<1>6. CASE Write
  BY <1>6, WriteMeans DEF Calm, Goes, Breaks, Staging
<1>7. CASE CloseWriter
  <2>1. /\ pc = "single" /\ pc' = "install" /\ UNCHANGED <<lease, item, names, links, stray, moved>>
        /\ \A d \in Fd : d # Writer => fds'[d] = fds[d]
    BY <1>7, CloseWriterMeans DEF Goes, Breaks
  <2> QED
    BY <1>r, <2>1 DEF Calm, Staging
<1>8. CASE Install
  <2>1. /\ pc = "install" /\ pc' \in {"verify", "open"} /\ UNCHANGED <<fds, names, links, stray, moved>>
        /\ lease'.files = lease.files \cup {item} /\ lease'.state = lease.state
    BY <1>8, InstallMeans DEF Goes, Breaks
  <2>2. fds[Reader] = "open"
    BY <1>0, <2>1 DEF FrameInv
  <2>3. \A i \in lease'.files : fds'[<<i, "reader">>] = "open"
    BY <2>1, <2>2 DEF Calm, Staging, Reader
  <2> QED
    BY <2>1, <2>3 DEF Calm, Staging
<1>9. CASE Activate
  <2>1. /\ pc = "verify" /\ UNCHANGED <<item, names, links, stray, moved>>
        /\ lease'.files = lease.files /\ lease'.state = lease.state
        /\ \A d \in Fd : d # Root => fds'[d] = fds[d]
        /\ pc' = "active" \/ ~ RootVerified(Now)
    BY <1>9, ActivateMeans DEF Goes, Breaks
  <2>2. fds[Root] = "open" /\ \A i \in Item : names[i] = "none"
    BY <1>0, <2>1 DEF FrameInv, Staging, Calm
  <2>3. RootVerified(Now)
    BY <2>2 DEF RootVerified, RootEmpty, Now, Calm
  <2> QED
    BY <1>r, <2>1, <2>3 DEF Calm, Staging
<1>10. CASE Grant
  <2>1. /\ pc = "active" /\ pc' = "done" /\ UNCHANGED <<item, fds, names, links, stray, moved>>
        /\ lease'.files = lease.files /\ lease'.state = "active"
    BY <1>10, GrantMeans DEF Goes, Breaks
  <2> QED
    BY <2>1 DEF Calm, Staging
<1>11. CASE Handle
  BY <1>11, HandleMeans DEF Calm
<1>12. CASE AbortStaging
  BY <1>12, AbortStagingMeans DEF Calm
<1>13. CASE CleanUp
  <2>1. /\ pc \in {"idle", "done"} /\ UNCHANGED <<pc, item, links, stray, moved>>
        /\ \A i \in Item : names'[i] = names[i] \/ names'[i] = "none"
        /\ lease.state = "cleaned" \/ Pristine => lease'.state = "cleaned"
        /\ lease.state = "active" /\ (\A d \in Readers(lease) : fds[d] = "open") => lease'.state = "cleaned"
    BY <1>13, CleanUpMeans DEF Settles
  <2>2. lease.state \in {"new", "active", "cleaned"}
    BY <1>0, LeaseIsTyped DEF LeaseRecords, LeaseStates, Calm
  <2>3. lease.state = "new" => Pristine
    BY <1>0, <2>1 DEF StateInv
  <2>4. lease.state = "active" => \A d \in Readers(lease) : fds[d] = "open"
    BY DEF Calm, Readers
  <2>5. lease'.state = "cleaned"
    BY <2>1, <2>2, <2>3, <2>4
  <2> QED
    BY <2>1, <2>5 DEF Calm, Staging
<1>14. CASE InterruptedCleanUp
  BY <1>14, InterruptedCleanUpMeans
<1>15. CASE Meddle
  BY <1>15, MeddleMeans
<1>16. CASE UNCHANGED vars
  BY <1>16 DEF Calm, vars, world
<1> QED
  BY <1>1, <1>2, <1>3, <1>4, <1>5, <1>6, <1>7, <1>8, <1>9, <1>10, <1>11, <1>12, <1>13, <1>14, <1>15, <1>16
     DEF Next

\* No step takes a failure or a disturbance back.
LEMMA NothingIsTakenBack ==
  ASSUME LeaseInv, [Next]_vars, faults' = 0 /\ meddles' = 0
  PROVE  faults = 0 /\ meddles = 0
<1>0. TypeInv
  BY DEF LeaseInv
<1>1. CASE Next
  <2>1. faults \in Nat /\ meddles \in Nat
    BY <1>0, Counters
  <2>2. faults <= faults' \/ faults' = faults
    <3>1. CASE Begin
      BY <3>1, BeginMeans DEF Goes, Breaks
    <3>2. CASE PrepareRoot
      BY <3>2, PrepareRootMeans DEF Goes, Breaks
    <3>3. CASE OpenWriter
      BY <3>3, OpenWriterMeans DEF Goes, Breaks
    <3>4. CASE OpenReader
      BY <3>4, OpenReaderMeans DEF Goes, Breaks
    <3>5. CASE Detach
      BY <3>5, DetachMeans DEF Goes, Breaks
    <3>6. CASE Write
      BY <3>6, WriteMeans DEF Goes, Breaks
    <3>7. CASE CloseWriter
      BY <3>7, CloseWriterMeans DEF Goes, Breaks
    <3>8. CASE Install
      BY <3>8, InstallMeans DEF Goes, Breaks
    <3>9. CASE Activate
      BY <3>9, ActivateMeans DEF Goes, Breaks
    <3>10. CASE Grant
      BY <3>10, GrantMeans DEF Goes, Breaks
    <3>11. CASE Handle
      BY <3>11, HandleMeans
    <3>12. CASE AbortStaging
      BY <3>12, AbortStagingMeans
    <3>13. CASE CleanUp
      BY <3>13, CleanUpMeans
    <3>14. CASE InterruptedCleanUp
      BY <3>14, InterruptedCleanUpMeans
    <3>15. CASE Meddle
      BY <3>15, MeddleMeans
    <3> QED
      BY <1>1, <3>1, <3>2, <3>3, <3>4, <3>5, <3>6, <3>7, <3>8, <3>9, <3>10, <3>11, <3>12, <3>13, <3>14, <3>15
         DEF Next
  <2>3. meddles' = meddles \/ meddles' # 0
    BY <1>1, BeginMeans, PrepareRootMeans, OpenWriterMeans, OpenReaderMeans, DetachMeans, WriteMeans,
       CloseWriterMeans, InstallMeans, ActivateMeans, GrantMeans, HandleMeans, AbortStagingMeans,
       CleanUpMeans, InterruptedCleanUpMeans, MeddleMeans DEF Next
  <2> QED
    BY <2>1, <2>2, <2>3
<1>2. CASE UNCHANGED vars
  BY <1>2 DEF vars, bounds
<1> QED
  BY <1>1, <1>2

-----------------------------------------------------------------------------
(* Others. *)

\* What a step may do to what is not, or is no longer, the lease's own.
Respects ==
  /\ \A d \in Fd : fds[d] \in {"limbo", "lost", "reused"} => fds'[d] = fds[d]
  /\ \A i \in Item : names[i] = "foreign" => names'[i] = "foreign"

LEMMA OthersRespected ==
  ASSUME LeaseInv, [Next]_vars, meddles' = meddles
  PROVE  Respects
<1>0. TypeInv /\ StateInv /\ FrameInv /\ ItemInv
  BY DEF LeaseInv
<1>d. /\ Writer \in Fd /\ Reader \in Fd /\ Root \in Fd /\ item \in Item
      /\ \A e \in Ends : e = "writer" \/ e = "reader"
  BY <1>0, ItemDescriptors DEF Ends
<1>1. CASE Begin
  BY <1>1, BeginMeans DEF Respects
<1>2. CASE PrepareRoot
  <2>1. /\ \A d \in Fd : fds[d] \notin {"limbo", "lost", "reused"}
        /\ names' = names
    BY <1>2, PrepareRootMeans DEF Pristine
  <2> QED
    BY <2>1 DEF Respects
<1>3. CASE OpenWriter
  <2>1. /\ pc = "open" /\ \A d \in Fd : d # Writer => fds'[d] = fds[d]
        /\ \A j \in Item : j # item => names'[j] = names[j]
    BY <1>3, OpenWriterMeans
  <2>2. fds[Writer] = "none" /\ names[item] = "none"
    BY <1>0, <2>1 DEF ItemInv, Writer, Ends
  <2> QED
    BY <2>1, <2>2 DEF Respects
<1>4. CASE OpenReader
  <2>1. pc = "pair" /\ names' = names /\ \A d \in Fd : d # Reader => fds'[d] = fds[d]
    BY <1>4, OpenReaderMeans
  <2>2. fds[Reader] = "none"
    BY <1>0, <2>1 DEF ItemInv
  <2> QED
    BY <2>1, <2>2 DEF Respects
<1>5. CASE Detach
  <2>1. /\ fds' = fds /\ \A j \in Item : j # item => names'[j] = names[j]
        /\ names' = names \/ names[item] = "own"
    BY <1>5, DetachMeans
  <2> QED
    BY <2>1 DEF Respects
<1>6. CASE Write
  BY <1>6, WriteMeans DEF Respects
<1>7. CASE CloseWriter
  <2>1. pc = "single" /\ names' = names /\ \A d \in Fd : d # Writer => fds'[d] = fds[d]
    BY <1>7, CloseWriterMeans
  <2>2. fds[Writer] = "open"
    BY <1>0, <2>1 DEF FrameInv
  <2> QED
    BY <2>1, <2>2 DEF Respects
<1>8. CASE Install
  BY <1>8, InstallMeans DEF Respects
<1>9. CASE Activate
  <2>1. pc = "verify" /\ names' = names /\ \A d \in Fd : d # Root => fds'[d] = fds[d]
    BY <1>9, ActivateMeans
  <2>2. fds[Root] = "open"
    BY <1>0, <2>1 DEF FrameInv, Staging
  <2> QED
    BY <2>1, <2>2 DEF Respects
<1>10. CASE Grant
  BY <1>10, GrantMeans DEF Respects
<1>11. CASE Handle
  BY <1>11, HandleMeans DEF Respects
<1>12. CASE AbortStaging
  BY <1>12, AbortStagingMeans DEF Respects, Settles
<1>13. CASE CleanUp
  BY <1>13, CleanUpMeans DEF Respects, Settles
<1>14. CASE InterruptedCleanUp
  BY <1>14, InterruptedCleanUpMeans DEF Respects
<1>15. CASE Meddle
  BY <1>15, MeddleMeans
<1>16. CASE UNCHANGED vars
  BY <1>16 DEF Respects, vars, world
<1> QED
  BY <1>1, <1>2, <1>3, <1>4, <1>5, <1>6, <1>7, <1>8, <1>9, <1>10, <1>11, <1>12, <1>13, <1>14, <1>15, <1>16
     DEF Next

-----------------------------------------------------------------------------
(* The theorems. *)

LEMMA CalmInvHolds ==
  ASSUME Init
  PROVE  CalmInv
  BY DEF Init, CalmInv, Calm, Staging, NewLease

LEMMA CalmInvKept ==
  ASSUME LeaseInv, CalmInv, [Next]_vars
  PROVE  CalmInv'
<1>1. SUFFICES ASSUME faults' = 0, meddles' = 0 PROVE Calm'
  BY DEF CalmInv
<1>2. Calm
  BY <1>1, NothingIsTakenBack DEF CalmInv
<1> QED
  BY <1>1, <1>2, CalmKept

LEMMA VerdictFollows ==
  ASSUME LeaseInv, CalmInv
  PROVE  CleanupVerdictIsRight
<1>0. TypeInv /\ StateInv /\ FrameInv /\ HoldInv /\ EndInv
  BY DEF LeaseInv
<1>1. ReportedCleanIsClean
  <2>1. Pristine => NothingHeld
    BY DEF Pristine, NothingHeld
  <2> QED
    BY <1>0, <2>1 DEF EndInv, ReportedCleanIsClean
<1>2. UndisturbedIsClean
  BY DEF CalmInv, Calm, UndisturbedIsClean
<1>3. ASSUME pc = "done", lease.state = "unverifiable", ~ lease.stuck,
             ~ stray, ~ moved, \A i \in Item : ~ links[i],
             \A i \in Item : names[i] = "none" \/ (names[i] = "own" /\ lease.pendName /\ i = item),
             \A d \in Held : fds[d] = "open"
      PROVE  Outcome(Now, item, {}).lease.state = "cleaned"
  <2>1. /\ Now \in CStates /\ Now.lease = lease /\ Now.fds = fds /\ Now.names = names /\ item \in Item
    BY <1>0, NowIsState, ItemDescriptors
  <2>2. Answers(Now, {}) /\ Apart(Now.lease)
    BY <1>0, <1>3, <2>1 DEF HoldInv, FrameInv
  <2>3. HeldBy(Now.lease) = Held
    BY <2>1 DEF HeldBy, Held
  <2>4. Outcome(Now, item, {}) = RetryCleanup(Now, item, {})
    BY <1>3, <2>1 DEF Outcome
  <2> QED
    BY <1>3, <2>1, <2>2, <2>3, <2>4, RetrySucceeds
<1>4. RetryCanSucceed
  BY <1>3 DEF RetryCanSucceed
<1> QED
  BY <1>1, <1>2, <1>4 DEF CleanupVerdictIsRight

\* What the caller may run from an active lease is exactly what was captured
\* for it, and the captured bytes have no name, the lease's or another.
THEOREM LeasesAreSealed == Spec => []SealedWhileActive
<1>1. LeaseInv => SealedWhileActive
  BY DEF LeaseInv, TypeInv, ContentInv, EndInv, SealedWhileActive, NoContentUnderAName
<1> QED
  BY <1>1, LeaseInvHolds, LeaseInvKept, PTL DEF Spec

\* A cleanup that calls itself verified left nothing, one that nothing disturbed
\* is verified, and one that is uncertain can be made certain by a retry.
THEOREM CleanupsTellTrue == Spec => []CleanupVerdictIsRight
  BY LeaseInvHolds, LeaseInvKept, CalmInvHolds, CalmInvKept, VerdictFollows, PTL DEF Spec

\* The lease never closes a number it no longer owns, nor one twice, and never
\* removes an entry that is not its own.
THEOREM LeaseRespectsOthers == Spec => OthersAreLeftAlone
<1>1. LeaseInv /\ [Next]_vars =>
        [meddles' = meddles =>
           /\ \A d \in Fd : fds[d] \in {"limbo", "lost", "reused"} => fds'[d] = fds[d]
           /\ \A i \in Item : names[i] = "foreign" => names'[i] = "foreign"]_vars
  BY OthersRespected DEF Respects
<1> QED
  BY <1>1, LeaseInvHolds, LeaseInvKept, PTL DEF Spec, OthersAreLeftAlone

=============================================================================
