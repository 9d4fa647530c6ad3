-------------------------- MODULE ExecutableChain --------------------------
(***************************************************************************)
(* One inspection or staging of the chain of repository executables        *)
(* (repository_executable_*.py), taking its looks one after the other      *)
(* (ExecutableInspections lists them for each) while other processes       *)
(* rewrite the files it measures, lead their paths elsewhere or change the *)
(* registration's directories, and other code of the process gives a lease *)
(* back or closes a descriptor of one.  The first look that fails refuses  *)
(* the call; a call whose looks have all passed issues its receipt.        *)
(*                                                                         *)
(* The metadata of a file include its change time: whoever writes,         *)
(* replaces, links or renames it changes its version.  A directory on the  *)
(* way is compared by identity, mode and owner, so an ancestor may be led  *)
(* away and back unnoticed.                                                *)
(***************************************************************************)
EXTENDS Naturals, Sequences, FiniteSets

CONSTANTS
  Paths,       \* how many files an inspection measures, one after the other
  Calls,       \* the inspections: the looks of each, the leases its receipt
               \* rests on, those of them that it anchors at its end, what it
               \* promises not to touch, and whether it measures its files
               \* apart, each for itself
  MaxMeddling  \* bound on the steps of others

Path == 1 .. Paths

Leases == {"source", "target", "nested"}

\* Where the walk of a path may end: at the file it was meant for, in another
\* directory put in the way, in a root that the chain stages in, or at a link
\* to a file that the chain knows.
SourceBars == {"source root", "source file"}
TargetBars == {"target root", "target file"}
Bars == SourceBars \cup TargetBars
Roots == {"source root", "target root"}
KnownFiles == {"source file", "target file"}
Turns == {"home", "away"} \cup Roots
Places == Turns \cup KnownFiles

\* A look at leases, a look at a file by its path, and a comparison.
LeaseLook == [look : {"holds", "bytes", "anchors", "redo", "detach"}, of : SUBSET Leases]
FileLook ==
  [look : {"ancestors", "open", "read", "consume", "reopen", "distinct", "rewalk"}, path : Path, bars : SUBSET Bars]
Comparison == [look : {"keep", "same", "expected", "pin", "kept"}]
AnyLook == LeaseLook \cup FileLook \cup Comparison

AnyCall ==
  [looks : Seq(AnyLook), on : SUBSET Leases, anchored : SUBSET Leases, bars : SUBSET Bars, apart : BOOLEAN]

\* Where in a call its looks of some kind stand, and those at one path.
PlacesOf(c, kinds) == {i \in DOMAIN c.looks : c.looks[i].look \in kinds}
OpensOf(c, p) == {i \in PlacesOf(c, {"open"}) : c.looks[i].path = p}
ConsumesOf(c, p) == {i \in PlacesOf(c, {"consume"}) : c.looks[i].path = p}

Latest(i, places) == i \in places /\ \A j \in places : j <= i
Clear(places, i, j) == \A x \in places : ~ (i < x /\ x < j)

\* What a call has to look at, and in which order, for its receipt to be true.

\* A file is compared with all that must not be touched as it is opened.
OpensAreBarred(c) == \A i \in PlacesOf(c, {"open"}) : c.bars \subseteq c.looks[i].bars

\* A file is open when it is looked at.
LooksAtWhatWasOpened(c) ==
  \A i \in PlacesOf(c, {"read", "consume", "reopen", "distinct", "rewalk"}) :
    \E o \in OpensOf(c, c.looks[i].path) : o < i

DescriptorLooks == {"bytes", "anchors", "redo"}

\* Where a call relies on a lease: it reads a file that the lease is about, looks
\* at a descriptor of it, or goes by the fields of one that it anchors.
Relies(c, i, l) ==
  LET look == c.looks[i]
  IN \/ look.look = "read"
     \/ look.look \in DescriptorLooks /\ l \in look.of
     \/ look.look = "holds" /\ l \in look.of /\ l \in c.anchored

\* The last of those places is a look at the descriptors, for every lease.
EndsAtLeases(c) ==
  \A l \in c.on :
    \E j \in PlacesOf(c, DescriptorLooks) :
      l \in c.looks[j].of /\ \A i \in DOMAIN c.looks : Relies(c, i, l) => i <= j

\* What is kept was all opened since the registration was pinned, which is
\* looked at once more.
KeepsWhatWasOpened(c) ==
  PlacesOf(c, {"keep"}) # {} =>
    \E k \in PlacesOf(c, {"keep"}) :
      /\ Latest(k, PlacesOf(c, {"keep"}))
      /\ \A p \in Path : \E o \in OpensOf(c, p) : o < k /\ \A i \in PlacesOf(c, {"pin"}) : i < o
      /\ PlacesOf(c, {"pin"}) # {} => \E h \in PlacesOf(c, {"kept"}) : k < h

\* What is kept last is measured a second time, or it is what an earlier
\* receipt says.
MeasuresTwice(c) ==
  \E k \in PlacesOf(c, {"keep"}), s \in PlacesOf(c, {"same"}) :
    /\ Latest(k, PlacesOf(c, {"keep"}))
    /\ \A p \in Path : \E o \in OpensOf(c, p) : k < o /\ o < s

AsExpected(c) ==
  \E s \in PlacesOf(c, {"keep", "same"}), e \in PlacesOf(c, {"expected"}) :
    /\ s < e /\ Clear(PlacesOf(c, {"open"}), s, e)
    /\ \A k \in PlacesOf(c, {"keep"}) : k <= s

\* So is what was copied, either as it was pinned for the copy or when it was
\* kept and measured again.
CopiedAsExpected(c, u, e) ==
  LET p == c.looks[u].path
  IN \/ Clear(OpensOf(c, p), u, e)
     \/ \E k \in PlacesOf(c, {"keep"}), s \in PlacesOf(c, {"same"}) :
          /\ u < k /\ k < s /\ s < e
          /\ Clear(OpensOf(c, p), u, k) /\ Clear(PlacesOf(c, {"keep"}), k, e)
          /\ Clear(PlacesOf(c, {"open"}), s, e)

CopiesWhatIsExpected(c) ==
  PlacesOf(c, {"consume"}) # {} =>
    /\ AsExpected(c)
    /\ \A p \in Path :
         \E u \in ConsumesOf(c, p), e \in PlacesOf(c, {"expected"}) :
           Latest(u, ConsumesOf(c, p)) /\ u < e /\ CopiedAsExpected(c, u, e)

WellOrdered(c) ==
  /\ OpensAreBarred(c) /\ LooksAtWhatWasOpened(c) /\ EndsAtLeases(c)
  /\ KeepsWhatWasOpened(c) /\ CopiesWhatIsExpected(c)
  /\ PlacesOf(c, {"keep"}) # {} => c.apart \/ MeasuresTwice(c) \/ AsExpected(c)

ASSUME ChainAssumption ==
  /\ Paths \in Nat \ {0}
  /\ MaxMeddling \in Nat
  /\ \A c \in Calls : c \in AnyCall /\ WellOrdered(c)

File(p, at) == IF at \in KnownFiles THEN <<0, at>> ELSE <<p, at>>
Files == {File(p, at) : p \in Path, at \in Places}

VARIABLES
  call,        \* the call under way
  taken,       \* how many of its looks it has taken
  verdict,     \* whether it still looks, has issued its receipt or refused
  place,       \* where the walk of each path ends
  version,     \* how often each file has changed
  context,     \* how often the registration's directories have changed
  moments,     \* what was at one time, since the call began
  leases,      \* what became of each lease
  pinned,      \* each path's file when it was last opened
  kept,        \* what the first measurement of a set found
  held,        \* the context when it was pinned
  copies,      \* what a consumer was given
  touched,     \* where a file was that has been read
  alive,       \* the leases that were whole when they were last relied on
  meddled

worldVars == <<place, version, context, moments, leases, meddled>>
callVars == <<pinned, kept, held, copies, touched, alive>>
chainVars == <<call, taken, verdict, worldVars, callVars>>

None == [file |-> <<0, "none">>, at |-> "none", version |-> 0]

Original(p) == [file |-> File(p, "home"), at |-> "home", version |-> 0]

Found(p) ==
  LET file == File(p, place[p]) IN [file |-> file, at |-> place[p], version |-> version[file]]

Moment == [version |-> version, context |-> context]

\* The lease that a staging establishes is not there before.
Established == UNION {call.looks[i].of : i \in PlacesOf(call, {"detach"})}

Begins ==
  /\ taken = 0
  /\ place = [p \in Path |-> "home"]
  /\ version = [f \in Files |-> 0]
  /\ context = 0
  /\ moments = {Moment}
  /\ leases = [l \in Leases |-> IF l \in Established THEN "none" ELSE "whole"]
  /\ pinned = [p \in Path |-> None] /\ kept = pinned /\ copies = pinned
  /\ held = 0 /\ touched = {} /\ alive = {}
  /\ meddled = 0

ChainInit == call \in Calls /\ verdict = "looking" /\ Begins

-----------------------------------------------------------------------------
(* The looks.                                                              *)

Looking == verdict = "looking" /\ taken < Len(call.looks)

This == call.looks[taken + 1]

\* The call refuses at the first look that does not pass.
Pass(passes) ==
  /\ taken' = IF passes THEN taken + 1 ELSE taken
  /\ verdict' = IF passes THEN verdict ELSE "refused"
  /\ UNCHANGED <<call, worldVars>>

Whole == {l \in Leases : leases[l] = "whole"}

Relied == {l \in Leases : Relies(call, taken + 1, l)}

\* Whether a lease is whole is noted wherever it is relied on.
Note == alive' = (alive \ Relied) \cup (Relied \cap Whole)

Unread == UNCHANGED <<pinned, kept, held, copies, touched, alive>>

\* The fields of a lease tell that it was given back, not that a descriptor of
\* it was closed.
LookAtFields ==
  /\ Looking /\ This.look = "holds"
  /\ Pass(\A l \in This.of : leases[l] \in {"whole", "torn"})
  /\ Note
  /\ UNCHANGED <<pinned, kept, held, copies, touched>>

\* (defect) A descriptor that was closed goes unnoticed.
BrokenReadable(ls) == \A l \in ls : leases[l] \in {"whole", "torn"}

Readable(ls) == ls \subseteq Whole

LookAtDescriptors ==
  /\ Looking /\ This.look \in DescriptorLooks
  /\ Pass(Readable(This.of))
  /\ Note
  /\ UNCHANGED <<pinned, kept, held, copies, touched>>

\* (defect) The directories are compared as they are opened, the file is not.
BrokenBarred(p, bars) == place[p] \in bars \cap Roots

\* The walk pins every directory of the path, and the file before it is read.
Barred(p, bars) == place[p] \in bars

LookAtAncestors ==
  /\ Looking /\ This.look = "ancestors"
  /\ Pass(~ Barred(This.path, This.bars))
  /\ Unread

OpenFile ==
  /\ Looking /\ This.look = "open"
  /\ Pass(~ Barred(This.path, This.bars))
  /\ pinned' = [pinned EXCEPT ![This.path] = Found(This.path)]
  /\ UNCHANGED <<kept, held, copies, touched, alive>>

Unchanged(p) == version[pinned[p].file] = pinned[p].version

ReadFile ==
  /\ Looking /\ This.look = "read"
  /\ Pass(Unchanged(This.path))
  /\ touched' = touched \cup {pinned[This.path].at}
  /\ Note
  /\ UNCHANGED <<pinned, kept, held, copies>>

ConsumeFile ==
  /\ Looking /\ This.look = "consume"
  /\ Pass(Unchanged(This.path))
  /\ copies' = [copies EXCEPT ![This.path] = [pinned[This.path] EXCEPT !.version = version[pinned[This.path].file]]]
  /\ UNCHANGED <<pinned, kept, held, touched, alive>>

ReopenFile ==
  /\ Looking /\ This.look = "reopen"
  /\ Pass(Unchanged(This.path))
  /\ Unread

CompareInSet ==
  /\ Looking /\ This.look = "distinct"
  /\ Pass(\A p \in Path : p < This.path => pinned[p].file # pinned[This.path].file)
  /\ Unread

\* (defect) The path is walked again, and what it leads to is not compared.
BrokenLeadsBack(p) == TRUE

LeadsBack(p) == Found(p) = pinned[p]

WalkAgain ==
  /\ Looking /\ This.look = "rewalk"
  /\ Pass(LeadsBack(This.path) /\ ~ Barred(This.path, This.bars))
  /\ Unread

KeepMeasurement ==
  /\ Looking /\ This.look = "keep"
  /\ Pass(TRUE)
  /\ kept' = pinned
  /\ UNCHANGED <<pinned, held, copies, touched, alive>>

\* (defect) Only the identity of a file is compared, not its metadata.
BrokenMeasuredAlike(p) == pinned[p].file = kept[p].file

MeasuredAlike(p) == pinned[p] = kept[p]

CompareMeasurements ==
  /\ Looking /\ This.look = "same"
  /\ Pass(\A p \in Path : MeasuredAlike(p))
  /\ Unread

CompareWithReceipt ==
  /\ Looking /\ This.look = "expected"
  /\ Pass(\A p \in Path : pinned[p] = Original(p))
  /\ Unread

PinContext ==
  /\ Looking /\ This.look = "pin"
  /\ Pass(TRUE)
  /\ held' = context
  /\ UNCHANGED <<pinned, kept, copies, touched, alive>>

CompareContext ==
  /\ Looking /\ This.look = "kept"
  /\ Pass(held = context)
  /\ Unread

DetachCopies ==
  /\ Looking /\ This.look = "detach"
  /\ taken' = taken + 1
  /\ leases' = [l \in Leases |-> IF l \in This.of THEN "whole" ELSE leases[l]]
  /\ UNCHANGED <<call, verdict, place, version, context, moments, meddled>>
  /\ Unread

Issue ==
  /\ verdict = "looking" /\ taken = Len(call.looks)
  /\ verdict' = "issued"
  /\ UNCHANGED <<call, taken, worldVars>>
  /\ Unread

-----------------------------------------------------------------------------
(* What others do.  A file or a path that is changed shows at the next     *)
(* look at a file, so it is changed right before one; a lease may end      *)
(* before any look.                                                        *)

FileLooks == {"open", "read", "consume", "reopen", "rewalk", "ancestors"}

Meddles ==
  /\ Looking
  /\ meddled < MaxMeddling
  /\ meddled' = meddled + 1
  /\ UNCHANGED <<call, taken, verdict, callVars>>

Rewrite ==
  /\ Meddles /\ This.look \in FileLooks
  /\ \E p \in Path : version' = [version EXCEPT ![File(p, place[p])] = @ + 1]
  /\ moments' = moments \cup {[Moment EXCEPT !.version = version']}
  /\ UNCHANGED <<place, context, leases>>

LeadAway ==
  /\ Meddles /\ This.look \in FileLooks
  /\ \E p \in Path, to \in Turns : to # place[p] /\ place' = [place EXCEPT ![p] = to]
  /\ UNCHANGED <<version, context, moments, leases>>

\* The name is given to a file that the chain knows.
LinkToKnown ==
  /\ Meddles /\ This.look \in FileLooks
  /\ \E p \in Path, to \in KnownFiles :
       /\ to # place[p]
       /\ place' = [place EXCEPT ![p] = to]
       /\ version' = [version EXCEPT ![File(p, place[p])] = @ + 1, ![File(p, to)] = @ + 1]
  /\ moments' = moments \cup {[Moment EXCEPT !.version = version']}
  /\ UNCHANGED <<context, leases>>

ChangeContext ==
  /\ Meddles /\ This.look \in {"pin", "kept"} \cup FileLooks
  /\ context' = context + 1
  /\ moments' = moments \cup {[Moment EXCEPT !.context = context']}
  /\ UNCHANGED <<place, version, leases>>

EndLease ==
  /\ Meddles
  /\ \E l \in Leases, how \in {"torn", "ended"} :
       /\ leases[l] = "whole"
       /\ leases' = [leases EXCEPT ![l] = how]
  /\ UNCHANGED <<place, version, context, moments>>

ChainNext ==
  \/ LookAtFields \/ LookAtDescriptors \/ LookAtAncestors
  \/ OpenFile \/ ReadFile \/ ConsumeFile \/ ReopenFile \/ CompareInSet \/ WalkAgain
  \/ KeepMeasurement \/ CompareMeasurements \/ CompareWithReceipt
  \/ PinContext \/ CompareContext \/ DetachCopies \/ Issue
  \/ Rewrite \/ LeadAway \/ LinkToKnown \/ ChangeContext \/ EndLease

ChainSpec == ChainInit /\ [][ChainNext]_chainVars

-----------------------------------------------------------------------------
(* Properties.                                                             *)

Measurement == [file : Files \cup {None.file}, at : Places \cup {None.at}, version : Nat]
Moments == [version : [Files -> Nat], context : Nat]

ChainTypeOK ==
  /\ call \in Calls
  /\ taken \in 0 .. Len(call.looks)
  /\ verdict \in {"looking", "issued", "refused"}
  /\ place \in [Path -> Places]
  /\ version \in [Files -> Nat] /\ context \in Nat
  /\ moments \subseteq Moments
  /\ leases \in [Leases -> {"none", "whole", "torn", "ended"}]
  /\ pinned \in [Path -> Measurement] /\ kept \in [Path -> Measurement] /\ copies \in [Path -> Measurement]
  /\ held \in Nat
  /\ touched \subseteq Places \cup {None.at} /\ alive \subseteq Leases
  /\ meddled \in 0 .. MaxMeddling

Measures == PlacesOf(call, {"keep"}) # {}
Copies == PlacesOf(call, {"consume"}) # {}
Pins == PlacesOf(call, {"pin"}) # {}

\* A moment at which a file was as its measurement says, and one at which the
\* registration and its directories were as they were pinned.
At(m, file) == m.version[file.file] = file.version
InContext(m) == Pins => m.context = held

\* The measurements of one receipt belong together: at some moment of the call
\* all files, the registration and its directories were as it says, although
\* they are looked at one after the other.  The plain resolution promises only
\* that each file was as it says at a moment of its own.  What was copied is
\* what was measured.
MeasuredTogether ==
  verdict = "issued" /\ Measures =>
    /\ IF call.apart
       THEN \A p \in Path : \E m \in moments : InContext(m) /\ At(m, kept[p])
       ELSE \E m \in moments : InContext(m) /\ \A p \in Path : At(m, kept[p])
    /\ Copies => copies = kept

\* The leases that a receipt rests on were whole when the last file was read and
\* when they were last relied on themselves, by their descriptors or, where the
\* call anchors them at its end, by their fields: nobody gave one back, or closed
\* a descriptor of it, while the receipt was put together.
RestsOnLiveLeases == verdict = "issued" => call.on \subseteq alive

\* Not a byte is read through a directory that the chain stages in, or of a
\* file that the chain staged, even if the call is refused afterwards and even
\* if the path led elsewhere when its ancestors were first looked at.
NothingProtectedIsRead == touched \cap call.bars = {}

=============================================================================
