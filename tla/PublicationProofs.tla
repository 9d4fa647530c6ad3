------------------------- MODULE PublicationProofs -------------------------
(***************************************************************************)
(* Proofs about CandidatePublication: what the ledger says of the          *)
(* published file is true, through failures and interruptions of any call, *)
(* other programs in the directory and a loss of power, for every number   *)
(* of these; and the inspection raises an issue where one is due.          *)
(***************************************************************************)
EXTENDS CandidatePublication, FiniteSetTheorems, SequenceTheorems, TLAPS

-----------------------------------------------------------------------------
(* The invariant. *)

Disks == [at : [Names -> Entries], alias : {0, 1}, whole : BOOLEAN, swapped : BOOLEAN]

Stables == [at : [Names -> Entries], whole : BOOLEAN]

\* Where the controller may be: before its file exists, ...
Fronts == {"shadow", "decide", "intent", "fresh", "open", "create"}

\* ... while it makes the effect, ...
Middles ==
  {"write", "stage_sync", "parent_sync", "row", "link", "link_check", "unlink",
   "unlink_check", "final_sync", "verify", "receipt"}

\* ... while it takes the effect back, ...
Backs ==
  {"unstage", "unlink_final", "undo_final", "undo_staged", "failure_receipt", "take_back",
   "take_back_silently", "taken_back", "taken_back_silently"}

\* ... with its success on record, and when nothing of the effect is left to do.
Settled == {"recheck", "terminal"}

Closing == {"conclude", "end", "dead"}

Places == Fronts \cup Middles \cup Backs \cup Settled \cup Closing

Errors == Kinds \cup {"none", "invalid", "blocked", "stale"}

Doubts == {"none", "observed", "unobserved"}

Ctls ==
  [at : Places, err : Errors, uncertain : Doubts, current : BOOLEAN, identity : BOOLEAN,
   learned : BOOLEAN, anchored : BOOLEAN, gone : [Names -> BOOLEAN]]

Verdicts == {"succeeded", "failed", "cancelled", "unknown"}

Statuses == {"SUCCEEDED", "QUARANTINED", "FAILED", "CANCELLED", "BLOCKED"}

Ends ==
  [status : Statuses, phase : {"result", "freshness", "authorization", "finalization"},
   observed : {"yes", "no", "unsaid"}]

Events ==
  [type : {"shadow"}, value : {"observed"}]
    \cup [type : {"decision"}, value : {"permit", "deny", "failed", "interrupted"}]
    \cup [type : {"intent"}, value : {"recorded"}]
    \cup [type : {"receipt"}, value : Verdicts]
    \cup [type : {"terminal"}, value : Ends]

TypeInv ==
  /\ disk \in Disks /\ stable \in Stables
  /\ ledger \in Seq(Events)
  /\ ctl \in Ctls
  /\ enforcing \in BOOLEAN /\ row \in BOOLEAN
  /\ faults \in 0 .. MaxFaults /\ meddles \in 0 .. MaxMeddles

Decisions == Recorded("decision")
Intents == Recorded("intent")
Receipts == Recorded("receipt")
Terminals == Recorded("terminal")

\* No two events of one type.
Once == \A i, j \in DOMAIN ledger : ledger[i].type = ledger[j].type => i = j

Present(type) == IF Recorded(type) = {} THEN 0 ELSE 1

Tally ==
  /\ Once
  /\ Len(ledger) = Present("shadow") + Present("decision") + Present("intent")
                     + Present("receipt") + Present("terminal")

\* Each event is written at its place, and there only.
OrderInv ==
  /\ Tally
  /\ ctl.at = "shadow" => Recorded("shadow") = {}
  /\ ctl.at \in {"shadow", "decide"} => Decisions = {}
  /\ ctl.at \in {"shadow", "decide", "intent"} => Intents = {}
  /\ ctl.at \notin Settled \cup Closing => Receipts = {}
  /\ ctl.at \in Settled => Receipts = {"succeeded"}
  /\ ctl.at \notin Closing => Terminals = {}

\* No name leads to the controller's file, nor will one after a restart.
NotOwn(name) == disk.at[name] # "own" /\ stable.at[name] # "own"

NoLinks == NotOwn("final") /\ NotOwn("staged") /\ disk.alias = 0

\* The controller has not created its file.
NothingYet == NoLinks /\ ~ctl.identity /\ ~ctl.learned /\ ~ctl.anchored

Authorized == Intents # {} /\ (enforcing => Permitted /\ ctl.current)

\* The effect is authorized before anything exists of it.
AuthInv ==
  /\ ctl.at \in Fronts => NothingYet
  /\ ctl.at \in {"decide", "fresh"} => enforcing
  /\ ctl.at \in {"intent", "fresh"} /\ enforcing => Permitted
  /\ ctl.at = "fresh" => Intents # {}
  /\ ctl.at \in {"open", "create"} \cup Middles \cup Backs \cup Settled => Authorized
  /\ Exists => Authorized
  /\ ctl.err = "stale" => NothingYet /\ ctl.at \in Closing
  /\ \A t \in Terminals : t.phase = "freshness" => NothingYet

\* What the controller knows of its file: from the staging on it holds the
\* descriptors (anchored), unless it never learned of the file or saw the last
\* link of it go.
HoldInv ==
  /\ ctl.at \in {"write", "stage_sync", "unstage"} =>
       (ctl.learned <=> ctl.identity) /\ ~ctl.anchored
  /\ ctl.at \in (Middles \ {"write", "stage_sync"})
                  \cup {"unlink_final", "take_back", "take_back_silently"} => ctl.anchored
  /\ ctl.at \in {"undo_final", "undo_staged"} /\ ctl.learned /\ ~ctl.anchored => NoLinks

\* What was proved gone is gone, and stays so.
GoneInv ==
  /\ ctl.gone["final"] =>
       /\ ctl.at \in {"undo_staged", "failure_receipt", "taken_back", "taken_back_silently"} \cup Closing
       /\ NotOwn("final")
  /\ ctl.at = "failure_receipt" /\ ProvedGone => ~Exists
  /\ ctl.at = "taken_back" /\ ctl.gone["final"] => ~Exists
  /\ Receipts \cap {"failed", "cancelled"} # {} => ~Exists
  /\ ctl.at \in {"final_sync", "verify", "receipt", "take_back", "take_back_silently"} =>
       NotOwn("staged")

Sound == disk.whole /\ stable.whole

Lasting == disk.at["final"] = "own" /\ stable.at["final"] = "own"

\* The whole file is written before it is linked, and stays under its final name.
LastInv ==
  /\ ctl.at \in (Middles \ {"write"}) \cup Settled => Sound
  /\ "succeeded" \in Receipts => Sound
  /\ meddles = 0 /\ (ctl.at \in {"final_sync", "verify", "receipt"} \cup Settled \/ "succeeded" \in Receipts) =>
       Lasting

\* What the end of the run is told.
EndInv ==
  /\ ctl.at \in Backs \cup {"conclude"} => ctl.err # "none"
  /\ ctl.at \in {"link", "link_check", "unlink", "unlink_check", "final_sync", "verify", "receipt"} \cup Settled =>
       row
  /\ ctl.at = "conclude" /\ Receipts \cap {"succeeded", "unknown"} # {} =>
       ctl.err \in Kinds /\ ctl.uncertain # "none"
  /\ \A t \in Terminals :
       /\ t.status = "SUCCEEDED" => Receipts = {"succeeded"} /\ row
       /\ "unknown" \in Receipts => t.status = "QUARANTINED"
       /\ t.status \in {"FAILED", "CANCELLED", "BLOCKED"} => "succeeded" \notin Receipts

PubInv == TypeInv /\ OrderInv /\ AuthInv /\ HoldInv /\ GoneInv /\ LastInv /\ EndInv

-----------------------------------------------------------------------------
(* Undisturbed. *)

Quiet == faults = 0 /\ meddles = 0 /\ Alive

Directory(final, staged) ==
  disk.at["final"] = final /\ disk.at["staged"] = staged /\ disk.alias = 0 /\ ~disk.swapped

\* How a run ends that nothing disturbed: it was not permitted, ...
EndsBlocked == enforcing /\ ~Permitted /\ Intents = {} /\ Receipts = {} /\ ~row

\* ... its permit was no longer current when the effect was to begin, ...
EndsStale ==
  /\ enforcing /\ Permitted /\ Intents # {} /\ Receipts = {} /\ ~row
  /\ Terminals = {Ended("BLOCKED", "freshness", "unsaid")}

\* ... or the candidate was published.
EndsPublished ==
  /\ enforcing => Permitted
  /\ Intents # {} /\ Receipts = {"succeeded"} /\ row
  /\ Terminals = {Ended("SUCCEEDED", "result", "yes")}

CalmInv ==
  Quiet =>
    /\ ctl.at \in Fronts \cup Middles \cup Settled \cup {"conclude", "end"}
    /\ ctl.at \in Fronts => Directory("none", "none")
    /\ ctl.at \in {"write", "stage_sync", "parent_sync", "row", "link"} => Directory("none", "own")
    /\ ctl.at \in {"link_check", "unlink"} => Directory("own", "own")
    /\ ctl.at \in {"unlink_check", "final_sync", "verify", "receipt"} \cup Settled =>
         Directory("own", "none")
    /\ ctl.at \in Fronts \cup {"write", "stage_sync", "parent_sync", "row", "conclude"} => ~row
    /\ ctl.at = "conclude" =>
         /\ enforcing /\ Receipts = {} /\ Terminals = {}
         /\ \/ ctl.err = "blocked" /\ Intents = {} /\ ~Permitted
            \/ ctl.err = "stale" /\ Intents # {} /\ Permitted
    /\ ctl.at = "end" => EndsBlocked \/ EndsStale \/ EndsPublished

-----------------------------------------------------------------------------
(* Facts about the parts of a state. *)

LEMMA EventFields ==
  ASSUME NEW type, NEW value
  PROVE  Event(type, value).type = type /\ Event(type, value).value = value
  BY DEF Event

LEMMA EventsAreTyped ==
  /\ Event("shadow", "observed") \in Events
  /\ \A d \in {"permit", "deny", "failed", "interrupted"} : Event("decision", d) \in Events
  /\ Event("intent", "recorded") \in Events
  /\ \A v \in Verdicts : Event("receipt", v) \in Events
  /\ \A t \in Ends : Event("terminal", t) \in Events
  BY DEF Event, Events

\* What an event adds to what is on record.
LEMMA AppendRecords ==
  ASSUME ledger \in Seq(Events), NEW e \in Events, ledger' = Append(ledger, e)
  PROVE  /\ ledger' \in Seq(Events)
         /\ Len(ledger) \in Nat /\ Len(ledger') = Len(ledger) + 1
         /\ Recorded(e.type)' = Recorded(e.type) \cup {e.value}
         /\ \A type : type # e.type => Recorded(type)' = Recorded(type)
         /\ Once /\ Recorded(e.type) = {} => Once'
<1> DEFINE n == Len(ledger)
<1>1. /\ ledger' \in Seq(Events) /\ n \in Nat /\ Len(ledger') = n + 1
      /\ \A i \in 1 .. n : ledger'[i] = ledger[i]
      /\ ledger'[n + 1] = e
  BY AppendProperties
<1>2. DOMAIN ledger = 1 .. n /\ DOMAIN ledger' = 1 .. (n + 1)
  BY <1>1
<1> HIDE DEF n
<1>3. DOMAIN ledger' = DOMAIN ledger \cup {n + 1} /\ n + 1 \notin DOMAIN ledger
  BY <1>1, <1>2
<1>4. \A i \in DOMAIN ledger : ledger'[i] = ledger[i]
  BY <1>1, <1>2
<1>8. ASSUME NEW type
      PROVE  /\ \A x : x \in Recorded(type) <=> \E i \in DOMAIN ledger : ledger[i].type = type /\ ledger[i].value = x
             /\ \A x : x \in Recorded(type)' <=> \E i \in DOMAIN ledger' : ledger'[i].type = type /\ ledger'[i].value = x
  BY Zenon DEF Recorded
<1>9. \A i : i \in DOMAIN ledger' <=> i \in DOMAIN ledger \/ i = n + 1
  BY <1>3
<1>10. ASSUME NEW type, NEW x
       PROVE  x \in Recorded(type)' <=> x \in Recorded(type) \/ (type = e.type /\ x = e.value)
  <2>1. ASSUME x \in Recorded(type)' PROVE x \in Recorded(type) \/ (type = e.type /\ x = e.value)
    <3>1. PICK i \in DOMAIN ledger' : ledger'[i].type = type /\ ledger'[i].value = x
      BY <1>8, <2>1
    <3>2. CASE i = n + 1
      BY <1>1, <3>1, <3>2, Zenon
    <3>3. CASE i \in DOMAIN ledger
      <4>1. ledger[i].type = type /\ ledger[i].value = x
        BY <1>4, <3>1, <3>3
      <4> QED
        BY <1>8, <3>3, <4>1
    <3> QED
      BY <1>9, <3>1, <3>2, <3>3
  <2>2. ASSUME x \in Recorded(type) PROVE x \in Recorded(type)'
    <3>1. PICK i \in DOMAIN ledger : ledger[i].type = type /\ ledger[i].value = x
      BY <1>8, <2>2
    <3>2. i \in DOMAIN ledger' /\ ledger'[i].type = type /\ ledger'[i].value = x
      BY <1>4, <1>9, <3>1
    <3> QED
      BY <1>8, <3>2
  <2>3. ASSUME type = e.type, x = e.value PROVE x \in Recorded(type)'
    <3>1. n + 1 \in DOMAIN ledger' /\ ledger'[n + 1].type = type /\ ledger'[n + 1].value = x
      BY <1>1, <1>9, <2>3
    <3> QED
      BY <1>8, <3>1
  <2> QED
    BY <2>1, <2>2, <2>3
<1>5. Recorded(e.type)' = Recorded(e.type) \cup {e.value}
  <2>1. \A x : x \in Recorded(e.type)' <=> x \in Recorded(e.type) \/ x = e.value
    BY <1>10
  <2> QED
    BY <2>1
<1>6. ASSUME NEW type, type # e.type PROVE Recorded(type)' = Recorded(type)
  <2>1. \A x : x \in Recorded(type)' <=> x \in Recorded(type)
    BY <1>6, <1>10
  <2> QED
    BY <2>1
<1>7. ASSUME Once, Recorded(e.type) = {} PROVE Once'
  <2>1. ASSUME NEW i \in DOMAIN ledger PROVE ledger[i].type # e.type
    <3>1. ASSUME NEW type, ledger[i].type = type PROVE ledger[i].value \in Recorded(type)
      BY <1>8, <3>1
    <3>2. ledger[i].type = e.type => ledger[i].value \in Recorded(e.type)
      BY <3>1
    <3> QED
      BY <1>7, <3>2
  <2>2. ASSUME NEW i \in DOMAIN ledger', NEW j \in DOMAIN ledger', ledger'[i].type = ledger'[j].type
        PROVE  i = j
    <3>1. CASE i \in DOMAIN ledger /\ j \in DOMAIN ledger
      BY <1>4, <1>7, <2>2, <3>1 DEF Once
    <3>2. CASE i \in DOMAIN ledger /\ j = n + 1
      BY <1>1, <1>4, <2>1, <2>2, <3>2
    <3>3. CASE i = n + 1 /\ j \in DOMAIN ledger
      BY <1>1, <1>4, <2>1, <2>2, <3>3
    <3> QED
      BY <1>9, <2>2, <3>1, <3>2, <3>3
  <2> QED
    BY <2>2 DEF Once
<1> QED
  BY <1>1, <1>5, <1>6, <1>7 DEF n

LEMMA OnRecordOnce ==
  ASSUME Once, NEW type
  PROVE  /\ \A a, b \in Recorded(type) : a = b
         /\ Cardinality({i \in DOMAIN ledger : ledger[i].type = type}) <= 1
<1>1. \A a, b \in Recorded(type) : a = b
  BY Zenon DEF Once, Recorded
<1> DEFINE I == {i \in DOMAIN ledger : ledger[i].type = type}
<1>0. Cardinality({}) = 0
  BY FS_EmptySet
<1>2. CASE I = {}
  <2>1. Cardinality(I) = 0
    BY <1>0, <1>2
  <2> HIDE DEF I
  <2>2. Cardinality(I) <= 1
    BY <2>1
  <2> QED
    BY <1>1, <2>2 DEF I
<1>3. CASE I # {}
  <2>1. PICK i \in I : TRUE
    BY <1>3
  <2>2. I = {i}
    BY <2>1 DEF Once
  <2>3. Cardinality(I) = 1
    BY <2>2, FS_Singleton
  <2> HIDE DEF I
  <2>4. Cardinality(I) <= 1
    BY <2>3
  <2> QED
    BY <1>1, <2>4 DEF I
<1> QED
  BY <1>1, <1>2, <1>3

LEMMA RecordedTyped ==
  ASSUME ledger \in Seq(Events)
  PROVE  Receipts \subseteq Verdicts /\ Terminals \subseteq Ends
<1>1. \A i \in DOMAIN ledger : ledger[i] \in Events
  BY ElementOfSeq
<1>2. \A e \in Events : (e.type = "receipt" => e.value \in Verdicts) /\ (e.type = "terminal" => e.value \in Ends)
  BY DEF Events
<1> QED
  BY <1>1, <1>2 DEF Receipts, Terminals, Recorded

\* The links that a program can count.
LEMMA LinksMeans ==
  ASSUME NEW d \in Disks
  PROVE  /\ LinksIn(d) \in Nat
         /\ LinksIn(d) = (IF d.at["final"] = "own" THEN 1 ELSE 0)
                          + (IF d.at["staged"] = "own" THEN 1 ELSE 0) + d.alias
<1> DEFINE N == {n \in Names : d.at[n] = "own"}
<1>0. d.alias \in {0, 1}
  BY DEF Disks
<1>1. Cardinality({}) = 0 /\ Cardinality({"final"}) = 1 /\ Cardinality({"staged"}) = 1
  BY FS_EmptySet, FS_Singleton
<1>2. Cardinality({"final", "staged"}) = 2
  <2>1. IsFiniteSet({"final"}) /\ "staged" \notin {"final"}
    BY FS_Singleton
  <2>2. Cardinality({"final"} \cup {"staged"}) = Cardinality({"final"}) + 1
    BY <2>1, FS_AddElement
  <2>3. {"final"} \cup {"staged"} = {"final", "staged"}
    OBVIOUS
  <2> QED
    BY <1>1, <2>2, <2>3
<1>3. CASE d.at["final"] = "own" /\ d.at["staged"] = "own"
  <2>1. N = {"final", "staged"}
    BY <1>3 DEF Names
  <2>2. LinksIn(d) = 2 + d.alias
    BY <1>2, <2>1, Zenon DEF LinksIn
  <2> QED
    BY <1>0, <1>3, <2>2
<1>4. CASE d.at["final"] = "own" /\ d.at["staged"] # "own"
  <2>1. N = {"final"}
    BY <1>4 DEF Names
  <2>2. LinksIn(d) = 1 + d.alias
    BY <1>1, <2>1, Zenon DEF LinksIn
  <2> QED
    BY <1>0, <1>4, <2>2
<1>5. CASE d.at["final"] # "own" /\ d.at["staged"] = "own"
  <2>1. N = {"staged"}
    BY <1>5 DEF Names
  <2>2. LinksIn(d) = 1 + d.alias
    BY <1>1, <2>1, Zenon DEF LinksIn
  <2> QED
    BY <1>0, <1>5, <2>2
<1>6. CASE d.at["final"] # "own" /\ d.at["staged"] # "own"
  <2>1. N = {}
    BY <1>6 DEF Names
  <2>2. LinksIn(d) = 0 + d.alias
    BY <1>1, <2>1, Zenon DEF LinksIn
  <2> QED
    BY <1>0, <1>6, <2>2
<1> QED
  BY <1>3, <1>4, <1>5, <1>6

LEMMA ExistsMeans ==
  Exists <=> \/ ~NotOwn("final") \/ ~NotOwn("staged")
             \/ ctl.learned /\ disk.alias > 0
  BY DEF Exists, OwnAt, NotOwn, Names

\* What comes of a write.
LEMMA WritesMean ==
  ASSUME NEW w \in Writes
  PROVE  /\ w.cost \in 0 .. 2
         /\ w.raised = "none" => w.kept
         /\ w.read = "absent" => ~w.kept
         /\ Accepted(w) => w.kept
         /\ ~Accepted(w) => RaisedBy(w) \in Kinds
         /\ w.raised \in Kinds \cup {"none"}
         /\ w.cost = 0 => w.raised = "none" /\ w.read = "exact" /\ w.kept /\ Accepted(w)
  BY DEF Writes, Accepted, RaisedBy, Kinds

-----------------------------------------------------------------------------
(* What the steps do to the parts. *)

SameHold ==
  /\ ctl'.current = ctl.current /\ ctl'.identity = ctl.identity /\ ctl'.learned = ctl.learned
  /\ ctl'.anchored = ctl.anchored /\ ctl'.gone = ctl.gone

Went(p) ==
  ctl'.at = p /\ ctl'.err = ctl.err /\ ctl'.uncertain = ctl.uncertain /\ SameHold

Failed(kind) ==
  ctl'.at = Handler(ctl.at) /\ ctl'.err = kind /\ ctl'.uncertain = ctl.uncertain /\ SameHold

Closed ==
  ctl'.at = "conclude" /\ SameHold

LEMMA HandlersAre ==
  ASSUME NEW p \in Places
  PROVE  /\ Handler(p) \in {"unstage", "unlink_final", "undo_final", "conclude"}
         /\ p \in {"create", "write", "stage_sync"} => Handler(p) = "unstage"
         /\ p \in {"link_check", "unlink", "unlink_check"} => Handler(p) = "unlink_final"
         /\ p \in {"open", "parent_sync", "row", "link", "final_sync", "verify"} => Handler(p) = "undo_final"
         /\ p \in {"shadow", "decide", "intent", "fresh"} => Handler(p) = "conclude"
  BY DEF Handler

LEMMA ControlMoves ==
  ASSUME ctl \in Ctls
  PROVE  /\ \A p \in Places : Goes(p) => ctl' \in Ctls /\ Went(p)
         /\ \A kind \in Errors : Fails(kind) => ctl' \in Ctls /\ Failed(kind)
<1>1. ASSUME NEW p \in Places, Goes(p) PROVE ctl' \in Ctls /\ Went(p)
  BY <1>1 DEF Goes, Went, SameHold, Ctls
<1>2. ctl.at \in Places
  BY DEF Ctls
<1>3. Handler(ctl.at) \in Places
  BY <1>2, HandlersAre DEF Places, Backs, Closing
<1>4. ASSUME NEW kind \in Errors, Fails(kind) PROVE ctl' \in Ctls /\ Failed(kind)
  BY <1>3, <1>4 DEF Fails, Failed, SameHold, Ctls
<1> QED
  BY <1>1, <1>4

\* Everything in the directory that is the controller's was there before.
Shrinks ==
  /\ \A n \in Names : NotOwn(n) => NotOwn(n)'
  /\ disk'.alias > 0 => disk.alias > 0 \/ ~NotOwn("final") \/ ~NotOwn("staged")
  /\ Sound => Sound'

LEMMA ShrinksMeans ==
  ASSUME TypeInv, Shrinks, disk' \in Disks
  PROVE  /\ NoLinks => NoLinks'
         /\ ctl'.learned = ctl.learned => (Exists' => Exists)
<1>1. disk.alias \in {0, 1} /\ disk'.alias \in {0, 1}
  BY DEF TypeInv, Disks
<1>2. \A n \in Names : NotOwn(n) => NotOwn(n)'
  BY DEF Shrinks
<1>3. NoLinks => NoLinks'
  BY <1>1, <1>2 DEF Shrinks, NoLinks, Names
<1>4. ASSUME ctl'.learned = ctl.learned, Exists' PROVE Exists
  <2>1. \/ ~NotOwn("final")' \/ ~NotOwn("staged")'
        \/ ctl'.learned /\ disk'.alias > 0
    BY <1>4 DEF Exists, OwnAt, NotOwn, Names
  <2> QED
    BY <1>2, <1>4, <2>1, ExistsMeans DEF Shrinks, Names
<1> QED
  BY <1>3, <1>4

LEMMA StillShrinks == UNCHANGED <<disk, stable>> => Shrinks
  BY DEF Shrinks, NotOwn, Sound

LEMMA SyncedMeans ==
  ASSUME TypeInv, UNCHANGED disk, stable' = Synced
  PROVE  /\ stable' \in Stables /\ stable'.at = disk.at /\ stable'.whole = stable.whole
         /\ Shrinks
<1>1. stable' \in Stables /\ stable'.at = disk.at /\ stable'.whole = stable.whole
  BY DEF TypeInv, Synced, Stables, Disks
<1> QED
  BY <1>1 DEF Shrinks, NotOwn, Sound

LEMMA RemovedMeans ==
  ASSUME NEW d \in Disks, NEW name \in Names
  PROVE  LET r == Removed(d, name)
         IN  /\ r \in Disks
             /\ r.at[name] = IF d.at[name] = "own" THEN "none" ELSE d.at[name]
             /\ \A n \in Names : n # name => r.at[n] = d.at[n]
             /\ r.alias = d.alias /\ r.whole = d.whole /\ r.swapped = d.swapped
<1>1. CASE d.at[name] = "own"
  <2>1. d.at \in [Names -> Entries] /\ "none" \in Entries
    BY DEF Disks, Entries
  <2>2. /\ [d.at EXCEPT ![name] = "none"] \in [Names -> Entries]
        /\ [d.at EXCEPT ![name] = "none"][name] = "none"
        /\ \A n \in Names : n # name => [d.at EXCEPT ![name] = "none"][n] = d.at[n]
    BY <2>1
  <2>3. Removed(d, name) = [d EXCEPT !.at = [d.at EXCEPT ![name] = "none"]]
    BY <1>1 DEF Removed
  <2>4. Removed(d, name).at = [d.at EXCEPT ![name] = "none"]
    BY <2>3 DEF Disks
  <2>5. Removed(d, name) \in Disks
    BY <2>2, <2>3 DEF Disks
  <2> QED
    BY <1>1, <2>2, <2>3, <2>4, <2>5 DEF Disks
<1>2. CASE d.at[name] # "own"
  BY <1>2 DEF Removed
<1> QED
  BY <1>1, <1>2

\* A name is taken away, or was not the controller's.
LEMMA RemovesMeans ==
  ASSUME TypeInv, NEW name \in Names, Removes(name)
  PROVE  /\ disk' \in Disks /\ stable' \in Stables
         /\ disk'.at[name] # "own"
         /\ \A n \in Names : n # name => disk'.at[n] = disk.at[n]
         /\ disk'.alias = disk.alias /\ disk'.swapped = disk.swapped
         /\ ProvedAbsent(disk, name) => stable'.at = disk'.at
         /\ Shrinks
<1>1. disk \in Disks /\ stable \in Stables /\ disk' = Removed(disk, name)
  BY DEF TypeInv, Removes
<1>2. /\ disk' \in Disks
      /\ disk'.at[name] = IF disk.at[name] = "own" THEN "none" ELSE disk.at[name]
      /\ \A n \in Names : n # name => disk'.at[n] = disk.at[n]
      /\ disk'.alias = disk.alias /\ disk'.whole = disk.whole /\ disk'.swapped = disk.swapped
  BY <1>1, RemovedMeans
<1>3. disk'.at \in [Names -> Entries]
  BY <1>2 DEF Disks
<1>4. /\ stable' \in Stables /\ stable'.whole = stable.whole
      /\ ProvedAbsent(disk, name) => stable'.at = disk'.at
      /\ ~ProvedAbsent(disk, name) => stable' = stable
  BY <1>1, <1>3 DEF Removes, Stables
<1>5. Shrinks
  <2>1. \A n \in Names : disk'.at[n] = "own" => disk.at[n] = "own"
    BY <1>2
  <2>2. \A n \in Names : stable'.at[n] = "own" => stable.at[n] = "own" \/ disk.at[n] = "own"
    BY <1>4, <2>1
  <2> QED
    BY <1>2, <1>4, <2>1, <2>2 DEF Shrinks, NotOwn, Sound
<1> QED
  BY <1>2, <1>4, <1>5

LEMMA RemovalFailsMeans ==
  ASSUME TypeInv, NEW name \in Names, RemovalFails(name)
  PROVE  disk' \in Disks /\ stable' \in Stables /\ Shrinks
<1>1. disk \in Disks /\ stable \in Stables /\ disk' \in {disk, Removed(disk, name)} /\ stable' = stable
  BY DEF TypeInv, RemovalFails
<1>2. CASE disk' = disk
  BY <1>1, <1>2, StillShrinks
<1>3. CASE disk' = Removed(disk, name)
  <2>1. /\ disk' \in Disks
        /\ disk'.at[name] = IF disk.at[name] = "own" THEN "none" ELSE disk.at[name]
        /\ \A n \in Names : n # name => disk'.at[n] = disk.at[n]
        /\ disk'.alias = disk.alias /\ disk'.whole = disk.whole
    BY <1>1, <1>3, RemovedMeans
  <2>2. \A n \in Names : disk'.at[n] = "own" => disk.at[n] = "own"
    BY <2>1
  <2> QED
    BY <1>1, <2>1, <2>2 DEF Shrinks, NotOwn, Sound
<1> QED
  BY <1>1, <1>2, <1>3

\* What was recorded is as it was.
SameRecord ==
  /\ \A type : Recorded(type)' = Recorded(type)
  /\ ledger' \in Seq(Events)

Types == {"shadow", "decision", "intent", "receipt", "terminal"}

\* At most this event was put on record.
Adds(type, value, kept) ==
  /\ ledger' \in Seq(Events)
  /\ kept => Recorded(type)' = Recorded(type) \cup {value}
  /\ ~kept => Recorded(type)' = Recorded(type)
  /\ \A other : other # type => Recorded(other)' = Recorded(other)
  /\ Tally /\ Recorded(type) = {} => Tally'

LEMMA LedgerStays ==
  ASSUME TypeInv, UNCHANGED ledger
  PROVE  SameRecord /\ (Tally => Tally')
<1>1. SameRecord
  BY DEF TypeInv, SameRecord, Recorded
<1>2. \A type : Present(type)' = Present(type)
  BY <1>1 DEF SameRecord, Present
<1>3. Once => Once'
  BY DEF Once
<1> QED
  BY <1>1, <1>2, <1>3 DEF Tally

LEMMA WritingAdds ==
  ASSUME TypeInv, NEW type \in Types, NEW value, Event(type, value) \in Events,
         NEW w \in Writes, Writing(Event(type, value), w)
  PROVE  Adds(type, value, w.kept)
<1>1. ledger \in Seq(Events)
  BY DEF TypeInv
<1>2. CASE w.kept
  <2> DEFINE e == Event(type, value)
  <2>1. ledger' = Append(ledger, e) /\ e \in Events /\ e.type = type /\ e.value = value
    BY <1>2, EventFields DEF Writing
  <2> HIDE DEF e
  <2>2. /\ ledger' \in Seq(Events)
        /\ Len(ledger) \in Nat /\ Len(ledger') = Len(ledger) + 1
        /\ Recorded(type)' = Recorded(type) \cup {value}
        /\ \A other : other # type => Recorded(other)' = Recorded(other)
        /\ Once /\ Recorded(type) = {} => Once'
    BY <1>1, <2>1, AppendRecords
  <2>3. ASSUME Tally, Recorded(type) = {} PROVE Tally'
    <3>1. Present(type) = 0 /\ Present(type)' = 1
      BY <2>2, <2>3 DEF Present
    <3>2. \A other : other # type => Present(other)' = Present(other)
      BY <2>2 DEF Present
    <3>3. \A other : Present(other) \in {0, 1}
      BY DEF Present
    <3>4. Len(ledger) = Present("shadow") + Present("decision") + Present("intent")
                          + Present("receipt") + Present("terminal")
      BY <2>3 DEF Tally
    <3>5. Len(ledger') = Present("shadow")' + Present("decision")' + Present("intent")'
                           + Present("receipt")' + Present("terminal")'
      BY <2>2, <3>1, <3>2, <3>3, <3>4 DEF Types
    <3> QED
      BY <2>2, <2>3, <3>5 DEF Tally
  <2> QED
    BY <1>2, <2>2, <2>3 DEF Adds
<1>3. CASE ~w.kept
  <2>1. ledger' = ledger
    BY <1>3 DEF Writing
  <2> QED
    BY <1>1, <1>3, <2>1, LedgerStays DEF Adds, SameRecord
<1> QED
  BY <1>2, <1>3

LEMMA CreateStagedMeans ==
  ASSUME TypeInv, CreateStaged
  PROVE  /\ ctl.at = "create" /\ ctl' \in Ctls /\ disk' \in Disks
         /\ UNCHANGED stable /\ EffectStep
         /\ \/ UNCHANGED <<disk, faults>> /\ Failed("invalid")
               /\ \E n \in Names : disk.at[n] # "none"
            \/ /\ disk.at["final"] = "none" /\ disk.at["staged"] = "none"
               /\ disk'.at["final"] = "none" /\ disk'.at["staged"] = "own"
               /\ disk'.alias = disk.alias /\ disk'.whole = disk.whole /\ disk'.swapped = disk.swapped
               /\ \/ /\ ctl'.at = "write" /\ ctl'.err = ctl.err /\ ctl'.uncertain = ctl.uncertain
                     /\ ctl'.identity = TRUE /\ ctl'.learned = TRUE
                     /\ ctl'.current = ctl.current /\ ctl'.anchored = ctl.anchored /\ ctl'.gone = ctl.gone
                     /\ UNCHANGED faults
                  \/ (\E kind \in Kinds : Failed(kind)) /\ Pays(1)
<1>1. ctl \in Ctls /\ disk \in Disks /\ ctl.at = "create" /\ UNCHANGED stable /\ EffectStep
  BY DEF TypeInv, CreateStaged
<1>2. Kinds \subseteq Errors /\ "invalid" \in Errors
  BY DEF Errors
<1>3. CASE \E n \in Names : disk.at[n] # "none"
  <2>1. Fails("invalid") /\ UNCHANGED <<disk, faults>>
    BY <1>3 DEF CreateStaged
  <2>2. ctl' \in Ctls /\ Failed("invalid")
    BY <1>1, <1>2, <2>1, ControlMoves
  <2> QED
    BY <1>1, <1>3, <2>1, <2>2
<1>4. CASE ~\E n \in Names : disk.at[n] # "none"
  <2>1. disk' = [disk EXCEPT !.at["staged"] = "own"]
    BY <1>4 DEF CreateStaged
  <2>2. /\ disk' \in Disks
        /\ disk'.at["final"] = disk.at["final"] /\ disk'.at["staged"] = "own"
        /\ disk'.alias = disk.alias /\ disk'.whole = disk.whole /\ disk'.swapped = disk.swapped
    <3>1. disk.at \in [Names -> Entries] /\ "own" \in Entries
      BY <1>1 DEF Disks, Entries
    <3>2. /\ [disk.at EXCEPT !["staged"] = "own"] \in [Names -> Entries]
          /\ [disk.at EXCEPT !["staged"] = "own"]["staged"] = "own"
          /\ [disk.at EXCEPT !["staged"] = "own"]["final"] = disk.at["final"]
      BY <3>1 DEF Names
    <3>3. disk' = [disk EXCEPT !.at = [disk.at EXCEPT !["staged"] = "own"]]
      BY <2>1
    <3>4. disk'.at = [disk.at EXCEPT !["staged"] = "own"]
      BY <1>1, <3>3 DEF Disks
    <3>5. disk' \in Disks
      BY <1>1, <3>2, <3>3 DEF Disks
    <3> QED
      BY <1>1, <3>2, <3>3, <3>4, <3>5 DEF Disks
  <2>3. disk.at["final"] = "none" /\ disk.at["staged"] = "none"
    BY <1>4 DEF Names
  <2>4. CASE ctl' = [ctl EXCEPT !.at = "write", !.identity = TRUE, !.learned = TRUE] /\ UNCHANGED faults
    <3>1. /\ ctl'.at = "write" /\ ctl'.err = ctl.err /\ ctl'.uncertain = ctl.uncertain
          /\ ctl'.identity = TRUE /\ ctl'.learned = TRUE
          /\ ctl'.current = ctl.current /\ ctl'.anchored = ctl.anchored /\ ctl'.gone = ctl.gone
      BY <1>1, <2>4 DEF Ctls
    <3>2. ctl' \in Ctls
      BY <1>1, <2>4 DEF Ctls, Places, Middles
    <3> QED
      BY <1>1, <2>2, <2>3, <2>4, <3>1, <3>2
  <2>5. CASE (\E kind \in Kinds : Fails(kind)) /\ Pays(1)
    <3>1. ctl' \in Ctls /\ \E kind \in Kinds : Failed(kind)
      BY <1>1, <1>2, <2>5, ControlMoves
    <3> QED
      BY <1>1, <2>2, <2>3, <2>5, <3>1
  <2> QED
    BY <1>4, <2>4, <2>5 DEF CreateStaged
<1> QED
  BY <1>3, <1>4

LEMMA AssertFreshMeans ==
  ASSUME TypeInv, AssertFresh
  PROVE  /\ ctl.at = "fresh" /\ ctl' \in Ctls
         /\ UNCHANGED <<enforcing, disk, stable, ledger, row, faults, meddles>>
         /\ \/ /\ ctl'.at = "open" /\ ctl'.err = ctl.err /\ ctl'.uncertain = ctl.uncertain
               /\ ctl'.current = TRUE /\ ctl'.identity = ctl.identity /\ ctl'.learned = ctl.learned
               /\ ctl'.anchored = ctl.anchored /\ ctl'.gone = ctl.gone
            \/ Failed("stale")
<1>1. ctl \in Ctls
  BY DEF TypeInv
<1>2. CASE ctl' = [ctl EXCEPT !.at = "open", !.current = TRUE]
  <2>1. ctl' \in Ctls
    BY <1>1, <1>2 DEF Ctls, Places, Fronts
  <2> QED
    BY <1>1, <1>2, <2>1 DEF AssertFresh, Ctls
<1>3. CASE Fails("stale")
  <2>1. "stale" \in Errors
    BY DEF Errors
  <2> QED
    BY <1>1, <1>3, <2>1, ControlMoves DEF AssertFresh
<1> QED
  BY <1>2, <1>3 DEF AssertFresh

LEMMA CheckStagedMeans ==
  ASSUME TypeInv, CheckStaged
  PROVE  /\ ctl.at = "stage_sync" /\ ctl' \in Ctls /\ stable' \in Stables
         /\ UNCHANGED <<disk, faults>> /\ EffectStep /\ Shrinks
         /\ \/ /\ ctl'.at = "parent_sync" /\ ctl'.err = ctl.err /\ ctl'.uncertain = ctl.uncertain
               /\ ctl'.anchored = TRUE /\ ctl'.current = ctl.current /\ ctl'.identity = ctl.identity
               /\ ctl'.learned = ctl.learned /\ ctl'.gone = ctl.gone
            \/ Failed("error") /\ ~(disk.at["staged"] = "own" /\ Links = 1 /\ ~disk.swapped)
<1>1. ctl \in Ctls /\ stable \in Stables /\ "error" \in Errors
  BY DEF TypeInv, Errors, Kinds
<1>2. ctl.at = "stage_sync" /\ UNCHANGED <<disk, faults>> /\ EffectStep
  BY DEF CheckStaged
<1>3. CASE disk.at["staged"] = "own" /\ Links = 1
  <2>1. stable' = Synced
    BY <1>3 DEF CheckStaged
  <2>2. stable' \in Stables /\ Shrinks
    BY <1>2, <2>1, SyncedMeans
  <2>3. CASE disk.swapped
    BY <1>1, <1>2, <1>3, <2>2, <2>3, ControlMoves DEF CheckStaged
  <2>4. CASE ~disk.swapped
    <3>1. ctl' = [ctl EXCEPT !.at = "parent_sync", !.anchored = TRUE]
      BY <1>3, <2>4 DEF CheckStaged
    <3>2. ctl' \in Ctls
      BY <1>1, <3>1 DEF Ctls, Places, Middles
    <3>3. /\ ctl'.at = "parent_sync" /\ ctl'.err = ctl.err /\ ctl'.uncertain = ctl.uncertain
          /\ ctl'.anchored = TRUE /\ ctl'.current = ctl.current /\ ctl'.identity = ctl.identity
          /\ ctl'.learned = ctl.learned /\ ctl'.gone = ctl.gone
      BY <1>1, <3>1 DEF Ctls
    <3> QED
      BY <1>2, <2>2, <3>2, <3>3
  <2> QED
    BY <2>3, <2>4
<1>4. CASE ~(disk.at["staged"] = "own" /\ Links = 1)
  <2>1. UNCHANGED stable /\ Fails("error")
    BY <1>4 DEF CheckStaged
  <2>2. Shrinks
    BY <1>2, <2>1, StillShrinks
  <2>3. ctl' \in Ctls /\ Failed("error")
    BY <1>1, <2>1, ControlMoves
  <2> QED
    BY <1>1, <1>2, <1>4, <2>1, <2>2, <2>3
<1> QED
  BY <1>3, <1>4

\* What a cleanup of the staging has left is known, or the descriptors are kept.
LEMMA UnstageMeans ==
  ASSUME TypeInv, Unstage
  PROVE  /\ ctl.at = "unstage" /\ ctl' \in Ctls /\ disk' \in Disks /\ stable' \in Stables
         /\ EffectStep /\ Shrinks
         /\ ctl'.at = "undo_final" /\ ctl'.err = ctl.err /\ ctl'.uncertain = ctl.uncertain
         /\ ctl'.current = ctl.current /\ ctl'.learned = ctl.learned /\ ctl'.gone = ctl.gone
         /\ \/ ctl'.anchored = TRUE
            \/ ~ctl.identity /\ ctl'.anchored = ctl.anchored /\ UNCHANGED <<disk, stable>>
            \/ NoLinks'
<1>1. ctl \in Ctls /\ disk \in Disks /\ stable \in Stables /\ "staged" \in Names
  BY DEF TypeInv, Names
<1>2. ctl.at = "unstage" /\ EffectStep
  BY DEF Unstage
<1>3. "undo_final" \in Places
  BY DEF Places, Backs
<1>4. CASE /\ ~ctl.identity
           /\ ctl' = [ctl EXCEPT !.at = "undo_final"]
           /\ UNCHANGED <<disk, stable, faults>>
  <2>1. ctl' \in Ctls /\ Went("undo_final")
    BY <1>1, <1>3, <1>4, ControlMoves DEF Goes
  <2> QED
    BY <1>1, <1>2, <1>4, <2>1, StillShrinks DEF Went, SameHold
<1>5. CASE /\ ctl.identity /\ Removes("staged")
           /\ LET gone == ProvedAbsent(disk, "staged") /\ LinksIn(disk') = 0
              IN  ctl' = [ctl EXCEPT !.at = "undo_final", !.identity = ~gone, !.anchored = ~gone]
  <2>1. /\ disk' \in Disks /\ stable' \in Stables /\ Shrinks
        /\ ProvedAbsent(disk, "staged") => stable'.at = disk'.at
    BY <1>1, <1>5, RemovesMeans
  <2> DEFINE gone == ProvedAbsent(disk, "staged") /\ LinksIn(disk') = 0
  <2>2. CASE gone
    <3>1. ctl' = [ctl EXCEPT !.at = "undo_final", !.identity = FALSE, !.anchored = FALSE]
      BY <1>5, <2>2
    <3>2. ctl' \in Ctls
      BY <1>1, <1>3, <3>1 DEF Ctls
    <3>3. /\ ctl'.at = "undo_final" /\ ctl'.err = ctl.err /\ ctl'.uncertain = ctl.uncertain
          /\ ctl'.current = ctl.current /\ ctl'.learned = ctl.learned /\ ctl'.gone = ctl.gone
      BY <1>1, <3>1 DEF Ctls
    <3>4. /\ LinksIn(disk') = (IF disk'.at["final"] = "own" THEN 1 ELSE 0)
                              + (IF disk'.at["staged"] = "own" THEN 1 ELSE 0) + disk'.alias
          /\ disk'.alias \in {0, 1}
      BY <2>1, LinksMeans DEF Disks
    <3>5. NoLinks'
      BY <2>1, <2>2, <3>4 DEF NoLinks, NotOwn
    <3> QED
      BY <1>2, <2>1, <3>2, <3>3, <3>5
  <2>3. CASE ~gone
    <3>1. ctl' = [ctl EXCEPT !.at = "undo_final", !.identity = TRUE, !.anchored = TRUE]
      BY <1>5, <2>3
    <3>2. ctl' \in Ctls
      BY <1>1, <1>3, <3>1 DEF Ctls
    <3>3. /\ ctl'.at = "undo_final" /\ ctl'.err = ctl.err /\ ctl'.uncertain = ctl.uncertain
          /\ ctl'.current = ctl.current /\ ctl'.learned = ctl.learned /\ ctl'.gone = ctl.gone
          /\ ctl'.anchored = TRUE
      BY <1>1, <3>1 DEF Ctls
    <3> QED
      BY <1>2, <2>1, <3>2, <3>3
  <2> QED
    BY <2>2, <2>3
<1>6. CASE /\ RemovalFails("staged")
           /\ ctl' = [ctl EXCEPT !.at = "undo_final", !.anchored = TRUE]
  <2>1. disk' \in Disks /\ stable' \in Stables /\ Shrinks
    BY <1>1, <1>6, RemovalFailsMeans
  <2>2. ctl' \in Ctls
    BY <1>1, <1>3, <1>6 DEF Ctls
  <2>3. /\ ctl'.at = "undo_final" /\ ctl'.err = ctl.err /\ ctl'.uncertain = ctl.uncertain
        /\ ctl'.current = ctl.current /\ ctl'.learned = ctl.learned /\ ctl'.gone = ctl.gone
        /\ ctl'.anchored = TRUE
    BY <1>1, <1>6 DEF Ctls
  <2> QED
    BY <1>2, <2>1, <2>2, <2>3
<1> QED
  BY <1>4, <1>5, <1>6 DEF Unstage

LEMMA RecordArtifactMeans ==
  ASSUME TypeInv, RecordArtifact
  PROVE  /\ ctl.at = "row" /\ ctl' \in Ctls /\ row' \in BOOLEAN
         /\ UNCHANGED <<enforcing, disk, stable, ledger, meddles>>
         /\ \E w \in Writes :
              /\ Pays(w.cost)
              /\ row' = w.kept
              /\ \/ Accepted(w) /\ Went("link")
                 \/ ~Accepted(w) /\ ctl'.at = "undo_final" /\ ctl'.err \in Kinds /\ SameHold
<1>1. PICK w \in Writes :
        /\ Pays(w.cost)
        /\ row' = w.kept
        /\ IF Accepted(w) THEN Goes("link")
           ELSE ctl' = [ctl EXCEPT !.at = "undo_final", !.err = RaisedBy(w),
                          !.uncertain = IF w.read = "unreadable" THEN "unobserved" ELSE @]
  BY DEF RecordArtifact
<1>2. /\ ctl \in Ctls /\ ctl.at = "row" /\ UNCHANGED <<enforcing, disk, stable, ledger, meddles>>
      /\ w.kept \in BOOLEAN /\ "link" \in Places /\ "undo_final" \in Places
  BY DEF TypeInv, RecordArtifact, Writes, Places, Middles, Backs
<1>3. CASE Accepted(w)
  <2>1. ctl' \in Ctls /\ Went("link")
    BY <1>1, <1>2, <1>3, ControlMoves
  <2> QED
    BY <1>1, <1>2, <1>3, <2>1
<1>4. CASE ~Accepted(w)
  <2>1. PICK doubt \in Doubts : ctl' = [ctl EXCEPT !.at = "undo_final", !.err = RaisedBy(w), !.uncertain = doubt]
    BY <1>1, <1>2, <1>4 DEF Ctls, Doubts
  <2>2. RaisedBy(w) \in Kinds /\ Kinds \subseteq Errors
    BY <1>4, WritesMean DEF Errors
  <2>3. ctl' \in Ctls /\ ctl'.at = "undo_final" /\ ctl'.err \in Kinds
    BY <1>2, <2>1, <2>2 DEF Ctls
  <2>4. SameHold
    BY <1>2, <2>1 DEF Ctls, SameHold
  <2> QED
    BY <1>1, <1>2, <1>4, <2>3, <2>4
<1> QED
  BY <1>3, <1>4

LEMMA RollBackMeans ==
  ASSUME TypeInv, RollBack
  PROVE  /\ ctl' \in Ctls /\ disk' \in Disks /\ stable' \in Stables /\ Shrinks
         /\ ctl'.at = "undo_final" /\ ctl'.err = "error" /\ ctl'.uncertain = ctl.uncertain /\ SameHold
<1>1. ctl \in Ctls /\ disk \in Disks /\ stable \in Stables
  BY DEF TypeInv
<1> DEFINE half == Removed(disk, "final")
<1>2. /\ half \in Disks /\ half.whole = disk.whole /\ half.alias = disk.alias
      /\ half.at["final"] = IF disk.at["final"] = "own" THEN "none" ELSE disk.at["final"]
      /\ half.at["staged"] = disk.at["staged"]
  BY <1>1, RemovedMeans DEF Names
<1> HIDE DEF half
<1>3. disk' = Removed(half, "staged")
  BY DEF RollBack, half
<1>4. /\ disk' \in Disks /\ disk'.whole = half.whole /\ disk'.alias = half.alias
      /\ disk'.at["staged"] = IF half.at["staged"] = "own" THEN "none" ELSE half.at["staged"]
      /\ disk'.at["final"] = half.at["final"]
  BY <1>2, <1>3, RemovedMeans DEF Names
<1>5. \A n \in Names : disk'.at[n] = "own" => disk.at[n] = "own"
  BY <1>2, <1>4 DEF Names
<1>6. /\ stable' \in Stables /\ stable'.whole = stable.whole
      /\ \A n \in Names : stable'.at[n] = "own" => stable.at[n] = "own" \/ disk.at[n] = "own"
  <2>1. CASE stable' = stable
    BY <1>1, <2>1
  <2>2. CASE stable' = [stable EXCEPT !.at = disk'.at]
    <3>1. stable' \in Stables /\ stable'.whole = stable.whole /\ stable'.at = disk'.at
      BY <1>1, <1>4, <2>2 DEF Stables, Disks
    <3> QED
      BY <1>5, <3>1
  <2> QED
    BY <2>1, <2>2 DEF RollBack
<1>7. Shrinks
  BY <1>2, <1>4, <1>5, <1>6 DEF Shrinks, NotOwn, Sound
<1>8. /\ ctl' \in Ctls /\ ctl'.at = "undo_final" /\ ctl'.err = "error" /\ ctl'.uncertain = ctl.uncertain
  BY <1>1 DEF RollBack, Ctls, Places, Backs, Errors, Kinds
<1>9. SameHold
  BY <1>1 DEF RollBack, Ctls, SameHold
<1> QED
  BY <1>4, <1>6, <1>7, <1>8, <1>9

LEMMA UndoMeans ==
  ASSUME TypeInv, NEW name \in Names, NEW next \in Places, Undo(name, next)
  PROVE  /\ ctl' \in Ctls /\ disk' \in Disks /\ stable' \in Stables /\ Shrinks
         /\ ctl'.at = next /\ ctl'.err = ctl.err /\ ctl'.uncertain = ctl.uncertain
         /\ ctl'.current = ctl.current /\ ctl'.identity = ctl.identity /\ ctl'.learned = ctl.learned
         /\ ctl'.anchored = ctl.anchored
         /\ \A n \in Names : n # name => ctl'.gone[n] = ctl.gone[n]
         /\ \A n \in Names : n # name => disk'.at[n] = disk.at[n]
         /\ ctl'.gone[name] =>
              /\ disk'.at[name] # "own" /\ stable'.at = disk'.at
              /\ ctl.anchored => disk'.alias = 0
<1>1. ctl \in Ctls /\ disk \in Disks /\ stable \in Stables
  BY DEF TypeInv
<1>2. ASSUME NEW truth \in BOOLEAN, ctl' = [ctl EXCEPT !.at = next, !.gone[name] = truth]
      PROVE  /\ ctl' \in Ctls
             /\ ctl'.at = next /\ ctl'.err = ctl.err /\ ctl'.uncertain = ctl.uncertain
             /\ ctl'.current = ctl.current /\ ctl'.identity = ctl.identity /\ ctl'.learned = ctl.learned
             /\ ctl'.anchored = ctl.anchored
             /\ \A n \in Names : n # name => ctl'.gone[n] = ctl.gone[n]
             /\ ctl'.gone[name] = truth
  <2> DEFINE gone == [ctl.gone EXCEPT ![name] = truth]
  <2>1. ctl.gone \in [Names -> BOOLEAN]
    BY <1>1 DEF Ctls
  <2>2. gone \in [Names -> BOOLEAN] /\ gone[name] = truth /\ \A n \in Names : n # name => gone[n] = ctl.gone[n]
    BY <2>1
  <2>3. ctl' = [ctl EXCEPT !.at = next, !.gone = gone]
    BY <1>2
  <2> HIDE DEF gone
  <2>4. /\ ctl' \in Ctls
        /\ ctl'.at = next /\ ctl'.err = ctl.err /\ ctl'.uncertain = ctl.uncertain
        /\ ctl'.current = ctl.current /\ ctl'.identity = ctl.identity /\ ctl'.learned = ctl.learned
        /\ ctl'.anchored = ctl.anchored /\ ctl'.gone = gone
    BY <1>1, <2>2, <2>3 DEF Ctls
  <2> QED
    BY <2>2, <2>4
<1>3. CASE /\ IF ctl.anchored THEN Removes(name)
              ELSE /\ stable' = IF disk.at[name] = "none" /\ ~disk.swapped THEN Synced ELSE stable
                   /\ UNCHANGED disk
           /\ ctl' = [ctl EXCEPT !.at = next, !.gone[name] = GoneAfter(disk, name)]
  <2>0. GoneAfter(disk, name) \in BOOLEAN
    BY DEF GoneAfter
  <2>1. PICK truth \in BOOLEAN : truth = GoneAfter(disk, name)
    BY <2>0
  <2>2. ctl' = [ctl EXCEPT !.at = next, !.gone[name] = truth]
    BY <1>3, <2>1
  <2>3. CASE ctl.anchored
    <3>1. /\ disk' \in Disks /\ stable' \in Stables /\ Shrinks
          /\ disk'.at[name] # "own" /\ \A n \in Names : n # name => disk'.at[n] = disk.at[n]
          /\ disk'.alias = disk.alias
          /\ ProvedAbsent(disk, name) => stable'.at = disk'.at
      BY <1>3, <2>3, RemovesMeans
    <3>2. truth => stable'.at = disk'.at /\ disk'.alias = 0
      BY <2>1, <2>3, <3>1 DEF GoneAfter
    <3> QED
      BY <1>2, <2>2, <3>1, <3>2
  <2>4. CASE ~ctl.anchored
    <3>1. UNCHANGED disk
      BY <1>3, <2>4
    <3>2. truth => disk.at[name] = "none" /\ stable' = Synced
      BY <1>3, <2>1, <2>4 DEF GoneAfter
    <3>3. stable' = Synced => stable' \in Stables /\ stable'.at = disk.at /\ Shrinks
      BY <3>1, SyncedMeans
    <3>4. stable' = stable => stable' \in Stables /\ Shrinks
      BY <1>1, <3>1, StillShrinks
    <3>5. stable' = Synced \/ stable' = stable
      BY <1>3, <2>4
    <3>6. disk' \in Disks /\ \A n \in Names : disk'.at[n] = disk.at[n]
      BY <1>1, <3>1
    <3>7. truth => disk'.at[name] # "own" /\ stable'.at = disk'.at
      BY <3>1, <3>2, <3>3
    <3> QED
      BY <1>2, <2>2, <2>4, <3>3, <3>4, <3>5, <3>6, <3>7
  <2> QED
    BY <2>3, <2>4
<1>4. CASE /\ IF ctl.anchored THEN RemovalFails(name) ELSE UNCHANGED <<disk, stable>>
           /\ ctl' = [ctl EXCEPT !.at = next, !.gone[name] = FALSE]
  <2>1. disk' \in Disks /\ stable' \in Stables /\ Shrinks
    BY <1>1, <1>4, RemovalFailsMeans, StillShrinks
  <2>2. \A n \in Names : n # name => disk'.at[n] = disk.at[n]
    <3>1. CASE ctl.anchored
      <4>1. disk' = disk \/ disk' = Removed(disk, name)
        BY <1>4, <3>1 DEF RemovalFails
      <4> QED
        BY <1>1, <4>1, RemovedMeans
    <3>2. CASE ~ctl.anchored
      BY <1>4, <3>2
    <3> QED
      BY <3>1, <3>2
  <2> QED
    BY <1>2, <1>4, <2>1, <2>2
<1> QED
  BY <1>3, <1>4 DEF Undo

\* What is raised, and how sure the controller is, after the receipt of a failure.
LEMMA ConcludesMeans ==
  ASSUME ctl \in Ctls, ctl.err # "none", NEW w \in Writes,
         NEW observed \in Doubts \ {"none"}, NEW known \in BOOLEAN, Concludes(w, observed, known)
  PROVE  /\ ctl' \in Ctls /\ Closed
         /\ ctl'.err # "none" /\ (ctl'.err = "stale" => ctl.err = "stale")
         /\ w.kept /\ ~known => ctl'.err \in Kinds /\ ctl'.uncertain # "none"
<1>1. PICK e \in Errors, u \in Doubts :
        /\ ctl' = [ctl EXCEPT !.at = "conclude", !.err = e, !.uncertain = u]
        /\ e = IF Accepted(w) THEN IF known THEN ctl.err ELSE "error"
               ELSE IF w.read = "interrupted" \/ (w.kept /\ w.read = "exact") THEN "interrupt"
               ELSE "error"
        /\ u = IF Accepted(w) /\ known THEN ctl.uncertain
               ELSE IF Accepted(w) \/ w.read # "absent" \/ observed = "observed" THEN observed
               ELSE ctl.uncertain
  BY DEF Concludes, Ctls, Errors, Kinds, Doubts
<1>2. ctl' \in Ctls /\ ctl'.at = "conclude" /\ ctl'.err = e /\ ctl'.uncertain = u
  BY <1>1 DEF Ctls, Places, Closing
<1>3. SameHold
  BY <1>1 DEF Ctls, SameHold
<1>4. w.read = "absent" => ~w.kept
  BY WritesMean
<1>5. e # "none" /\ (e = "stale" => ctl.err = "stale")
  BY <1>1
<1>6. w.kept /\ ~known => e \in Kinds /\ u # "none"
  BY <1>1, <1>4 DEF Kinds
<1> QED
  BY <1>2, <1>3, <1>5, <1>6 DEF Closed

LEMMA RecordFailureMeans ==
  ASSUME TypeInv, ctl.err # "none", RecordFailure
  PROVE  /\ ctl.at = "failure_receipt" /\ ctl' \in Ctls /\ Closed
         /\ UNCHANGED <<enforcing, disk, stable, row, meddles>>
         /\ ctl'.err # "none" /\ (ctl'.err = "stale" => ctl.err = "stale")
         /\ \E w \in Writes :
              /\ Pays(w.cost)
              /\ Adds("receipt", FailureOutcome, w.kept)
              /\ w.kept /\ ~ProvedGone => ctl'.err \in Kinds /\ ctl'.uncertain # "none"
<1>1. PICK w \in Writes :
        /\ Pays(w.cost)
        /\ Writing(Event("receipt", FailureOutcome), w)
        /\ Concludes(w, IF ProvedGone THEN "unobserved" ELSE "observed", ProvedGone)
  BY DEF RecordFailure
<1>2. Adds("receipt", FailureOutcome, w.kept)
  <2>1. FailureOutcome \in Verdicts
    BY DEF FailureOutcome, Verdicts
  <2>2. Event("receipt", FailureOutcome) \in Events /\ "receipt" \in Types
    BY <2>1, EventsAreTyped DEF Types
  <2> QED
    BY <1>1, <2>2, WritingAdds
<1>3. PICK known \in BOOLEAN : known = ProvedGone
  BY DEF ProvedGone
<1>4. PICK observed \in Doubts \ {"none"} : Concludes(w, observed, known)
  BY <1>1, <1>3 DEF Doubts
<1>5. /\ ctl' \in Ctls /\ Closed
      /\ ctl'.err # "none" /\ (ctl'.err = "stale" => ctl.err = "stale")
      /\ w.kept /\ ~known => ctl'.err \in Kinds /\ ctl'.uncertain # "none"
  BY <1>4, ConcludesMeans DEF TypeInv
<1>6. ctl.at = "failure_receipt" /\ UNCHANGED <<enforcing, disk, stable, row, meddles>>
  BY DEF RecordFailure
<1> QED
  BY <1>1, <1>2, <1>3, <1>5, <1>6

LEMMA RecordTakenBackMeans ==
  ASSUME TypeInv, ctl.err # "none", RecordTakenBack
  PROVE  /\ ctl.at = "taken_back" /\ ctl' \in Ctls /\ Closed
         /\ UNCHANGED <<enforcing, disk, stable, row, meddles>>
         /\ ctl'.err # "none" /\ (ctl'.err = "stale" => ctl.err = "stale")
         /\ \/ UNCHANGED <<ledger, faults>>
            \/ /\ ctl.gone["final"]
               /\ \E w \in Writes, v \in {"cancelled", "failed"} :
                    Pays(w.cost) /\ Adds("receipt", v, w.kept)
<1>1. ctl \in Ctls /\ ctl.at = "taken_back" /\ UNCHANGED <<enforcing, disk, stable, row, meddles>>
  BY DEF TypeInv, RecordTakenBack
<1>2. CASE /\ ctl' = [ctl EXCEPT !.at = "conclude", !.err = "error", !.uncertain = "observed"]
           /\ UNCHANGED <<ledger, faults>>
  <2>1. ctl' \in Ctls /\ ctl'.at = "conclude" /\ ctl'.err = "error"
    BY <1>1, <1>2 DEF Ctls, Places, Closing, Errors, Kinds, Doubts
  <2>2. SameHold
    BY <1>1, <1>2 DEF Ctls, SameHold
  <2> QED
    BY <1>1, <1>2, <2>1, <2>2 DEF Closed
<1>3. CASE /\ ctl.gone["final"]
           /\ \E w \in Writes :
                /\ Pays(w.cost)
                /\ Writing(Event("receipt", IF ctl.err = "interrupt" THEN "cancelled" ELSE "failed"), w)
                /\ Concludes(w, "unobserved", TRUE)
  <2>1. PICK w \in Writes, v \in {"cancelled", "failed"} :
          /\ Pays(w.cost)
          /\ Writing(Event("receipt", v), w)
          /\ Concludes(w, "unobserved", TRUE)
    BY <1>3
  <2>2. Event("receipt", v) \in Events /\ "receipt" \in Types
    BY EventsAreTyped DEF Verdicts, Types
  <2>3. Adds("receipt", v, w.kept)
    BY <2>1, <2>2, WritingAdds
  <2>4. "unobserved" \in Doubts \ {"none"} /\ TRUE \in BOOLEAN
    BY DEF Doubts
  <2>5. /\ ctl' \in Ctls /\ Closed
        /\ ctl'.err # "none" /\ (ctl'.err = "stale" => ctl.err = "stale")
    BY <1>1, <2>1, <2>4, ConcludesMeans
  <2> QED
    BY <1>1, <1>3, <2>1, <2>3, <2>5
<1> QED
  BY <1>2, <1>3 DEF RecordTakenBack

LEMMA RecordSuccessMeans ==
  ASSUME TypeInv, RecordSuccess
  PROVE  /\ ctl.at = "receipt" /\ ctl' \in Ctls /\ SameHold
         /\ UNCHANGED <<enforcing, disk, stable, row, meddles>>
         /\ \E w \in Writes :
              /\ Pays(w.cost)
              /\ Adds("receipt", "succeeded", w.kept)
              /\ \/ w.raised = "none" /\ w.kept /\ Went("recheck")
                 \/ w.raised # "none" /\ w.kept /\ Went("terminal")
                 \/ w.raised # "none" /\ ~w.kept /\ ctl'.at = "take_back" /\ ctl'.err \in Kinds
                 \/ w.raised # "none" /\ ctl'.at = "conclude" /\ ctl'.err \in Kinds /\ ctl'.uncertain # "none"
<1>1. PICK w \in Writes :
        /\ Pays(w.cost)
        /\ Writing(Event("receipt", "succeeded"), w)
        /\ IF w.raised = "none" THEN Goes("recheck")
           ELSE IF ReceiptLost(w) THEN ctl' = [ctl EXCEPT !.at = "take_back", !.err = w.raised]
           ELSE IF w.read = "exact" /\ w.raised = "error" /\ Matches THEN Goes("terminal")
           ELSE ctl' = [ctl EXCEPT !.at = "conclude",
                          !.err = IF w.read = "interrupted" \/ (w.read = "exact" /\ w.raised = "interrupt" /\ Matches)
                                  THEN "interrupt" ELSE "error",
                          !.uncertain = IF w.read = "unreadable" /\ disk.at["final"] = "none" /\ ~disk.swapped
                                        THEN "unobserved" ELSE "observed"]
  BY DEF RecordSuccess
<1>2. ctl \in Ctls /\ ctl.at = "receipt" /\ UNCHANGED <<enforcing, disk, stable, row, meddles>>
  BY DEF TypeInv, RecordSuccess
<1>3. Adds("receipt", "succeeded", w.kept)
  <2>1. Event("receipt", "succeeded") \in Events /\ "receipt" \in Types
    BY EventsAreTyped DEF Verdicts, Types
  <2> QED
    BY <1>1, <2>1, WritingAdds
<1>4. /\ w.raised = "none" => w.kept
      /\ w.read = "absent" => ~w.kept
      /\ w.read = "exact" => w.kept
      /\ w.raised \in Kinds \cup {"none"}
  BY DEF Writes
<1>5. {"recheck", "terminal", "take_back", "conclude"} \subseteq Places /\ Kinds \subseteq Errors
  BY DEF Places, Settled, Backs, Closing, Errors
<1>6. CASE w.raised = "none"
  <2>1. ctl' \in Ctls /\ Went("recheck")
    BY <1>1, <1>2, <1>5, <1>6, ControlMoves
  <2> QED
    BY <1>1, <1>2, <1>3, <1>4, <1>6, <2>1 DEF Went
<1>7. CASE w.raised # "none" /\ ReceiptLost(w)
  <2>1. ctl' = [ctl EXCEPT !.at = "take_back", !.err = w.raised] /\ w.raised \in Kinds /\ ~w.kept
    BY <1>1, <1>4, <1>7 DEF ReceiptLost
  <2>2. ctl' \in Ctls /\ ctl'.at = "take_back" /\ ctl'.err \in Kinds
    BY <1>2, <1>5, <2>1 DEF Ctls
  <2>3. SameHold
    BY <1>2, <2>1 DEF Ctls, SameHold
  <2> QED
    BY <1>1, <1>2, <1>3, <1>7, <2>1, <2>2, <2>3
<1>8. CASE w.raised # "none" /\ ~ReceiptLost(w) /\ w.read = "exact" /\ w.raised = "error" /\ Matches
  <2>1. ctl' \in Ctls /\ Went("terminal")
    BY <1>1, <1>2, <1>5, <1>8, ControlMoves
  <2> QED
    BY <1>1, <1>2, <1>3, <1>4, <1>8, <2>1 DEF Went
<1>9. CASE w.raised # "none" /\ ~ReceiptLost(w) /\ ~(w.read = "exact" /\ w.raised = "error" /\ Matches)
  <2>1. PICK e \in Kinds, u \in Doubts \ {"none"} : ctl' = [ctl EXCEPT !.at = "conclude", !.err = e, !.uncertain = u]
    BY <1>1, <1>9 DEF Kinds, Doubts
  <2>2. ctl' \in Ctls /\ ctl'.at = "conclude" /\ ctl'.err \in Kinds /\ ctl'.uncertain # "none"
    BY <1>2, <1>5, <2>1 DEF Ctls
  <2>3. SameHold
    BY <1>2, <2>1 DEF Ctls, SameHold
  <2> QED
    BY <1>1, <1>2, <1>3, <1>9, <2>2, <2>3
<1> QED
  BY <1>6, <1>7, <1>8, <1>9

LEMMA BuildFailsMeans ==
  ASSUME TypeInv, BuildFails
  PROVE  /\ ctl' \in Ctls /\ Pays(1) /\ UNCHANGED <<disk, stable>> /\ EffectStep /\ SameHold
         /\ ctl'.err \in Kinds
         /\ \/ ctl.at = "receipt" /\ ctl'.at = "take_back_silently"
            \/ /\ ctl.at = "failure_receipt" \/ (ctl.at = "taken_back" /\ ctl.gone["final"])
               /\ ctl'.at = "conclude"
<1>1. ctl \in Ctls /\ Pays(1) /\ UNCHANGED <<disk, stable>> /\ EffectStep /\ Kinds \subseteq Errors
  BY DEF TypeInv, BuildFails, Errors
<1>2. ASSUME NEW kind \in Kinds, ctl.at = "receipt",
             ctl' = [ctl EXCEPT !.at = "take_back_silently", !.err = kind]
      PROVE  ctl' \in Ctls /\ SameHold /\ ctl'.err \in Kinds /\ ctl'.at = "take_back_silently"
  <2>1. ctl' \in Ctls /\ ctl'.err \in Kinds /\ ctl'.at = "take_back_silently"
    BY <1>1, <1>2 DEF Ctls, Places, Backs
  <2>2. SameHold
    BY <1>1, <1>2 DEF Ctls, SameHold
  <2> QED
    BY <2>1, <2>2
<1>3. ASSUME NEW kind \in Kinds, NEW doubt \in Doubts,
             ctl' = [ctl EXCEPT !.at = "conclude", !.err = kind, !.uncertain = doubt]
      PROVE  ctl' \in Ctls /\ SameHold /\ ctl'.err \in Kinds /\ ctl'.at = "conclude"
  <2>1. ctl' \in Ctls /\ ctl'.err \in Kinds /\ ctl'.at = "conclude"
    BY <1>1, <1>3 DEF Ctls, Places, Closing
  <2>2. SameHold
    BY <1>1, <1>3 DEF Ctls, SameHold
  <2> QED
    BY <2>1, <2>2
<1>4. \E kind \in Kinds :
        \/ ctl.at = "receipt" /\ ctl' = [ctl EXCEPT !.at = "take_back_silently", !.err = kind]
        \/ /\ ctl.at = "failure_receipt" \/ (ctl.at = "taken_back" /\ ctl.gone["final"])
           /\ \E doubt \in Doubts : ctl' = [ctl EXCEPT !.at = "conclude", !.err = kind, !.uncertain = doubt]
  BY <1>1 DEF BuildFails, Ctls, Doubts
<1> QED
  BY <1>1, <1>2, <1>3, <1>4

LEMMA TakenBackSilentlyMeans ==
  ASSUME TypeInv, TakenBackSilently
  PROVE  /\ ctl.at = "taken_back_silently" /\ ctl' \in Ctls /\ disk' \in Disks /\ stable' \in Stables
         /\ UNCHANGED faults /\ EffectStep /\ Shrinks /\ Closed /\ ctl'.err = ctl.err
<1>1. ctl \in Ctls /\ "staged" \in Names /\ Removes("staged") /\ EffectStep
  BY DEF TypeInv, TakenBackSilently, Names
<1>2. PICK doubt \in Doubts : ctl' = [ctl EXCEPT !.at = "conclude", !.uncertain = doubt]
  BY <1>1 DEF TakenBackSilently, Ctls, Doubts
<1>3. ctl' \in Ctls /\ ctl'.at = "conclude" /\ ctl'.err = ctl.err
  BY <1>1, <1>2 DEF Ctls, Places, Closing
<1>4. SameHold
  BY <1>1, <1>2 DEF Ctls, SameHold
<1> QED
  BY <1>1, <1>3, <1>4, RemovesMeans DEF TakenBackSilently, Closed

LEMMA RecheckMeans ==
  ASSUME TypeInv, Recheck
  PROVE  /\ ctl.at = "recheck" /\ ctl' \in Ctls
         /\ UNCHANGED <<disk, stable, faults>> /\ EffectStep
         /\ \/ Went("terminal")
            \/ ~Matches /\ Closed /\ ctl'.err \in Kinds /\ ctl'.uncertain # "none"
<1>1. ctl \in Ctls /\ ctl.at = "recheck" /\ UNCHANGED <<disk, stable, faults>> /\ EffectStep
  BY DEF TypeInv, Recheck
<1>2. CASE Matches
  <2>1. ctl' \in Ctls /\ Went("terminal")
    BY <1>1, <1>2, ControlMoves DEF Recheck, Places, Settled
  <2> QED
    BY <1>1, <2>1
<1>3. CASE ~Matches
  <2>1. ctl' = [ctl EXCEPT !.at = "conclude", !.err = "error", !.uncertain = "observed"]
    BY <1>3 DEF Recheck
  <2>2. ctl' \in Ctls /\ ctl'.at = "conclude" /\ ctl'.err \in Kinds /\ ctl'.uncertain # "none"
    BY <1>1, <2>1 DEF Ctls, Places, Closing, Errors, Kinds, Doubts
  <2>3. SameHold
    BY <1>1, <2>1 DEF Ctls, SameHold
  <2> QED
    BY <1>1, <1>3, <2>2, <2>3 DEF Closed
<1> QED
  BY <1>2, <1>3

SuccessEnd == Ended("SUCCEEDED", "result", "yes")

LEMMA RecordSucceededMeans ==
  ASSUME TypeInv, RecordSucceeded
  PROVE  /\ ctl.at = "terminal" /\ ctl' \in Ctls
         /\ UNCHANGED <<enforcing, disk, stable, row, meddles>>
         /\ \E w \in Writes :
              /\ Pays(w.cost)
              /\ Adds("terminal", SuccessEnd, w.kept)
              /\ \/ Accepted(w) /\ Went("end")
                 \/ ~Accepted(w) /\ Closed /\ ctl'.err \in Kinds /\ ctl'.uncertain # "none"
<1>1. PICK w \in Writes :
        /\ Pays(w.cost)
        /\ Writing(Event("terminal", SuccessEnd), w)
        /\ IF Accepted(w) THEN Goes("end")
           ELSE ctl' = [ctl EXCEPT !.at = "conclude", !.err = RaisedBy(w), !.uncertain = "observed"]
  BY DEF RecordSucceeded, SuccessEnd
<1>2. ctl \in Ctls /\ ctl.at = "terminal" /\ UNCHANGED <<enforcing, disk, stable, row, meddles>>
  BY DEF TypeInv, RecordSucceeded
<1>3. Adds("terminal", SuccessEnd, w.kept)
  <2>1. SuccessEnd \in Ends
    BY DEF SuccessEnd, Ended, Ends, Statuses
  <2>2. Event("terminal", SuccessEnd) \in Events /\ "terminal" \in Types
    BY <2>1, EventsAreTyped DEF Types
  <2> QED
    BY <1>1, <2>2, WritingAdds
<1>4. CASE Accepted(w)
  <2>1. ctl' \in Ctls /\ Went("end")
    BY <1>1, <1>2, <1>4, ControlMoves DEF Places, Closing
  <2> QED
    BY <1>1, <1>2, <1>3, <1>4, <2>1
<1>5. CASE ~Accepted(w)
  <2>1. PICK e \in Kinds : ctl' = [ctl EXCEPT !.at = "conclude", !.err = e, !.uncertain = "observed"]
    BY <1>1, <1>5, WritesMean
  <2>2. ctl' \in Ctls /\ ctl'.at = "conclude" /\ ctl'.err \in Kinds /\ ctl'.uncertain # "none"
    BY <1>2, <2>1 DEF Ctls, Places, Closing, Errors, Doubts
  <2>3. SameHold
    BY <1>2, <2>1 DEF Ctls, SameHold
  <2> QED
    BY <1>1, <1>2, <1>3, <1>5, <2>2, <2>3 DEF Closed
<1> QED
  BY <1>4, <1>5

FailureEnd == Ended(TerminalStatus, TerminalPhase, TerminalObserved)

LEMMA FailureEndMeans ==
  ASSUME ctl.err \in Errors \ {"none"}, ctl.uncertain \in Doubts
  PROVE  /\ FailureEnd \in Ends
         /\ FailureEnd.status # "SUCCEEDED"
         /\ ctl.err \in Kinds /\ ctl.uncertain # "none" => FailureEnd.status = "QUARANTINED"
         /\ FailureEnd.phase = "freshness" => ctl.err = "stale"
         /\ ctl.err = "stale" => FailureEnd = Ended("BLOCKED", "freshness", "unsaid")
<1> DEFINE s == TerminalStatus
           p == TerminalPhase
           o == TerminalObserved
<1>1. /\ s \in Statuses /\ s # "SUCCEEDED"
      /\ ctl.err \in Kinds /\ ctl.uncertain # "none" => s = "QUARANTINED"
      /\ ctl.err = "stale" => s = "BLOCKED"
  <2>1. CASE ctl.err \in {"stale", "blocked"}
    <3>1. s = "BLOCKED"
      BY <2>1 DEF TerminalStatus, Kinds
    <3> QED
      BY <2>1, <3>1 DEF Statuses, Kinds
  <2>2. CASE ctl.err = "invalid"
    <3>1. s = "QUARANTINED"
      BY <2>2 DEF TerminalStatus, Kinds
    <3> QED
      BY <2>2, <3>1 DEF Statuses, Kinds
  <2>3. CASE ctl.err \in Kinds /\ ctl.uncertain # "none"
    <3>1. s = "QUARANTINED"
      BY <2>3 DEF TerminalStatus, Kinds
    <3> QED
      BY <2>3, <3>1 DEF Statuses, Kinds
  <2>4. CASE ctl.err = "interrupt" /\ ctl.uncertain = "none"
    <3>1. s = "CANCELLED"
      BY <2>4 DEF TerminalStatus, Kinds
    <3> QED
      BY <2>4, <3>1 DEF Statuses, Kinds
  <2>5. CASE ctl.err = "error" /\ ctl.uncertain = "none"
    <3>1. s = "FAILED"
      BY <2>5 DEF TerminalStatus, Kinds
    <3> QED
      BY <2>5, <3>1 DEF Statuses, Kinds
  <2> QED
    BY <2>1, <2>2, <2>3, <2>4, <2>5 DEF Errors, Kinds
<1>2. /\ p \in {"result", "freshness", "authorization", "finalization"}
      /\ p = "freshness" <=> ctl.err = "stale"
  BY DEF TerminalPhase
<1>3. /\ o \in {"yes", "no", "unsaid"}
      /\ ctl.err = "stale" => o = "unsaid"
  BY DEF TerminalObserved, Kinds
<1>4. FailureEnd = Ended(s, p, o)
  BY DEF FailureEnd
<1> HIDE DEF s, p, o
<1>5. Ended(s, p, o).status = s /\ Ended(s, p, o).phase = p /\ Ended(s, p, o) \in Ends
  BY <1>1, <1>2, <1>3 DEF Ended, Ends
<1> QED
  BY <1>1, <1>2, <1>3, <1>4, <1>5

LEMMA ConcludeMeans ==
  ASSUME TypeInv, ctl.err # "none", Conclude
  PROVE  /\ ctl.at = "conclude" /\ ctl' \in Ctls /\ Went("end")
         /\ UNCHANGED <<enforcing, disk, stable, row, meddles>>
         /\ \/ Terminals # {} /\ UNCHANGED <<ledger, faults>>
            \/ Pays(1) /\ UNCHANGED ledger
            \/ /\ Terminals = {}
               /\ \E w \in Writes : Pays(w.cost) /\ Adds("terminal", FailureEnd, w.kept)
<1>1. ctl \in Ctls /\ ctl.at = "conclude" /\ UNCHANGED <<enforcing, disk, stable, row, meddles>> /\ Goes("end")
  BY DEF TypeInv, Conclude
<1>2. ctl' \in Ctls /\ Went("end")
  BY <1>1, ControlMoves DEF Places, Closing
<1>3. ASSUME NEW w \in Writes, Writing(Event("terminal", FailureEnd), w)
      PROVE  Adds("terminal", FailureEnd, w.kept)
  <2>1. FailureEnd \in Ends
    BY <1>1, FailureEndMeans DEF Ctls
  <2>2. Event("terminal", FailureEnd) \in Events /\ "terminal" \in Types
    BY <2>1, EventsAreTyped DEF Types
  <2> QED
    BY <1>3, <2>2, WritingAdds
<1>4. \/ Terminals # {} /\ UNCHANGED <<ledger, faults>>
      \/ Pays(1) /\ UNCHANGED ledger
      \/ /\ Terminals = {}
         /\ \E w \in Writes : Pays(w.cost) /\ Writing(Event("terminal", FailureEnd), w)
  BY DEF Conclude, Terminals, FailureEnd
<1> QED
  BY <1>1, <1>2, <1>3, <1>4

LEMMA ObserveShadowMeans ==
  ASSUME TypeInv, ObserveShadow
  PROVE  /\ ctl.at = "shadow" /\ ctl' \in Ctls
         /\ UNCHANGED <<enforcing, disk, stable, row, meddles>>
         /\ \E w \in Writes :
              /\ Pays(w.cost)
              /\ Adds("shadow", "observed", w.kept)
              /\ \/ w.cost # 0 /\ Failed("interrupt")
                 \/ Went(IF enforcing THEN "decide" ELSE "intent")
<1>1. PICK w \in Writes :
        /\ Pays(w.cost)
        /\ Writing(Event("shadow", "observed"), w)
        /\ IF w.raised = "interrupt" \/ w.read = "interrupted" THEN Fails("interrupt")
           ELSE Goes(IF enforcing THEN "decide" ELSE "intent")
  BY DEF ObserveShadow
<1>2. Adds("shadow", "observed", w.kept)
  BY <1>1, WritingAdds, EventsAreTyped DEF Types
<1>3. ctl \in Ctls /\ ctl.at = "shadow" /\ UNCHANGED <<enforcing, disk, stable, row, meddles>>
  BY DEF TypeInv, ObserveShadow
<1>4. CASE w.raised = "interrupt" \/ w.read = "interrupted"
  <2>1. ctl' \in Ctls /\ Failed("interrupt")
    BY <1>1, <1>3, <1>4, ControlMoves DEF Errors, Kinds
  <2>2. w.cost # 0
    BY <1>4, WritesMean
  <2> QED
    BY <1>1, <1>2, <1>3, <2>1, <2>2
<1>5. CASE ~(w.raised = "interrupt" \/ w.read = "interrupted")
  <2>1. (IF enforcing THEN "decide" ELSE "intent") \in Places
    BY DEF Places, Fronts
  <2>2. ctl' \in Ctls /\ Went(IF enforcing THEN "decide" ELSE "intent")
    BY <1>1, <1>3, <1>5, <2>1, ControlMoves
  <2> QED
    BY <1>1, <1>2, <1>3, <2>2
<1> QED
  BY <1>4, <1>5

LEMMA DecideMeans ==
  ASSUME TypeInv, Decide
  PROVE  /\ ctl.at = "decide" /\ ctl' \in Ctls
         /\ UNCHANGED <<enforcing, disk, stable, row, meddles>>
         /\ \E d \in {"permit", "deny", "failed", "interrupted"}, w \in Writes :
              /\ faults' = 0 => faults = 0 /\ w.cost = 0 /\ d # "interrupted"
              /\ Adds("decision", d, w.kept)
              /\ \/ d = "permit" /\ w.kept /\ Went("intent")
                 \/ d \in {"deny", "failed"} /\ Failed("blocked")
                 \/ (d = "interrupted" \/ ~Accepted(w)) /\ \E kind \in Kinds : Failed(kind)
<1>1. PICK d \in {"permit", "deny", "failed", "interrupted"}, w \in Writes :
        /\ Pays(w.cost + (IF d = "interrupted" THEN 1 ELSE 0))
        /\ Writing(Event("decision", d), w)
        /\ CASE d = "interrupted" -> Fails("interrupt")
             [] d # "interrupted" /\ ~Accepted(w) -> Fails(RaisedBy(w))
             [] d \in {"deny", "failed"} /\ Accepted(w) -> Fails("blocked")
             [] d = "permit" /\ Accepted(w) -> Goes("intent")
  BY DEF Decide
<1>2. Adds("decision", d, w.kept)
  BY <1>1, WritingAdds, EventsAreTyped DEF Types
<1>3. ctl \in Ctls /\ ctl.at = "decide" /\ UNCHANGED <<enforcing, disk, stable, row, meddles>>
  BY DEF TypeInv, Decide
<1>4. faults' = 0 => faults = 0 /\ w.cost = 0 /\ d # "interrupted"
  <2>1. w.cost \in Nat /\ faults \in Nat
    BY WritesMean, PublicationAssumption DEF TypeInv
  <2> QED
    BY <1>1, <2>1 DEF Pays
<1>5. Kinds \subseteq Errors /\ "blocked" \in Errors /\ "interrupt" \in Kinds /\ "intent" \in Places
  BY DEF Errors, Kinds, Places, Fronts
<1>6. CASE d = "interrupted"
  <2>1. Fails("interrupt")
    BY <1>1, <1>6
  <2> QED
    BY <1>2, <1>3, <1>4, <1>5, <1>6, <2>1, ControlMoves
<1>7. CASE d # "interrupted" /\ ~Accepted(w)
  <2>1. Fails(RaisedBy(w)) /\ RaisedBy(w) \in Kinds
    BY <1>1, <1>7, WritesMean
  <2> QED
    BY <1>2, <1>3, <1>4, <1>5, <1>7, <2>1, ControlMoves
<1>8. CASE d \in {"deny", "failed"} /\ Accepted(w)
  <2>1. Fails("blocked")
    BY <1>1, <1>8
  <2> QED
    BY <1>2, <1>3, <1>4, <1>5, <1>8, <2>1, ControlMoves
<1>9. CASE d = "permit" /\ Accepted(w)
  <2>1. Goes("intent") /\ w.kept
    BY <1>1, <1>9, WritesMean
  <2> QED
    BY <1>2, <1>3, <1>4, <1>5, <1>9, <2>1, ControlMoves
<1> QED
  BY <1>6, <1>7, <1>8, <1>9

LEMMA RecordIntentMeans ==
  ASSUME TypeInv, RecordIntent
  PROVE  /\ ctl.at = "intent" /\ ctl' \in Ctls
         /\ UNCHANGED <<enforcing, disk, stable, row, meddles>>
         /\ \E w \in Writes :
              /\ Pays(w.cost)
              /\ Adds("intent", "recorded", w.kept)
              /\ \/ w.kept /\ Went(IF enforcing THEN "fresh" ELSE "open")
                 \/ ~Accepted(w) /\ \E kind \in Kinds : Failed(kind)
<1>1. PICK w \in Writes :
        /\ Pays(w.cost)
        /\ Writing(Event("intent", "recorded"), w)
        /\ IF Accepted(w) THEN Goes(IF enforcing THEN "fresh" ELSE "open") ELSE Fails(RaisedBy(w))
  BY DEF RecordIntent
<1>2. Adds("intent", "recorded", w.kept)
  BY <1>1, WritingAdds, EventsAreTyped DEF Types
<1>3. ctl \in Ctls /\ ctl.at = "intent" /\ UNCHANGED <<enforcing, disk, stable, row, meddles>>
  BY DEF TypeInv, RecordIntent
<1>4. CASE Accepted(w)
  <2>1. (IF enforcing THEN "fresh" ELSE "open") \in Places
    BY DEF Places, Fronts
  <2>2. ctl' \in Ctls /\ Went(IF enforcing THEN "fresh" ELSE "open")
    BY <1>1, <1>3, <1>4, <2>1, ControlMoves
  <2> QED
    BY <1>1, <1>2, <1>3, <1>4, <2>2, WritesMean
<1>5. CASE ~Accepted(w)
  <2>1. Fails(RaisedBy(w)) /\ RaisedBy(w) \in Kinds /\ Kinds \subseteq Errors
    BY <1>1, <1>5, WritesMean DEF Errors
  <2> QED
    BY <1>1, <1>2, <1>3, <1>5, <2>1, ControlMoves
<1> QED
  BY <1>4, <1>5

LEMMA RaisesMeans ==
  ASSUME TypeInv, Raises
  PROVE  /\ ctl.at \in {"decide", "fresh", "open", "create", "write", "stage_sync", "parent_sync", "link",
                        "link_check", "unlink_check", "final_sync", "verify"}
         /\ ctl' \in Ctls /\ Pays(1) /\ UNCHANGED <<enforcing, disk, stable, ledger, row, meddles>>
         /\ \E kind \in Kinds \cup {"invalid"} : Failed(kind)
<1>1. ctl \in Ctls /\ Kinds \cup {"invalid"} \subseteq Errors
  BY DEF TypeInv, Errors
<1>2. Pays(1)
  BY PublicationAssumption DEF TypeInv, Raises, Pays
<1> QED
  BY <1>1, <1>2, ControlMoves DEF Raises

LEMMA OpenParentMeans ==
  ASSUME TypeInv, OpenParent
  PROVE  /\ ctl.at = "open" /\ ctl' \in Ctls
         /\ UNCHANGED <<disk, stable, faults>> /\ EffectStep
         /\ (Failed("invalid") /\ disk.swapped) \/ Went("create")
<1>1. ctl \in Ctls /\ "invalid" \in Errors /\ "create" \in Places
  BY DEF TypeInv, Errors, Places, Fronts
<1> QED
  BY <1>1, ControlMoves DEF OpenParent

LEMMA WriteStagedMeans ==
  ASSUME TypeInv, WriteStaged
  PROVE  /\ ctl.at = "write" /\ ctl' \in Ctls /\ Went("stage_sync")
         /\ disk' \in Disks /\ stable' \in Stables
         /\ disk'.at = disk.at /\ disk'.alias = disk.alias /\ disk'.swapped = disk.swapped
         /\ UNCHANGED faults /\ EffectStep /\ Sound' /\ Shrinks
<1>1. ctl \in Ctls /\ disk \in Disks /\ stable \in Stables /\ "stage_sync" \in Places
  BY DEF TypeInv, Places, Middles
<1>2. disk' = [disk EXCEPT !.whole = TRUE] /\ stable' = [stable EXCEPT !.whole = TRUE]
  BY DEF WriteStaged
<1>3. /\ disk' \in Disks /\ disk'.at = disk.at /\ disk'.alias = disk.alias /\ disk'.swapped = disk.swapped
      /\ disk'.whole = TRUE
  BY <1>1, <1>2 DEF Disks
<1>4. stable' \in Stables /\ stable'.at = stable.at /\ stable'.whole = TRUE
  BY <1>1, <1>2 DEF Stables
<1>5. Sound' /\ Shrinks
  BY <1>3, <1>4 DEF Sound, Shrinks, NotOwn
<1> QED
  BY <1>1, <1>3, <1>4, <1>5, ControlMoves DEF WriteStaged

LEMMA SyncParentMeans ==
  ASSUME TypeInv, SyncParent
  PROVE  /\ ctl' \in Ctls /\ stable' \in Stables
         /\ UNCHANGED <<disk, faults>> /\ EffectStep /\ Shrinks
         /\ \/ ctl.at = "parent_sync" /\ Went("row")
            \/ ctl.at = "final_sync" /\ Went("verify")
         /\ stable' = stable \/ stable'.at = disk.at
<1>1. ctl \in Ctls /\ stable \in Stables /\ {"row", "verify"} \subseteq Places
  BY DEF TypeInv, Places, Middles
<1>2. UNCHANGED <<disk, faults>> /\ EffectStep /\ (stable' = stable \/ stable' = Synced)
  BY DEF SyncParent
<1>3. stable' \in Stables /\ Shrinks /\ (stable' = stable \/ stable'.at = disk.at)
  BY <1>1, <1>2, SyncedMeans, StillShrinks
<1>4. /\ ctl' \in Ctls
      /\ \/ ctl.at = "parent_sync" /\ Went("row")
         \/ ctl.at = "final_sync" /\ Went("verify")
  BY <1>1, ControlMoves DEF SyncParent
<1> QED
  BY <1>2, <1>3, <1>4

\* Linking only adds the final name, and the file had its staging name.
LEMMA LinkFinalMeans ==
  ASSUME TypeInv, LinkFinal
  PROVE  /\ ctl.at = "link" /\ ctl' \in Ctls /\ disk' \in Disks /\ stable' \in Stables
         /\ EffectStep /\ (Sound => Sound')
         /\ \/ Shrinks /\ \E kind \in Errors \ {"none", "stale"} : Failed(kind)
               /\ (disk.swapped \/ disk.at["staged"] # "own" \/ Links # 1 \/ disk.at["final"] # "none")
            \/ /\ disk.at["staged"] = "own" /\ disk.alias = 0 /\ ~disk.swapped
               /\ disk'.at["final"] = "own" /\ disk'.at["staged"] = "own"
               /\ disk'.alias = 0 /\ ~disk'.swapped /\ UNCHANGED stable
               /\ \/ Went("link_check") /\ UNCHANGED faults
                  \/ Failed("interrupt") /\ Pays(1)
<1>1. ctl \in Ctls /\ disk \in Disks /\ stable \in Stables /\ ctl.at = "link" /\ EffectStep
  BY DEF TypeInv, LinkFinal
<1>2. {"error", "invalid", "interrupt"} \subseteq Errors \ {"none", "stale"} /\ "link_check" \in Places
      /\ "staged" \in Names
  BY DEF Errors, Kinds, Places, Middles, Names
<1>3. CASE disk.swapped
  <2>1. Removes("staged") /\ Fails("error")
    BY <1>3 DEF LinkFinal
  <2>2. disk' \in Disks /\ stable' \in Stables /\ Shrinks
    BY <1>2, <2>1, RemovesMeans
  <2>3. ctl' \in Ctls /\ Failed("error")
    BY <1>1, <1>2, <2>1, ControlMoves
  <2> QED
    BY <1>1, <1>2, <1>3, <2>2, <2>3 DEF Shrinks
<1>4. CASE ~disk.swapped /\ (disk.at["staged"] # "own" \/ Links # 1 \/ disk.at["final"] # "none")
  <2>1. UNCHANGED <<disk, stable>> /\ (Fails("error") \/ Fails("invalid"))
    BY <1>4 DEF LinkFinal
  <2>2. ctl' \in Ctls /\ (Failed("error") \/ Failed("invalid"))
    BY <1>1, <1>2, <2>1, ControlMoves
  <2>3. Shrinks /\ disk' \in Disks /\ stable' \in Stables /\ (Sound => Sound')
    BY <1>1, <2>1, StillShrinks DEF Sound
  <2> QED
    BY <1>1, <1>2, <1>4, <2>2, <2>3
<1>5. CASE ~disk.swapped /\ disk.at["staged"] = "own" /\ Links = 1 /\ disk.at["final"] = "none"
  <2>1. disk' = [disk EXCEPT !.at["final"] = "own"] /\ UNCHANGED stable
        /\ ((Goes("link_check") /\ UNCHANGED faults) \/ (Fails("interrupt") /\ Pays(1)))
    BY <1>5 DEF LinkFinal
  <2>2. disk.alias = 0
    <3>1. Links = 1 + disk.alias /\ disk.alias \in {0, 1}
      BY <1>1, <1>5, LinksMeans DEF Links, Disks
    <3> QED
      BY <1>5, <3>1
  <2>3. /\ disk' \in Disks
        /\ disk'.at["final"] = "own" /\ disk'.at["staged"] = disk.at["staged"]
        /\ disk'.alias = disk.alias /\ disk'.whole = disk.whole /\ disk'.swapped = disk.swapped
    <3> DEFINE at == [disk.at EXCEPT !["final"] = "own"]
    <3>1. disk.at \in [Names -> Entries] /\ "own" \in Entries
      BY <1>1 DEF Disks, Entries
    <3>2. at \in [Names -> Entries] /\ at["final"] = "own" /\ at["staged"] = disk.at["staged"]
      BY <3>1 DEF Names
    <3>3. disk' = [disk EXCEPT !.at = at]
      BY <2>1
    <3> HIDE DEF at
    <3>4. disk'.at = at
      BY <1>1, <3>3 DEF Disks
    <3>5. disk' \in Disks
      BY <1>1, <3>2, <3>3 DEF Disks
    <3> QED
      BY <1>1, <3>2, <3>3, <3>4, <3>5 DEF Disks
  <2>4. /\ ctl' \in Ctls
        /\ (Went("link_check") /\ UNCHANGED faults) \/ (Failed("interrupt") /\ Pays(1))
    BY <1>1, <1>2, <2>1, ControlMoves
  <2> QED
    BY <1>1, <1>5, <2>1, <2>2, <2>3, <2>4 DEF Sound
<1> QED
  BY <1>3, <1>4, <1>5

\* The two checks after a change of the names.
LEMMA CheckLinkedMeans ==
  ASSUME TypeInv, CheckLinked
  PROVE  /\ ctl.at = "link_check" /\ ctl' \in Ctls /\ disk' \in Disks /\ stable' \in Stables
         /\ UNCHANGED faults /\ EffectStep /\ Shrinks
         /\ \/ Failed("error") /\ (disk.at["final"] # "own" \/ Links # 2)
            \/ RollBack /\ disk.swapped
            \/ Went("unlink") /\ UNCHANGED disk
<1>1. ctl \in Ctls /\ disk \in Disks /\ stable \in Stables /\ ctl.at = "link_check" /\ UNCHANGED faults /\ EffectStep
  BY DEF TypeInv, CheckLinked
<1>2. "error" \in Errors /\ "unlink" \in Places
  BY DEF Errors, Kinds, Places, Middles
<1>3. CASE disk.at["final"] # "own" \/ Links # 2
  <2>1. Fails("error") /\ UNCHANGED <<disk, stable>>
    BY <1>3 DEF CheckLinked
  <2> QED
    BY <1>1, <1>2, <1>3, <2>1, ControlMoves, StillShrinks
<1>4. CASE ~(disk.at["final"] # "own" \/ Links # 2) /\ disk.swapped
  BY <1>1, <1>4, RollBackMeans DEF CheckLinked
<1>5. CASE ~(disk.at["final"] # "own" \/ Links # 2) /\ ~disk.swapped
  <2>1. stable' = Synced /\ Goes("unlink") /\ UNCHANGED disk
    BY <1>5 DEF CheckLinked
  <2> QED
    BY <1>1, <1>2, <2>1, SyncedMeans, ControlMoves
<1> QED
  BY <1>3, <1>4, <1>5

LEMMA CheckUnlinkedMeans ==
  ASSUME TypeInv, CheckUnlinked
  PROVE  /\ ctl.at = "unlink_check" /\ ctl' \in Ctls /\ disk' \in Disks /\ stable' \in Stables
         /\ UNCHANGED faults /\ EffectStep /\ Shrinks
         /\ \/ Failed("error") /\ (disk.at["final"] # "own" \/ Links # 1)
            \/ RollBack /\ disk.swapped
            \/ Went("final_sync") /\ UNCHANGED disk /\ Lasting' /\ NotOwn("staged")'
<1>1. ctl \in Ctls /\ disk \in Disks /\ stable \in Stables /\ ctl.at = "unlink_check" /\ UNCHANGED faults /\ EffectStep
  BY DEF TypeInv, CheckUnlinked
<1>2. "error" \in Errors /\ "final_sync" \in Places
  BY DEF Errors, Kinds, Places, Middles
<1>3. CASE disk.at["final"] # "own" \/ Links # 1
  <2>1. Fails("error") /\ UNCHANGED <<disk, stable>>
    BY <1>3 DEF CheckUnlinked
  <2> QED
    BY <1>1, <1>2, <1>3, <2>1, ControlMoves, StillShrinks
<1>4. CASE ~(disk.at["final"] # "own" \/ Links # 1) /\ disk.swapped
  BY <1>1, <1>4, RollBackMeans DEF CheckUnlinked
<1>5. CASE ~(disk.at["final"] # "own" \/ Links # 1) /\ ~disk.swapped
  <2>1. stable' = Synced /\ Goes("final_sync") /\ UNCHANGED disk
    BY <1>5 DEF CheckUnlinked
  <2>2. stable' \in Stables /\ stable'.at = disk.at /\ Shrinks
    BY <2>1, SyncedMeans
  <2>3. disk.at["staged"] # "own"
    <3>1. Links = 1 + (IF disk.at["staged"] = "own" THEN 1 ELSE 0) + disk.alias /\ disk.alias \in {0, 1}
      BY <1>1, <1>5, LinksMeans DEF Links, Disks
    <3> QED
      BY <1>5, <3>1
  <2>4. Lasting' /\ NotOwn("staged")'
    BY <1>5, <2>1, <2>2, <2>3 DEF Lasting, NotOwn
  <2> QED
    BY <1>1, <1>2, <2>1, <2>2, <2>4, ControlMoves
<1> QED
  BY <1>3, <1>4, <1>5

LEMMA UnlinkStagedMeans ==
  ASSUME TypeInv, UnlinkStaged
  PROVE  /\ ctl.at = "unlink" /\ ctl' \in Ctls /\ disk' \in Disks /\ UNCHANGED stable
         /\ EffectStep /\ Shrinks
         /\ \/ /\ Went("unlink_check") /\ UNCHANGED faults
               /\ disk'.at["final"] = disk.at["final"] /\ disk'.at["staged"] = "none"
               /\ disk'.alias = disk.alias /\ disk'.swapped = disk.swapped
            \/ Pays(1) /\ (Went("unlink_check") \/ Failed("interrupt"))
<1>1. ctl \in Ctls /\ disk \in Disks /\ stable \in Stables /\ ctl.at = "unlink" /\ UNCHANGED stable /\ EffectStep
  BY DEF TypeInv, UnlinkStaged
<1>2. "interrupt" \in Errors /\ "unlink_check" \in Places
  BY DEF Errors, Kinds, Places, Middles
<1>3. CASE /\ disk' = [disk EXCEPT !.at["staged"] = "none"]
           /\ (Goes("unlink_check") /\ UNCHANGED faults) \/ (Fails("interrupt") /\ Pays(1))
  <2>1. /\ disk' \in Disks
        /\ disk'.at["staged"] = "none" /\ disk'.at["final"] = disk.at["final"]
        /\ disk'.alias = disk.alias /\ disk'.whole = disk.whole /\ disk'.swapped = disk.swapped
    <3> DEFINE at == [disk.at EXCEPT !["staged"] = "none"]
    <3>1. disk.at \in [Names -> Entries] /\ "none" \in Entries
      BY <1>1 DEF Disks, Entries
    <3>2. at \in [Names -> Entries] /\ at["staged"] = "none" /\ at["final"] = disk.at["final"]
      BY <3>1 DEF Names
    <3>3. disk' = [disk EXCEPT !.at = at]
      BY <1>3
    <3> HIDE DEF at
    <3>4. disk'.at = at
      BY <1>1, <3>3 DEF Disks
    <3>5. disk' \in Disks
      BY <1>1, <3>2, <3>3 DEF Disks
    <3> QED
      BY <1>1, <3>2, <3>3, <3>4, <3>5 DEF Disks
  <2>2. Shrinks
    BY <1>1, <2>1 DEF Shrinks, NotOwn, Names, Sound
  <2>3. ctl' \in Ctls /\ ((Went("unlink_check") /\ UNCHANGED faults) \/ (Failed("interrupt") /\ Pays(1)))
    BY <1>1, <1>2, <1>3, ControlMoves
  <2> QED
    BY <1>1, <2>1, <2>2, <2>3
<1>4. CASE Pays(1) /\ (Goes("unlink_check") \/ Fails("interrupt")) /\ UNCHANGED disk
  BY <1>1, <1>2, <1>4, ControlMoves, StillShrinks
<1> QED
  BY <1>3, <1>4 DEF UnlinkStaged

LEMMA UnlinkFinalMeans ==
  ASSUME TypeInv, UnlinkFinal
  PROVE  /\ ctl.at = "unlink_final" /\ ctl' \in Ctls /\ disk' \in Disks /\ stable' \in Stables
         /\ EffectStep /\ Shrinks /\ Went("undo_final")
<1>1. ctl \in Ctls /\ "final" \in Names /\ "undo_final" \in Places
  BY DEF TypeInv, Names, Places, Backs
<1>2. Removes("final") \/ RemovalFails("final")
  BY DEF UnlinkFinal
<1> QED
  BY <1>1, <1>2, ControlMoves, RemovesMeans, RemovalFailsMeans DEF UnlinkFinal

LEMMA VerifyMeans ==
  ASSUME TypeInv, Verify
  PROVE  /\ ctl.at = "verify" /\ ctl' \in Ctls
         /\ UNCHANGED <<disk, stable, faults>> /\ EffectStep
         /\ Went("receipt") \/ (Failed("error") /\ ~Matches)
<1>1. ctl \in Ctls /\ "error" \in Errors /\ "receipt" \in Places
  BY DEF TypeInv, Errors, Kinds, Places, Middles
<1> QED
  BY <1>1, ControlMoves DEF Verify

Meddles == PlantFile \/ DropName \/ AddAlias \/ SwapParent

\* Other programs make no name of the controller's file; they link it from
\* elsewhere only while it has one.
LEMMA MeddlesMean ==
  ASSUME TypeInv, Meddles
  PROVE  /\ disk' \in Disks /\ Shrinks
         /\ UNCHANGED <<enforcing, stable, ledger, row, ctl, faults>>
         /\ meddles' \in 0 .. MaxMeddles /\ meddles' # 0
<1>1. disk \in Disks /\ disk.at \in [Names -> Entries] /\ {"none", "other"} \subseteq Entries
  BY DEF TypeInv, Disks, Entries
<1>2. ASSUME NEW d, Meddle(d)
      PROVE  /\ disk' = d /\ UNCHANGED <<enforcing, stable, ledger, row, ctl, faults>>
             /\ meddles' \in 0 .. MaxMeddles /\ meddles' # 0
  BY <1>2, PublicationAssumption DEF TypeInv, Meddle
<1>3. ASSUME NEW n \in Names, NEW what \in {"none", "other"}, Meddle([disk EXCEPT !.at[n] = what])
      PROVE  disk' \in Disks /\ Shrinks
  <2> DEFINE at == [disk.at EXCEPT ![n] = what]
  <2>1. at \in [Names -> Entries] /\ at[n] = what /\ \A m \in Names : m # n => at[m] = disk.at[m]
    BY <1>1, <1>3
  <2>2. disk' = [disk EXCEPT !.at = at] /\ UNCHANGED stable
    BY <1>2, <1>3
  <2> HIDE DEF at
  <2>3. disk' \in Disks /\ disk'.at = at /\ disk'.alias = disk.alias /\ disk'.whole = disk.whole
    BY <1>1, <2>1, <2>2 DEF Disks
  <2>4. \A m \in Names : disk'.at[m] = "own" => disk.at[m] = "own"
    BY <1>3, <2>1, <2>3
  <2> QED
    BY <2>2, <2>3, <2>4 DEF Shrinks, NotOwn, Sound
<1>4. CASE PlantFile
  <2>1. PICK n \in Names : Meddle([disk EXCEPT !.at[n] = "other"])
    BY <1>4 DEF PlantFile
  <2> QED
    BY <1>2, <1>3, <2>1
<1>5. CASE DropName
  <2>1. PICK n \in Names : Meddle([disk EXCEPT !.at[n] = "none"])
    BY <1>5 DEF DropName
  <2> QED
    BY <1>2, <1>3, <2>1
<1>6. CASE AddAlias
  <2>1. Links > 0 /\ disk.alias = 0 /\ Meddle([disk EXCEPT !.alias = 1])
    BY <1>6 DEF AddAlias
  <2>2. disk' = [disk EXCEPT !.alias = 1] /\ UNCHANGED stable
    BY <1>2, <2>1
  <2>3. disk' \in Disks /\ disk'.at = disk.at /\ disk'.whole = disk.whole
    BY <1>1, <2>2 DEF Disks
  <2>4. disk.at["final"] = "own" \/ disk.at["staged"] = "own"
    BY <1>1, <2>1, LinksMeans DEF Links
  <2>5. Shrinks
    BY <2>2, <2>3, <2>4 DEF Shrinks, NotOwn, Sound
  <2> QED
    BY <1>2, <2>1, <2>3, <2>5
<1>7. CASE SwapParent
  <2>1. Meddle([disk EXCEPT !.swapped = ~disk.swapped])
    BY <1>7 DEF SwapParent
  <2>2. PICK b \in BOOLEAN : disk' = [disk EXCEPT !.swapped = b]
    BY <1>2, <2>1
  <2>3. UNCHANGED stable
    BY <1>2, <2>1
  <2>4. disk' \in Disks /\ disk'.at = disk.at /\ disk'.whole = disk.whole /\ disk'.alias = disk.alias
    BY <1>1, <2>2 DEF Disks
  <2>5. Shrinks
    BY <2>3, <2>4 DEF Shrinks, NotOwn, Sound
  <2> QED
    BY <1>2, <2>1, <2>4, <2>5
<1> QED
  BY <1>4, <1>5, <1>6, <1>7 DEF Meddles

LEMMA LosePowerMeans ==
  ASSUME TypeInv, LosePower
  PROVE  /\ ctl' \in Ctls /\ Went("dead") /\ Alive
         /\ disk' \in Disks /\ stable' \in Stables /\ Shrinks
         /\ UNCHANGED <<enforcing, ledger, row, faults, meddles>>
         /\ Lasting => Lasting'
<1>1. ctl \in Ctls /\ disk \in Disks /\ stable \in Stables /\ "dead" \in Places
  BY DEF TypeInv, Places, Closing
<1>2. PICK at \in [Names -> Entries] :
        /\ \A n \in Names : at[n] \in {disk.at[n], stable.at[n]}
        /\ disk' = [disk EXCEPT !.at = at, !.whole = stable.whole]
  BY DEF LosePower
<1>3. stable.whole \in BOOLEAN
  BY <1>1 DEF Stables
<1>4. disk' \in Disks /\ disk'.at = at /\ disk'.alias = disk.alias /\ disk'.whole = stable.whole
  BY <1>1, <1>2, <1>3 DEF Disks
<1>5. stable' = [stable EXCEPT !.at = disk'.at]
  BY DEF LosePower
<1>6. stable' \in Stables /\ stable'.at = at /\ stable'.whole = stable.whole
  BY <1>1, <1>2, <1>4, <1>5 DEF Stables
<1>7. Shrinks
  BY <1>2, <1>4, <1>6 DEF Shrinks, NotOwn, Sound
<1>8. Lasting => Lasting'
  BY <1>2, <1>4, <1>6 DEF Lasting, Names
<1>9. ctl' \in Ctls /\ Went("dead")
  BY <1>1, ControlMoves DEF LosePower, Goes
<1> QED
  BY <1>4, <1>6, <1>7, <1>8, <1>9 DEF LosePower

-----------------------------------------------------------------------------
(* Every step keeps the invariant. *)

LEMMA PaysMeans ==
  ASSUME TypeInv, NEW c \in Nat, Pays(c)
  PROVE  faults' \in 0 .. MaxFaults /\ (faults' = 0 => faults = 0 /\ c = 0)
  BY PublicationAssumption DEF TypeInv, Pays

LEMMA CleanupPays ==
  ASSUME TypeInv, Unstage \/ LinkFinal \/ UnlinkFinal \/ UndoFinal \/ UndoStaged \/ TakeBack
  PROVE  faults' \in 0 .. MaxFaults /\ EffectStep
<1>1. EffectStep /\ (UNCHANGED faults \/ Pays(1))
  BY DEF Unstage, LinkFinal, UnlinkFinal, UndoFinal, UndoStaged, TakeBack, Undo
<1> QED
  BY <1>1, PaysMeans DEF TypeInv

LEMMA UndoFinalMeans ==
  UndoFinal => ctl.at = "undo_final" /\ "undo_staged" \in Places /\ "final" \in Names /\ Undo("final", "undo_staged")
  BY DEF UndoFinal, Places, Backs, Names

LEMMA UndoStagedMeans ==
  UndoStaged => /\ ctl.at = "undo_staged" /\ "failure_receipt" \in Places /\ "staged" \in Names
                /\ Undo("staged", "failure_receipt")
  BY DEF UndoStaged, Places, Backs, Names

LEMMA TakeBackMeans ==
  TakeBack => /\ "final" \in Names /\ {"taken_back", "taken_back_silently"} \subseteq Places
              /\ \/ ctl.at = "take_back" /\ Undo("final", "taken_back")
                 \/ ctl.at = "take_back_silently" /\ Undo("final", "taken_back_silently")
  BY DEF TakeBack, Places, Backs, Names

LEMMA RecordStays ==
  ASSUME SameRecord
  PROVE  /\ Recorded("shadow")' = Recorded("shadow") /\ Decisions' = Decisions /\ Intents' = Intents
         /\ Receipts' = Receipts /\ Terminals' = Terminals
         /\ Permitted' <=> Permitted
  BY DEF SameRecord, Decisions, Intents, Receipts, Terminals, Permitted

\* A step that adds nothing of the controller's to the directory.
LEMMA NothingAppears ==
  ASSUME TypeInv, Shrinks, disk' \in Disks, SameHold
  PROVE  /\ NoLinks => NoLinks'
         /\ NothingYet => NothingYet'
         /\ Exists' => Exists
         /\ \A n \in Names : NotOwn(n) => NotOwn(n)'
  BY ShrinksMeans DEF SameHold, NothingYet, Shrinks

LEMMA TypeKept ==
  ASSUME PubInv, [Next]_vars
  PROVE  TypeInv'
<1>0. /\ TypeInv /\ disk \in Disks /\ stable \in Stables /\ ledger \in Seq(Events) /\ ctl \in Ctls
      /\ enforcing \in BOOLEAN /\ row \in BOOLEAN /\ faults \in 0 .. MaxFaults /\ meddles \in 0 .. MaxMeddles
      /\ ctl.at \in Backs \cup {"conclude"} => ctl.err # "none"
  BY DEF PubInv, TypeInv, EndInv
<1> USE DEF TypeInv
<1>1. CASE Raises
  BY <1>1, <1>0, PaysMeans, WritesMean, LedgerStays, RaisesMeans DEF EffectStep, SameRecord, Adds
<1>2. CASE ObserveShadow
  BY <1>2, <1>0, PaysMeans, WritesMean, LedgerStays, ObserveShadowMeans DEF EffectStep, SameRecord, Adds
<1>3. CASE Decide
  <2>1. faults' \in 0 .. MaxFaults
    <3>1. \A w \in Writes : w.cost \in Nat /\ w.cost + 1 \in Nat
      BY WritesMean
    <3>2. PICK c \in Nat : Pays(c)
      BY <1>3, <3>1 DEF Decide
    <3> QED
      BY <1>0, <3>2, PaysMeans
  <2> QED
    BY <1>0, <1>3, <2>1, DecideMeans DEF Adds
<1>4. CASE RecordIntent
  BY <1>4, <1>0, PaysMeans, WritesMean, LedgerStays, RecordIntentMeans DEF EffectStep, SameRecord, Adds
<1>5. CASE AssertFresh
  BY <1>5, <1>0, PaysMeans, WritesMean, LedgerStays, AssertFreshMeans DEF EffectStep, SameRecord, Adds
<1>6. CASE OpenParent
  BY <1>6, <1>0, PaysMeans, WritesMean, LedgerStays, OpenParentMeans DEF EffectStep, SameRecord, Adds
<1>7. CASE CreateStaged
  BY <1>7, <1>0, PaysMeans, WritesMean, LedgerStays, CreateStagedMeans DEF EffectStep, SameRecord, Adds
<1>8. CASE WriteStaged
  BY <1>8, <1>0, PaysMeans, WritesMean, LedgerStays, WriteStagedMeans DEF EffectStep, SameRecord, Adds
<1>9. CASE CheckStaged
  BY <1>9, <1>0, PaysMeans, WritesMean, LedgerStays, CheckStagedMeans DEF EffectStep, SameRecord, Adds
<1>10. CASE Unstage
  BY <1>0, <1>10, CleanupPays, LedgerStays, UnstageMeans DEF EffectStep, SameRecord
<1>11. CASE SyncParent
  BY <1>11, <1>0, PaysMeans, WritesMean, LedgerStays, SyncParentMeans DEF EffectStep, SameRecord, Adds
<1>12. CASE RecordArtifact
  BY <1>12, <1>0, PaysMeans, WritesMean, LedgerStays, RecordArtifactMeans DEF EffectStep, SameRecord, Adds
<1>13. CASE LinkFinal
  BY <1>0, <1>13, CleanupPays, LedgerStays, LinkFinalMeans DEF EffectStep, SameRecord
<1>14. CASE CheckLinked
  BY <1>14, <1>0, PaysMeans, WritesMean, LedgerStays, CheckLinkedMeans DEF EffectStep, SameRecord, Adds
<1>15. CASE UnlinkStaged
  BY <1>15, <1>0, PaysMeans, WritesMean, LedgerStays, UnlinkStagedMeans DEF EffectStep, SameRecord, Adds
<1>16. CASE CheckUnlinked
  BY <1>16, <1>0, PaysMeans, WritesMean, LedgerStays, CheckUnlinkedMeans DEF EffectStep, SameRecord, Adds
<1>17. CASE UnlinkFinal
  BY <1>0, <1>17, CleanupPays, LedgerStays, UnlinkFinalMeans DEF EffectStep, SameRecord
<1>18. CASE Verify
  BY <1>18, <1>0, PaysMeans, WritesMean, LedgerStays, VerifyMeans DEF EffectStep, SameRecord, Adds
<1>19. CASE UndoFinal
  BY <1>0, <1>19, CleanupPays, LedgerStays, UndoFinalMeans, UndoMeans DEF EffectStep, SameRecord
<1>20. CASE UndoStaged
  BY <1>0, <1>20, CleanupPays, LedgerStays, UndoStagedMeans, UndoMeans DEF EffectStep, SameRecord
<1>21. CASE RecordFailure
  <2>1. ctl.err # "none"
    BY <1>0, <1>21 DEF RecordFailure, Backs
  <2> QED
    BY <1>0, <1>21, <2>1, RecordFailureMeans, PaysMeans, WritesMean, LedgerStays DEF SameRecord, Adds
<1>22. CASE RecordSuccess
  BY <1>22, <1>0, PaysMeans, WritesMean, LedgerStays, RecordSuccessMeans DEF EffectStep, SameRecord, Adds
<1>23. CASE BuildFails
  BY <1>23, <1>0, PaysMeans, WritesMean, LedgerStays, BuildFailsMeans DEF EffectStep, SameRecord, Adds
<1>24. CASE TakeBack
  BY <1>0, <1>24, CleanupPays, LedgerStays, TakeBackMeans, UndoMeans DEF EffectStep, SameRecord
<1>25. CASE RecordTakenBack
  <2>1. ctl.err # "none"
    BY <1>0, <1>25 DEF RecordTakenBack, Backs
  <2> QED
    BY <1>0, <1>25, <2>1, RecordTakenBackMeans, PaysMeans, WritesMean, LedgerStays DEF SameRecord, Adds
<1>26. CASE TakenBackSilently
  BY <1>26, <1>0, PaysMeans, WritesMean, LedgerStays, TakenBackSilentlyMeans DEF EffectStep, SameRecord, Adds
<1>27. CASE Recheck
  BY <1>27, <1>0, PaysMeans, WritesMean, LedgerStays, RecheckMeans DEF EffectStep, SameRecord, Adds
<1>28. CASE RecordSucceeded
  BY <1>28, <1>0, PaysMeans, WritesMean, LedgerStays, RecordSucceededMeans DEF EffectStep, SameRecord, Adds
<1>29. CASE Conclude
  <2>1. ctl.err # "none"
    BY <1>0, <1>29 DEF Conclude, Backs
  <2> QED
    BY <1>0, <1>29, <2>1, ConcludeMeans, PaysMeans, WritesMean, LedgerStays DEF SameRecord, Adds
<1>30. CASE Meddles
  BY <1>30, <1>0, PaysMeans, WritesMean, LedgerStays, MeddlesMean DEF EffectStep, SameRecord, Adds
<1>31. CASE LosePower
  BY <1>31, <1>0, PaysMeans, WritesMean, LedgerStays, LosePowerMeans DEF EffectStep, SameRecord, Adds
<1>32. CASE UNCHANGED vars
  BY <1>32, <1>0, PaysMeans, WritesMean, LedgerStays DEF vars, EffectStep, SameRecord, Adds
<1> QED
  BY <1>1, <1>2, <1>3, <1>4, <1>5, <1>6, <1>7, <1>8, <1>9, <1>10, <1>11, <1>12, <1>13,
     <1>14, <1>15, <1>16, <1>17, <1>18, <1>19, <1>20, <1>21, <1>22, <1>23, <1>24, <1>25,
     <1>26, <1>27, <1>28, <1>29, <1>30, <1>31, <1>32
    DEF Next, Controller, Environment, Meddles

USE DEF Fronts, Middles, Backs, Settled, Closing, Kinds

LEMMA OrderKept ==
  ASSUME PubInv, [Next]_vars
  PROVE  OrderInv'
<1>0. TypeInv /\ OrderInv /\ Tally /\ (ctl.at \in Backs \cup {"conclude"} => ctl.err # "none")
  BY DEF PubInv, OrderInv, EndInv
<1>a. UNCHANGED ledger =>
        /\ Tally'
        /\ Recorded("shadow")' = Recorded("shadow") /\ Decisions' = Decisions /\ Intents' = Intents
        /\ Receipts' = Receipts /\ Terminals' = Terminals
  BY <1>0, LedgerStays, RecordStays
<1>1. CASE Raises
  BY <1>1, <1>0, <1>a, RaisesMeans DEF EffectStep, OrderInv, Went, Failed, Handler, Closed
<1>2. CASE ObserveShadow
  BY <1>0, <1>a, <1>2, ObserveShadowMeans DEF OrderInv, Adds, Decisions, Intents, Receipts, Terminals, Went, Failed, Handler, Closed
<1>3. CASE Decide
  BY <1>0, <1>a, <1>3, DecideMeans DEF OrderInv, Adds, Decisions, Intents, Receipts, Terminals, Went, Failed, Handler, Closed
<1>4. CASE RecordIntent
  BY <1>0, <1>a, <1>4, RecordIntentMeans DEF OrderInv, Adds, Decisions, Intents, Receipts, Terminals, Went, Failed, Handler, Closed
<1>5. CASE AssertFresh
  BY <1>5, <1>0, <1>a, AssertFreshMeans DEF EffectStep, OrderInv, Went, Failed, Handler, Closed
<1>6. CASE OpenParent
  BY <1>6, <1>0, <1>a, OpenParentMeans DEF EffectStep, OrderInv, Went, Failed, Handler, Closed
<1>7. CASE CreateStaged
  BY <1>7, <1>0, <1>a, CreateStagedMeans DEF EffectStep, OrderInv, Went, Failed, Handler, Closed
<1>8. CASE WriteStaged
  BY <1>8, <1>0, <1>a, WriteStagedMeans DEF EffectStep, OrderInv, Went, Failed, Handler, Closed
<1>9. CASE CheckStaged
  BY <1>9, <1>0, <1>a, CheckStagedMeans DEF EffectStep, OrderInv, Went, Failed, Handler, Closed
<1>10. CASE Unstage
  BY <1>10, <1>0, <1>a, UnstageMeans DEF EffectStep, OrderInv, Went, Failed, Handler, Closed
<1>11. CASE SyncParent
  BY <1>11, <1>0, <1>a, SyncParentMeans DEF EffectStep, OrderInv, Went, Failed, Handler, Closed
<1>12. CASE RecordArtifact
  BY <1>12, <1>0, <1>a, RecordArtifactMeans DEF EffectStep, OrderInv, Went, Failed, Handler, Closed
<1>13. CASE LinkFinal
  BY <1>13, <1>0, <1>a, LinkFinalMeans DEF EffectStep, OrderInv, Went, Failed, Handler, Closed
<1>14. CASE CheckLinked
  BY <1>0, <1>a, <1>14, CheckLinkedMeans, RollBackMeans DEF EffectStep, OrderInv, Went, Failed, Handler
<1>15. CASE UnlinkStaged
  BY <1>15, <1>0, <1>a, UnlinkStagedMeans DEF EffectStep, OrderInv, Went, Failed, Handler, Closed
<1>16. CASE CheckUnlinked
  BY <1>0, <1>a, <1>16, CheckUnlinkedMeans, RollBackMeans DEF EffectStep, OrderInv, Went, Failed, Handler
<1>17. CASE UnlinkFinal
  BY <1>17, <1>0, <1>a, UnlinkFinalMeans DEF EffectStep, OrderInv, Went, Failed, Handler, Closed
<1>18. CASE Verify
  BY <1>18, <1>0, <1>a, VerifyMeans DEF EffectStep, OrderInv, Went, Failed, Handler, Closed
<1>19. CASE UndoFinal
  BY <1>0, <1>a, <1>19, CleanupPays, UndoFinalMeans, UndoMeans DEF EffectStep, OrderInv
<1>20. CASE UndoStaged
  BY <1>0, <1>a, <1>20, CleanupPays, UndoStagedMeans, UndoMeans DEF EffectStep, OrderInv
<1>21. CASE RecordFailure
  <2>1. ctl.err # "none"
    BY <1>0, <1>21 DEF RecordFailure
  <2> QED
    BY <1>0, <1>a, <1>21, <2>1, RecordFailureMeans DEF OrderInv, Adds, Decisions, Intents, Receipts, Terminals, Went, Closed
<1>22. CASE RecordSuccess
  BY <1>0, <1>a, <1>22, RecordSuccessMeans DEF OrderInv, Adds, Decisions, Intents, Receipts, Terminals, Went, Failed, Handler, Closed
<1>23. CASE BuildFails
  BY <1>23, <1>0, <1>a, BuildFailsMeans DEF EffectStep, OrderInv, Went, Failed, Handler, Closed
<1>24. CASE TakeBack
  BY <1>0, <1>a, <1>24, CleanupPays, TakeBackMeans, UndoMeans DEF EffectStep, OrderInv
<1>25. CASE RecordTakenBack
  <2>1. ctl.err # "none"
    BY <1>0, <1>25 DEF RecordTakenBack
  <2> QED
    BY <1>0, <1>a, <1>25, <2>1, RecordTakenBackMeans DEF OrderInv, Adds, Decisions, Intents, Receipts, Terminals, Went, Closed
<1>26. CASE TakenBackSilently
  BY <1>26, <1>0, <1>a, TakenBackSilentlyMeans DEF EffectStep, OrderInv, Went, Failed, Handler, Closed
<1>27. CASE Recheck
  BY <1>27, <1>0, <1>a, RecheckMeans DEF EffectStep, OrderInv, Went, Failed, Handler, Closed
<1>28. CASE RecordSucceeded
  BY <1>0, <1>a, <1>28, RecordSucceededMeans DEF OrderInv, Adds, Decisions, Intents, Receipts, Terminals, Went, Failed, Handler, Closed
<1>29. CASE Conclude
  <2>1. ctl.err # "none"
    BY <1>0, <1>29 DEF Conclude
  <2> QED
    BY <1>0, <1>a, <1>29, <2>1, ConcludeMeans DEF OrderInv, Adds, Decisions, Intents, Receipts, Terminals, Went, Closed
<1>30. CASE Meddles
  BY <1>30, <1>0, <1>a, MeddlesMean DEF EffectStep, OrderInv, Went, Failed, Handler, Closed
<1>31. CASE LosePower
  BY <1>31, <1>0, <1>a, LosePowerMeans DEF EffectStep, OrderInv, Went, Failed, Handler, Closed
<1>32. CASE UNCHANGED vars
  BY <1>32, <1>0, <1>a DEF vars, EffectStep, OrderInv, Went, Failed, Handler, Closed
<1> QED
  BY <1>1, <1>2, <1>3, <1>4, <1>5, <1>6, <1>7, <1>8, <1>9, <1>10, <1>11, <1>12, <1>13,
     <1>14, <1>15, <1>16, <1>17, <1>18, <1>19, <1>20, <1>21, <1>22, <1>23, <1>24, <1>25,
     <1>26, <1>27, <1>28, <1>29, <1>30, <1>31, <1>32
    DEF Next, Controller, Environment, Meddles

LEMMA NothingMeans == (NothingYet => NoLinks) /\ (NoLinks => ~Exists)
<1>1. NoLinks => ~Exists
  BY ExistsMeans DEF NoLinks
<1> QED
  BY <1>1 DEF NothingYet

LEMMA AuthKept ==
  ASSUME PubInv, [Next]_vars
  PROVE  AuthInv'
<1>0. TypeInv /\ disk \in Disks /\ AuthInv /\ (ctl.at \in Backs \cup {"conclude"} => ctl.err # "none")
  BY DEF PubInv, EndInv, TypeInv
<1>a. UNCHANGED ledger => Intents' = Intents /\ Terminals' = Terminals /\ (Permitted' <=> Permitted)
  BY <1>0, LedgerStays, RecordStays
<1>b. ASSUME Shrinks, disk' \in Disks, ctl'.learned = ctl.learned
      PROVE  (NoLinks => NoLinks') /\ (Exists' => Exists)
  BY <1>0, <1>b, ShrinksMeans
<1>c. UNCHANGED <<disk, stable>> => Shrinks /\ disk' \in Disks
  BY <1>0, StillShrinks DEF TypeInv
<1>d. NoLinks => ~Exists
  BY NothingMeans
<1>f. (ctl.at \notin Closing => Terminals = {}) /\ (ctl.at = "decide" => Decisions = {})
  BY DEF PubInv, OrderInv
<1>e. enforcing' = enforcing
  BY DEF Next, Controller, Environment, vars, EffectStep, Meddle, Raises, ObserveShadow, Decide, RecordIntent, AssertFresh, OpenParent, CreateStaged, WriteStaged, CheckStaged, Unstage, SyncParent, RecordArtifact, LinkFinal, CheckLinked, UnlinkStaged, CheckUnlinked, UnlinkFinal, Verify, UndoFinal, UndoStaged, RecordFailure, RecordSuccess, BuildFails, TakeBack, RecordTakenBack, TakenBackSilently, Recheck, RecordSucceeded, Conclude, LosePower,
         PlantFile, DropName, AddAlias, SwapParent, Undo
<1>1. CASE Raises
  BY <1>1, <1>0, <1>a, <1>b, <1>c, <1>d, <1>e, <1>f, RaisesMeans DEF EffectStep, AuthInv, Authorized, NothingYet, SameHold, Went, Failed, Handler, Closed
<1>2. CASE ObserveShadow
  BY <1>0, <1>a, <1>b, <1>c, <1>d, <1>e, <1>f, <1>2, ObserveShadowMeans DEF Adds, Decisions, Intents, Terminals, Permitted, EffectStep, AuthInv, Authorized, NothingYet, SameHold, Went, Failed, Handler, Closed
<1>3. CASE Decide
  BY <1>0, <1>a, <1>b, <1>c, <1>d, <1>e, <1>f, <1>3, DecideMeans DEF Adds, Decisions, Intents, Terminals, Permitted, EffectStep, AuthInv, Authorized, NothingYet, SameHold, Went, Failed, Handler, Closed
<1>4. CASE RecordIntent
  BY <1>0, <1>a, <1>b, <1>c, <1>d, <1>e, <1>f, <1>4, RecordIntentMeans DEF Adds, Decisions, Intents, Terminals, Permitted, EffectStep, AuthInv, Authorized, NothingYet, SameHold, Went, Failed, Handler, Closed
<1>5. CASE AssertFresh
  BY <1>5, <1>0, <1>a, <1>b, <1>c, <1>d, <1>e, <1>f, AssertFreshMeans DEF EffectStep, AuthInv, Authorized, NothingYet, SameHold, Went, Failed, Handler, Closed
<1>6. CASE OpenParent
  BY <1>6, <1>0, <1>a, <1>b, <1>c, <1>d, <1>e, <1>f, OpenParentMeans DEF EffectStep, AuthInv, Authorized, NothingYet, SameHold, Went, Failed, Handler, Closed
<1>7. CASE CreateStaged
  BY <1>7, <1>0, <1>a, <1>b, <1>c, <1>d, <1>e, <1>f, CreateStagedMeans DEF EffectStep, AuthInv, Authorized, NothingYet, SameHold, Went, Failed, Handler, Closed
<1>8. CASE WriteStaged
  BY <1>8, <1>0, <1>a, <1>b, <1>c, <1>d, <1>e, <1>f, WriteStagedMeans DEF EffectStep, AuthInv, Authorized, NothingYet, SameHold, Went, Failed, Handler, Closed
<1>9. CASE CheckStaged
  BY <1>9, <1>0, <1>a, <1>b, <1>c, <1>d, <1>e, <1>f, CheckStagedMeans DEF EffectStep, AuthInv, Authorized, NothingYet, SameHold, Went, Failed, Handler, Closed
<1>10. CASE Unstage
  BY <1>10, <1>0, <1>a, <1>b, <1>c, <1>d, <1>e, <1>f, UnstageMeans DEF EffectStep, AuthInv, Authorized, NothingYet, SameHold, Went, Failed, Handler, Closed
<1>11. CASE SyncParent
  BY <1>11, <1>0, <1>a, <1>b, <1>c, <1>d, <1>e, <1>f, SyncParentMeans DEF EffectStep, AuthInv, Authorized, NothingYet, SameHold, Went, Failed, Handler, Closed
<1>12. CASE RecordArtifact
  BY <1>12, <1>0, <1>a, <1>b, <1>c, <1>d, <1>e, <1>f, RecordArtifactMeans DEF EffectStep, AuthInv, Authorized, NothingYet, SameHold, Went, Failed, Handler, Closed
<1>13. CASE LinkFinal
  BY <1>13, <1>0, <1>a, <1>b, <1>c, <1>d, <1>e, <1>f, LinkFinalMeans DEF EffectStep, AuthInv, Authorized, NothingYet, SameHold, Went, Failed, Handler, Closed
<1>14. CASE CheckLinked
  BY <1>0, <1>a, <1>b, <1>c, <1>d, <1>e, <1>f, <1>14, CheckLinkedMeans, RollBackMeans DEF EffectStep, AuthInv, Authorized, NothingYet, SameHold, Went, Failed, Handler, Closed
<1>15. CASE UnlinkStaged
  BY <1>15, <1>0, <1>a, <1>b, <1>c, <1>d, <1>e, <1>f, UnlinkStagedMeans DEF EffectStep, AuthInv, Authorized, NothingYet, SameHold, Went, Failed, Handler, Closed
<1>16. CASE CheckUnlinked
  BY <1>0, <1>a, <1>b, <1>c, <1>d, <1>e, <1>f, <1>16, CheckUnlinkedMeans, RollBackMeans DEF EffectStep, AuthInv, Authorized, NothingYet, SameHold, Went, Failed, Handler, Closed
<1>17. CASE UnlinkFinal
  BY <1>17, <1>0, <1>a, <1>b, <1>c, <1>d, <1>e, <1>f, UnlinkFinalMeans DEF EffectStep, AuthInv, Authorized, NothingYet, SameHold, Went, Failed, Handler, Closed
<1>18. CASE Verify
  BY <1>18, <1>0, <1>a, <1>b, <1>c, <1>d, <1>e, <1>f, VerifyMeans DEF EffectStep, AuthInv, Authorized, NothingYet, SameHold, Went, Failed, Handler, Closed
<1>19. CASE UndoFinal
  BY <1>0, <1>a, <1>b, <1>c, <1>d, <1>e, <1>f, <1>19, CleanupPays, UndoFinalMeans, UndoMeans DEF EffectStep, AuthInv, Authorized, NothingYet, SameHold, Went, Failed, Handler, Closed
<1>20. CASE UndoStaged
  BY <1>0, <1>a, <1>b, <1>c, <1>d, <1>e, <1>f, <1>20, CleanupPays, UndoStagedMeans, UndoMeans DEF EffectStep, AuthInv, Authorized, NothingYet, SameHold, Went, Failed, Handler, Closed
<1>21. CASE RecordFailure
  <2>1. ctl.err # "none"
    BY <1>0, <1>21 DEF RecordFailure
  <2> QED
    BY <1>0, <1>a, <1>b, <1>c, <1>d, <1>e, <1>f, <1>21, <2>1, RecordFailureMeans DEF Adds, Decisions, Intents, Terminals, Permitted, EffectStep, AuthInv, Authorized, NothingYet, SameHold, Went, Failed, Handler, Closed
<1>22. CASE RecordSuccess
  BY <1>0, <1>a, <1>b, <1>c, <1>d, <1>e, <1>f, <1>22, RecordSuccessMeans DEF Adds, Decisions, Intents, Terminals, Permitted, EffectStep, AuthInv, Authorized, NothingYet, SameHold, Went, Failed, Handler, Closed
<1>23. CASE BuildFails
  BY <1>23, <1>0, <1>a, <1>b, <1>c, <1>d, <1>e, <1>f, BuildFailsMeans DEF EffectStep, AuthInv, Authorized, NothingYet, SameHold, Went, Failed, Handler, Closed
<1>24. CASE TakeBack
  BY <1>0, <1>a, <1>b, <1>c, <1>d, <1>e, <1>f, <1>24, CleanupPays, TakeBackMeans, UndoMeans DEF EffectStep, AuthInv, Authorized, NothingYet, SameHold, Went, Failed, Handler, Closed
<1>25. CASE RecordTakenBack
  <2>1. ctl.err # "none"
    BY <1>0, <1>25 DEF RecordTakenBack
  <2> QED
    BY <1>0, <1>a, <1>b, <1>c, <1>d, <1>e, <1>f, <1>25, <2>1, RecordTakenBackMeans DEF Adds, Decisions, Intents, Terminals, Permitted, EffectStep, AuthInv, Authorized, NothingYet, SameHold, Went, Failed, Handler, Closed
<1>26. CASE TakenBackSilently
  BY <1>26, <1>0, <1>a, <1>b, <1>c, <1>d, <1>e, <1>f, TakenBackSilentlyMeans DEF EffectStep, AuthInv, Authorized, NothingYet, SameHold, Went, Failed, Handler, Closed
<1>27. CASE Recheck
  BY <1>27, <1>0, <1>a, <1>b, <1>c, <1>d, <1>e, <1>f, RecheckMeans DEF EffectStep, AuthInv, Authorized, NothingYet, SameHold, Went, Failed, Handler, Closed
<1>28. CASE RecordSucceeded
  <2>1. SuccessEnd.phase # "freshness"
    BY DEF SuccessEnd, Ended
  <2> QED
    BY <1>0, <1>a, <1>b, <1>c, <1>d, <1>e, <1>f, <1>28, <2>1, RecordSucceededMeans DEF Adds, Decisions, Intents, Terminals, Permitted, EffectStep, AuthInv, Authorized, NothingYet, SameHold, Went, Failed, Handler, Closed
<1>29. CASE Conclude
  <2>1. ctl.err # "none"
    BY <1>0, <1>29 DEF Conclude
  <2>2. FailureEnd.phase = "freshness" => ctl.err = "stale"
    BY <1>0, <2>1, FailureEndMeans DEF TypeInv, Ctls
  <2> QED
    BY <1>0, <1>a, <1>b, <1>c, <1>d, <1>e, <1>f, <1>29, <2>1, <2>2, ConcludeMeans DEF Adds, Decisions, Intents, Terminals, Permitted, EffectStep, AuthInv, Authorized, NothingYet, SameHold, Went, Failed, Handler, Closed
<1>30. CASE Meddles
  BY <1>30, <1>0, <1>a, <1>b, <1>c, <1>d, <1>e, <1>f, MeddlesMean DEF EffectStep, AuthInv, Authorized, NothingYet, SameHold, Went, Failed, Handler, Closed
<1>31. CASE LosePower
  BY <1>31, <1>0, <1>a, <1>b, <1>c, <1>d, <1>e, <1>f, LosePowerMeans DEF EffectStep, AuthInv, Authorized, NothingYet, SameHold, Went, Failed, Handler, Closed
<1>32. CASE UNCHANGED vars
  BY <1>32, <1>0, <1>a, <1>b, <1>c, <1>d, <1>e, <1>f DEF vars, EffectStep, AuthInv, Authorized, NothingYet, SameHold, Went, Failed, Handler, Closed
<1> QED
  BY <1>1, <1>2, <1>3, <1>4, <1>5, <1>6, <1>7, <1>8, <1>9, <1>10, <1>11, <1>12, <1>13,
     <1>14, <1>15, <1>16, <1>17, <1>18, <1>19, <1>20, <1>21, <1>22, <1>23, <1>24, <1>25,
     <1>26, <1>27, <1>28, <1>29, <1>30, <1>31, <1>32
    DEF Next, Controller, Environment, Meddles

LEMMA HoldKept ==
  ASSUME PubInv, [Next]_vars
  PROVE  HoldInv'
<1>0. /\ TypeInv /\ disk \in Disks /\ HoldInv
      /\ ctl.at \in Fronts => ~ctl.identity /\ ~ctl.learned /\ ~ctl.anchored
      /\ ctl.at \in Backs \cup {"conclude"} => ctl.err # "none"
  BY DEF PubInv, EndInv, TypeInv, AuthInv, NothingYet
<1>b. ASSUME Shrinks, disk' \in Disks, ctl'.learned = ctl.learned
      PROVE  NoLinks => NoLinks'
  BY <1>0, <1>b, ShrinksMeans
<1>c. UNCHANGED <<disk, stable>> => Shrinks /\ disk' \in Disks
  BY <1>0, StillShrinks DEF TypeInv
<1>1. CASE Raises
  BY <1>1, <1>0, <1>b, <1>c, RaisesMeans DEF HoldInv, SameHold, Went, Failed, Handler, Closed
<1>2. CASE ObserveShadow
  BY <1>2, <1>0, <1>b, <1>c, ObserveShadowMeans DEF HoldInv, SameHold, Went, Failed, Handler, Closed
<1>3. CASE Decide
  BY <1>3, <1>0, <1>b, <1>c, DecideMeans DEF HoldInv, SameHold, Went, Failed, Handler, Closed
<1>4. CASE RecordIntent
  BY <1>4, <1>0, <1>b, <1>c, RecordIntentMeans DEF HoldInv, SameHold, Went, Failed, Handler, Closed
<1>5. CASE AssertFresh
  BY <1>5, <1>0, <1>b, <1>c, AssertFreshMeans DEF HoldInv, SameHold, Went, Failed, Handler, Closed
<1>6. CASE OpenParent
  BY <1>6, <1>0, <1>b, <1>c, OpenParentMeans DEF HoldInv, SameHold, Went, Failed, Handler, Closed
<1>7. CASE CreateStaged
  BY <1>7, <1>0, <1>b, <1>c, CreateStagedMeans DEF HoldInv, SameHold, Went, Failed, Handler, Closed
<1>8. CASE WriteStaged
  BY <1>8, <1>0, <1>b, <1>c, WriteStagedMeans DEF HoldInv, SameHold, Went, Failed, Handler, Closed
<1>9. CASE CheckStaged
  BY <1>9, <1>0, <1>b, <1>c, CheckStagedMeans DEF HoldInv, SameHold, Went, Failed, Handler, Closed
<1>10. CASE Unstage
  BY <1>10, <1>0, <1>b, <1>c, UnstageMeans DEF HoldInv, SameHold, Went, Failed, Handler, Closed
<1>11. CASE SyncParent
  BY <1>11, <1>0, <1>b, <1>c, SyncParentMeans DEF HoldInv, SameHold, Went, Failed, Handler, Closed
<1>12. CASE RecordArtifact
  BY <1>12, <1>0, <1>b, <1>c, RecordArtifactMeans DEF HoldInv, SameHold, Went, Failed, Handler, Closed
<1>13. CASE LinkFinal
  BY <1>13, <1>0, <1>b, <1>c, LinkFinalMeans DEF HoldInv, SameHold, Went, Failed, Handler, Closed
<1>14. CASE CheckLinked
  BY <1>0, <1>b, <1>c, <1>14, CheckLinkedMeans, RollBackMeans DEF HoldInv, SameHold, Went, Failed, Handler, Closed
<1>15. CASE UnlinkStaged
  BY <1>15, <1>0, <1>b, <1>c, UnlinkStagedMeans DEF HoldInv, SameHold, Went, Failed, Handler, Closed
<1>16. CASE CheckUnlinked
  BY <1>0, <1>b, <1>c, <1>16, CheckUnlinkedMeans, RollBackMeans DEF HoldInv, SameHold, Went, Failed, Handler, Closed
<1>17. CASE UnlinkFinal
  BY <1>17, <1>0, <1>b, <1>c, UnlinkFinalMeans DEF HoldInv, SameHold, Went, Failed, Handler, Closed
<1>18. CASE Verify
  BY <1>18, <1>0, <1>b, <1>c, VerifyMeans DEF HoldInv, SameHold, Went, Failed, Handler, Closed
<1>19. CASE UndoFinal
  BY <1>0, <1>b, <1>c, <1>19, CleanupPays, UndoFinalMeans, UndoMeans DEF HoldInv, SameHold, Went, Failed, Handler, Closed
<1>20. CASE UndoStaged
  BY <1>0, <1>b, <1>c, <1>20, CleanupPays, UndoStagedMeans, UndoMeans DEF HoldInv, SameHold, Went, Failed, Handler, Closed
<1>21. CASE RecordFailure
  <2>1. ctl.err # "none"
    BY <1>0, <1>21 DEF RecordFailure
  <2> QED
    BY <1>0, <1>b, <1>c, <1>21, <2>1, RecordFailureMeans DEF HoldInv, SameHold, Went, Failed, Handler, Closed
<1>22. CASE RecordSuccess
  BY <1>22, <1>0, <1>b, <1>c, RecordSuccessMeans DEF HoldInv, SameHold, Went, Failed, Handler, Closed
<1>23. CASE BuildFails
  BY <1>23, <1>0, <1>b, <1>c, BuildFailsMeans DEF HoldInv, SameHold, Went, Failed, Handler, Closed
<1>24. CASE TakeBack
  BY <1>0, <1>b, <1>c, <1>24, CleanupPays, TakeBackMeans, UndoMeans DEF HoldInv, SameHold, Went, Failed, Handler, Closed
<1>25. CASE RecordTakenBack
  <2>1. ctl.err # "none"
    BY <1>0, <1>25 DEF RecordTakenBack
  <2> QED
    BY <1>0, <1>b, <1>c, <1>25, <2>1, RecordTakenBackMeans DEF HoldInv, SameHold, Went, Failed, Handler, Closed
<1>26. CASE TakenBackSilently
  BY <1>26, <1>0, <1>b, <1>c, TakenBackSilentlyMeans DEF HoldInv, SameHold, Went, Failed, Handler, Closed
<1>27. CASE Recheck
  BY <1>27, <1>0, <1>b, <1>c, RecheckMeans DEF HoldInv, SameHold, Went, Failed, Handler, Closed
<1>28. CASE RecordSucceeded
  BY <1>28, <1>0, <1>b, <1>c, RecordSucceededMeans DEF HoldInv, SameHold, Went, Failed, Handler, Closed
<1>29. CASE Conclude
  <2>1. ctl.err # "none"
    BY <1>0, <1>29 DEF Conclude
  <2> QED
    BY <1>0, <1>b, <1>c, <1>29, <2>1, ConcludeMeans DEF HoldInv, SameHold, Went, Failed, Handler, Closed
<1>30. CASE Meddles
  BY <1>30, <1>0, <1>b, <1>c, MeddlesMean DEF HoldInv, SameHold, Went, Failed, Handler, Closed
<1>31. CASE LosePower
  BY <1>31, <1>0, <1>b, <1>c, LosePowerMeans DEF HoldInv, SameHold, Went, Failed, Handler, Closed
<1>32. CASE UNCHANGED vars
  BY <1>32, <1>0, <1>b, <1>c DEF vars, HoldInv, SameHold, Went, Failed, Handler, Closed
<1> QED
  BY <1>1, <1>2, <1>3, <1>4, <1>5, <1>6, <1>7, <1>8, <1>9, <1>10, <1>11, <1>12, <1>13,
     <1>14, <1>15, <1>16, <1>17, <1>18, <1>19, <1>20, <1>21, <1>22, <1>23, <1>24, <1>25,
     <1>26, <1>27, <1>28, <1>29, <1>30, <1>31, <1>32
    DEF Next, Controller, Environment, Meddles

LEMMA GoneKept ==
  ASSUME PubInv, [Next]_vars
  PROVE  GoneInv'
<1>0. /\ TypeInv /\ disk \in Disks /\ GoneInv /\ HoldInv
      /\ ctl.at \notin Settled \cup Closing => Receipts = {}
      /\ ctl.at \in Settled => Receipts = {"succeeded"}
      /\ ctl.at \in Backs \cup {"conclude"} => ctl.err # "none"
  BY DEF PubInv, EndInv, TypeInv, OrderInv
<1>a. UNCHANGED ledger => Receipts' = Receipts
  BY <1>0, LedgerStays, RecordStays
<1>b. ASSUME Shrinks, disk' \in Disks
      PROVE  /\ \A n \in Names : NotOwn(n) => NotOwn(n)'
             /\ ctl'.learned = ctl.learned => (NoLinks => NoLinks') /\ (Exists' => Exists)
  BY <1>0, <1>b, ShrinksMeans DEF Shrinks
<1>c. UNCHANGED <<disk, stable>> => Shrinks /\ disk' \in Disks
  BY <1>0, StillShrinks DEF TypeInv
<1>d. /\ Names = {"final", "staged"}
      /\ ctl'.gone = ctl.gone => (ProvedGone' <=> ProvedGone)
  BY DEF Names, ProvedGone
<1>1. CASE Raises
  BY <1>1, <1>0, <1>a, <1>b, <1>c, <1>d, RaisesMeans DEF EffectStep, GoneInv, SameHold, Went, Failed, Handler, Closed
<1>2. CASE ObserveShadow
  BY <1>0, <1>a, <1>b, <1>c, <1>d, <1>2, ObserveShadowMeans DEF Adds, Receipts, EffectStep, GoneInv, SameHold, Went, Failed, Handler, Closed
<1>3. CASE Decide
  BY <1>0, <1>a, <1>b, <1>c, <1>d, <1>3, DecideMeans DEF Adds, Receipts, EffectStep, GoneInv, SameHold, Went, Failed, Handler, Closed
<1>4. CASE RecordIntent
  BY <1>0, <1>a, <1>b, <1>c, <1>d, <1>4, RecordIntentMeans DEF Adds, Receipts, EffectStep, GoneInv, SameHold, Went, Failed, Handler, Closed
<1>5. CASE AssertFresh
  BY <1>5, <1>0, <1>a, <1>b, <1>c, <1>d, AssertFreshMeans DEF EffectStep, GoneInv, SameHold, Went, Failed, Handler, Closed
<1>6. CASE OpenParent
  BY <1>6, <1>0, <1>a, <1>b, <1>c, <1>d, OpenParentMeans DEF EffectStep, GoneInv, SameHold, Went, Failed, Handler, Closed
<1>7. CASE CreateStaged
  BY <1>7, <1>0, <1>a, <1>b, <1>c, <1>d, CreateStagedMeans DEF EffectStep, GoneInv, SameHold, Went, Failed, Handler, Closed
<1>8. CASE WriteStaged
  BY <1>8, <1>0, <1>a, <1>b, <1>c, <1>d, WriteStagedMeans DEF EffectStep, GoneInv, SameHold, Went, Failed, Handler, Closed
<1>9. CASE CheckStaged
  BY <1>9, <1>0, <1>a, <1>b, <1>c, <1>d, CheckStagedMeans DEF EffectStep, GoneInv, SameHold, Went, Failed, Handler, Closed
<1>10. CASE Unstage
  BY <1>10, <1>0, <1>a, <1>b, <1>c, <1>d, UnstageMeans DEF EffectStep, GoneInv, SameHold, Went, Failed, Handler, Closed
<1>11. CASE SyncParent
  BY <1>11, <1>0, <1>a, <1>b, <1>c, <1>d, SyncParentMeans DEF EffectStep, GoneInv, SameHold, Went, Failed, Handler, Closed
<1>12. CASE RecordArtifact
  BY <1>12, <1>0, <1>a, <1>b, <1>c, <1>d, RecordArtifactMeans DEF EffectStep, GoneInv, SameHold, Went, Failed, Handler, Closed
<1>13. CASE LinkFinal
  BY <1>13, <1>0, <1>a, <1>b, <1>c, <1>d, LinkFinalMeans DEF EffectStep, GoneInv, SameHold, Went, Failed, Handler, Closed
<1>14. CASE CheckLinked
  BY <1>0, <1>a, <1>b, <1>c, <1>d, <1>14, CheckLinkedMeans, RollBackMeans DEF EffectStep, GoneInv, SameHold, Went, Failed, Handler, Closed
<1>15. CASE UnlinkStaged
  BY <1>15, <1>0, <1>a, <1>b, <1>c, <1>d, UnlinkStagedMeans DEF EffectStep, GoneInv, SameHold, Went, Failed, Handler, Closed
<1>16. CASE CheckUnlinked
  BY <1>0, <1>a, <1>b, <1>c, <1>d, <1>16, CheckUnlinkedMeans, RollBackMeans DEF EffectStep, GoneInv, SameHold, Went, Failed, Handler, Closed
<1>17. CASE UnlinkFinal
  BY <1>17, <1>0, <1>a, <1>b, <1>c, <1>d, UnlinkFinalMeans DEF EffectStep, GoneInv, SameHold, Went, Failed, Handler, Closed
<1>18. CASE Verify
  BY <1>18, <1>0, <1>a, <1>b, <1>c, <1>d, VerifyMeans DEF EffectStep, GoneInv, SameHold, Went, Failed, Handler, Closed
<1>19. CASE UndoFinal
  <2>1. /\ ctl'.at = "undo_staged" /\ Receipts = {} /\ Receipts' = {}
        /\ ctl'.gone["final"] => NotOwn("final")'
    BY <1>0, <1>a, <1>b, <1>c, <1>d, <1>19, CleanupPays, UndoFinalMeans, UndoMeans DEF EffectStep, NotOwn
  <2> QED
    BY <2>1 DEF GoneInv
<1>20. CASE UndoStaged
  <2>1. /\ ctl.at = "undo_staged" /\ ctl'.at = "failure_receipt" /\ Receipts' = {}
        /\ ctl'.learned = ctl.learned /\ Shrinks /\ disk' \in Disks
        /\ ctl'.gone["final"] = ctl.gone["final"]
        /\ ctl'.gone["staged"] =>
             /\ disk'.at["staged"] # "own" /\ stable'.at = disk'.at
             /\ ctl.anchored => disk'.alias = 0
    BY <1>0, <1>a, <1>b, <1>c, <1>d, <1>20, CleanupPays, UndoStagedMeans, UndoMeans DEF EffectStep
  <2>2. ctl'.gone["final"] => NotOwn("final")'
    BY <1>0, <1>a, <1>b, <1>c, <1>d, <2>1 DEF GoneInv
  <2>3. ASSUME ProvedGone' PROVE ~Exists'
    <3>1. NotOwn("final")' /\ NotOwn("staged")' /\ (ctl.anchored => disk'.alias = 0)
      BY <1>d, <2>1, <2>2, <2>3 DEF ProvedGone, NotOwn
    <3>2. ctl.learned /\ ~ctl.anchored => disk'.alias = 0
      BY <1>0, <1>b, <2>1 DEF HoldInv, NoLinks
    <3> QED
      BY <2>1, <3>1, <3>2 DEF Exists, OwnAt, NotOwn, Names
  <2> QED
    BY <2>1, <2>2, <2>3 DEF GoneInv
<1>21. CASE RecordFailure
  <2>1. ctl.err # "none"
    BY <1>0, <1>21 DEF RecordFailure
  <2>2. FailureOutcome \in {"failed", "cancelled"} => ProvedGone
    BY DEF FailureOutcome
  <2> QED
    BY <1>0, <1>a, <1>b, <1>c, <1>d, <1>21, <2>1, <2>2, RecordFailureMeans DEF Adds, Receipts, EffectStep, GoneInv, SameHold, Went, Failed, Handler, Closed
<1>22. CASE RecordSuccess
  BY <1>0, <1>a, <1>b, <1>c, <1>d, <1>22, RecordSuccessMeans DEF Adds, Receipts, EffectStep, GoneInv, SameHold, Went, Failed, Handler, Closed
<1>23. CASE BuildFails
  BY <1>23, <1>0, <1>a, <1>b, <1>c, <1>d, BuildFailsMeans DEF EffectStep, GoneInv, SameHold, Went, Failed, Handler, Closed
<1>24. CASE TakeBack
  <2>1. /\ ctl.at \in {"take_back", "take_back_silently"} /\ ctl.anchored
        /\ ctl'.at \in {"taken_back", "taken_back_silently"} /\ Receipts' = {}
        /\ ctl'.learned = ctl.learned /\ Shrinks /\ disk' \in Disks
        /\ ctl'.gone["final"] =>
             /\ disk'.at["final"] # "own" /\ stable'.at = disk'.at
             /\ ctl.anchored => disk'.alias = 0
    BY <1>0, <1>a, <1>b, <1>c, <1>d, <1>24, CleanupPays, TakeBackMeans, UndoMeans DEF EffectStep, HoldInv
  <2>2. NotOwn("staged")'
    BY <1>0, <1>a, <1>b, <1>c, <1>d, <2>1 DEF GoneInv
  <2>3. ctl'.gone["final"] => NotOwn("final")' /\ disk'.alias = 0
    BY <2>1 DEF NotOwn
  <2>4. ctl'.gone["final"] => ~Exists'
    BY <2>1, <2>2, <2>3 DEF Exists, OwnAt, NotOwn, Names
  <2> QED
    BY <2>1, <2>2, <2>3, <2>4 DEF GoneInv
<1>25. CASE RecordTakenBack
  <2>1. ctl.err # "none"
    BY <1>0, <1>25 DEF RecordTakenBack
  <2> QED
    BY <1>0, <1>a, <1>b, <1>c, <1>d, <1>25, <2>1, RecordTakenBackMeans DEF Adds, Receipts, EffectStep, GoneInv, SameHold, Went, Failed, Handler, Closed
<1>26. CASE TakenBackSilently
  BY <1>26, <1>0, <1>a, <1>b, <1>c, <1>d, TakenBackSilentlyMeans DEF EffectStep, GoneInv, SameHold, Went, Failed, Handler, Closed
<1>27. CASE Recheck
  BY <1>27, <1>0, <1>a, <1>b, <1>c, <1>d, RecheckMeans DEF EffectStep, GoneInv, SameHold, Went, Failed, Handler, Closed
<1>28. CASE RecordSucceeded
  BY <1>0, <1>a, <1>b, <1>c, <1>d, <1>28, RecordSucceededMeans DEF Adds, Receipts, EffectStep, GoneInv, SameHold, Went, Failed, Handler, Closed
<1>29. CASE Conclude
  <2>1. ctl.err # "none"
    BY <1>0, <1>29 DEF Conclude
  <2> QED
    BY <1>0, <1>a, <1>b, <1>c, <1>d, <1>29, <2>1, ConcludeMeans DEF Adds, Receipts, EffectStep, GoneInv, SameHold, Went, Failed, Handler, Closed
<1>30. CASE Meddles
  BY <1>30, <1>0, <1>a, <1>b, <1>c, <1>d, MeddlesMean DEF EffectStep, GoneInv, SameHold, Went, Failed, Handler, Closed
<1>31. CASE LosePower
  BY <1>31, <1>0, <1>a, <1>b, <1>c, <1>d, LosePowerMeans DEF EffectStep, GoneInv, SameHold, Went, Failed, Handler, Closed
<1>32. CASE UNCHANGED vars
  BY <1>32, <1>0, <1>a, <1>b, <1>c, <1>d DEF vars, EffectStep, GoneInv, SameHold, Went, Failed, Handler, Closed
<1> QED
  BY <1>1, <1>2, <1>3, <1>4, <1>5, <1>6, <1>7, <1>8, <1>9, <1>10, <1>11, <1>12, <1>13,
     <1>14, <1>15, <1>16, <1>17, <1>18, <1>19, <1>20, <1>21, <1>22, <1>23, <1>24, <1>25,
     <1>26, <1>27, <1>28, <1>29, <1>30, <1>31, <1>32
    DEF Next, Controller, Environment, Meddles

LEMMA LastKept ==
  ASSUME PubInv, [Next]_vars
  PROVE  LastInv'
<1>0. /\ TypeInv /\ disk \in Disks /\ LastInv
      /\ ctl.at \notin Settled \cup Closing => Receipts = {}
      /\ ctl.at \in Settled => Receipts = {"succeeded"}
      /\ ctl.at \in Backs \cup {"conclude"} => ctl.err # "none"
  BY DEF PubInv, EndInv, TypeInv, OrderInv
<1>a. UNCHANGED ledger => Receipts' = Receipts
  BY <1>0, LedgerStays, RecordStays
<1>b. Shrinks => (Sound => Sound')
  BY DEF Shrinks
<1>c. UNCHANGED <<disk, stable>> => Sound' = Sound /\ Lasting' = Lasting
  BY DEF Sound, Lasting
<1>1. CASE Raises
  BY <1>1, <1>0, <1>a, <1>b, <1>c, RaisesMeans DEF EffectStep, LastInv, Went, Failed, Handler, Closed
<1>2. CASE ObserveShadow
  BY <1>0, <1>a, <1>b, <1>c, <1>2, ObserveShadowMeans DEF Adds, Receipts, EffectStep, LastInv, Went, Failed, Handler, Closed
<1>3. CASE Decide
  BY <1>0, <1>a, <1>b, <1>c, <1>3, DecideMeans DEF Adds, Receipts, EffectStep, LastInv, Went, Failed, Handler, Closed
<1>4. CASE RecordIntent
  BY <1>0, <1>a, <1>b, <1>c, <1>4, RecordIntentMeans DEF Adds, Receipts, EffectStep, LastInv, Went, Failed, Handler, Closed
<1>5. CASE AssertFresh
  BY <1>5, <1>0, <1>a, <1>b, <1>c, AssertFreshMeans DEF EffectStep, LastInv, Went, Failed, Handler, Closed
<1>6. CASE OpenParent
  BY <1>6, <1>0, <1>a, <1>b, <1>c, OpenParentMeans DEF EffectStep, LastInv, Went, Failed, Handler, Closed
<1>7. CASE CreateStaged
  BY <1>7, <1>0, <1>a, <1>b, <1>c, CreateStagedMeans DEF EffectStep, LastInv, Went, Failed, Handler, Closed
<1>8. CASE WriteStaged
  BY <1>8, <1>0, <1>a, <1>b, <1>c, WriteStagedMeans DEF EffectStep, LastInv, Went, Failed, Handler, Closed
<1>9. CASE CheckStaged
  BY <1>9, <1>0, <1>a, <1>b, <1>c, CheckStagedMeans DEF EffectStep, LastInv, Went, Failed, Handler, Closed
<1>10. CASE Unstage
  BY <1>10, <1>0, <1>a, <1>b, <1>c, UnstageMeans DEF EffectStep, LastInv, Went, Failed, Handler, Closed
<1>11. CASE SyncParent
  <2>1. Lasting => Lasting'
    BY <1>0, <1>11, SyncParentMeans DEF Lasting
  <2> QED
    BY <1>0, <1>a, <1>b, <1>c, <1>11, <2>1, SyncParentMeans DEF EffectStep, LastInv, Went, Failed, Handler, Closed
<1>12. CASE RecordArtifact
  BY <1>12, <1>0, <1>a, <1>b, <1>c, RecordArtifactMeans DEF EffectStep, LastInv, Went, Failed, Handler, Closed
<1>13. CASE LinkFinal
  BY <1>13, <1>0, <1>a, <1>b, <1>c, LinkFinalMeans DEF EffectStep, LastInv, Went, Failed, Handler, Closed
<1>14. CASE CheckLinked
  BY <1>0, <1>a, <1>b, <1>c, <1>14, CheckLinkedMeans, RollBackMeans DEF EffectStep, LastInv, Went, Failed, Handler, Closed
<1>15. CASE UnlinkStaged
  BY <1>15, <1>0, <1>a, <1>b, <1>c, UnlinkStagedMeans DEF EffectStep, LastInv, Went, Failed, Handler, Closed
<1>16. CASE CheckUnlinked
  BY <1>0, <1>a, <1>b, <1>c, <1>16, CheckUnlinkedMeans, RollBackMeans DEF EffectStep, LastInv, Went, Failed, Handler, Closed
<1>17. CASE UnlinkFinal
  BY <1>17, <1>0, <1>a, <1>b, <1>c, UnlinkFinalMeans DEF EffectStep, LastInv, Went, Failed, Handler, Closed
<1>18. CASE Verify
  BY <1>18, <1>0, <1>a, <1>b, <1>c, VerifyMeans DEF EffectStep, LastInv, Went, Failed, Handler, Closed
<1>19. CASE UndoFinal
  BY <1>0, <1>a, <1>b, <1>c, <1>19, CleanupPays, UndoFinalMeans, UndoMeans DEF EffectStep, LastInv, Went, Failed, Handler, Closed
<1>20. CASE UndoStaged
  BY <1>0, <1>a, <1>b, <1>c, <1>20, CleanupPays, UndoStagedMeans, UndoMeans DEF EffectStep, LastInv, Went, Failed, Handler, Closed
<1>21. CASE RecordFailure
  <2>1. ctl.err # "none"
    BY <1>0, <1>21 DEF RecordFailure
  <2>2. FailureOutcome # "succeeded"
    BY DEF FailureOutcome
  <2> QED
    BY <1>0, <1>a, <1>b, <1>c, <1>21, <2>1, <2>2, RecordFailureMeans DEF Adds, Receipts, EffectStep, LastInv, Went, Failed, Handler, Closed
<1>22. CASE RecordSuccess
  BY <1>0, <1>a, <1>b, <1>c, <1>22, RecordSuccessMeans DEF Adds, Receipts, EffectStep, LastInv, Went, Failed, Handler, Closed
<1>23. CASE BuildFails
  BY <1>23, <1>0, <1>a, <1>b, <1>c, BuildFailsMeans DEF EffectStep, LastInv, Went, Failed, Handler, Closed
<1>24. CASE TakeBack
  BY <1>0, <1>a, <1>b, <1>c, <1>24, CleanupPays, TakeBackMeans, UndoMeans DEF EffectStep, LastInv, Went, Failed, Handler, Closed
<1>25. CASE RecordTakenBack
  <2>1. ctl.err # "none"
    BY <1>0, <1>25 DEF RecordTakenBack
  <2> QED
    BY <1>0, <1>a, <1>b, <1>c, <1>25, <2>1, RecordTakenBackMeans DEF Adds, Receipts, EffectStep, LastInv, Went, Failed, Handler, Closed
<1>26. CASE TakenBackSilently
  BY <1>26, <1>0, <1>a, <1>b, <1>c, TakenBackSilentlyMeans DEF EffectStep, LastInv, Went, Failed, Handler, Closed
<1>27. CASE Recheck
  BY <1>27, <1>0, <1>a, <1>b, <1>c, RecheckMeans DEF EffectStep, LastInv, Went, Failed, Handler, Closed
<1>28. CASE RecordSucceeded
  BY <1>0, <1>a, <1>b, <1>c, <1>28, RecordSucceededMeans DEF Adds, Receipts, EffectStep, LastInv, Went, Failed, Handler, Closed
<1>29. CASE Conclude
  <2>1. ctl.err # "none"
    BY <1>0, <1>29 DEF Conclude
  <2> QED
    BY <1>0, <1>a, <1>b, <1>c, <1>29, <2>1, ConcludeMeans DEF Adds, Receipts, EffectStep, LastInv, Went, Failed, Handler, Closed
<1>30. CASE Meddles
  BY <1>30, <1>0, <1>a, <1>b, <1>c, MeddlesMean DEF EffectStep, LastInv, Went, Failed, Handler, Closed
<1>31. CASE LosePower
  BY <1>31, <1>0, <1>a, <1>b, <1>c, LosePowerMeans DEF EffectStep, LastInv, Went, Failed, Handler, Closed
<1>32. CASE UNCHANGED vars
  BY <1>32, <1>0, <1>a, <1>b, <1>c DEF vars, EffectStep, LastInv, Went, Failed, Handler, Closed
<1> QED
  BY <1>1, <1>2, <1>3, <1>4, <1>5, <1>6, <1>7, <1>8, <1>9, <1>10, <1>11, <1>12, <1>13,
     <1>14, <1>15, <1>16, <1>17, <1>18, <1>19, <1>20, <1>21, <1>22, <1>23, <1>24, <1>25,
     <1>26, <1>27, <1>28, <1>29, <1>30, <1>31, <1>32
    DEF Next, Controller, Environment, Meddles

LEMMA EndKept ==
  ASSUME PubInv, [Next]_vars
  PROVE  EndInv'
<1>0. /\ TypeInv /\ disk \in Disks /\ EndInv
      /\ ctl.at \notin Settled \cup Closing => Receipts = {}
      /\ ctl.at \in Settled => Receipts = {"succeeded"}
      /\ ctl.at \notin Closing => Terminals = {}
      /\ ctl.at \in Backs \cup {"conclude"} => ctl.err # "none"
  BY DEF PubInv, EndInv, TypeInv, OrderInv
<1>a. UNCHANGED ledger => Receipts' = Receipts /\ Terminals' = Terminals
  BY <1>0, LedgerStays, RecordStays
<1>1. CASE Raises
  BY <1>1, <1>0, <1>a, RaisesMeans DEF EffectStep, EndInv, Went, Failed, Handler, Closed
<1>2. CASE ObserveShadow
  BY <1>0, <1>a, <1>2, ObserveShadowMeans DEF Adds, Receipts, Terminals, EffectStep, EndInv, Went, Failed, Handler, Closed
<1>3. CASE Decide
  BY <1>0, <1>a, <1>3, DecideMeans DEF Adds, Receipts, Terminals, EffectStep, EndInv, Went, Failed, Handler, Closed
<1>4. CASE RecordIntent
  BY <1>0, <1>a, <1>4, RecordIntentMeans DEF Adds, Receipts, Terminals, EffectStep, EndInv, Went, Failed, Handler, Closed
<1>5. CASE AssertFresh
  BY <1>5, <1>0, <1>a, AssertFreshMeans DEF EffectStep, EndInv, Went, Failed, Handler, Closed
<1>6. CASE OpenParent
  BY <1>6, <1>0, <1>a, OpenParentMeans DEF EffectStep, EndInv, Went, Failed, Handler, Closed
<1>7. CASE CreateStaged
  BY <1>7, <1>0, <1>a, CreateStagedMeans DEF EffectStep, EndInv, Went, Failed, Handler, Closed
<1>8. CASE WriteStaged
  BY <1>8, <1>0, <1>a, WriteStagedMeans DEF EffectStep, EndInv, Went, Failed, Handler, Closed
<1>9. CASE CheckStaged
  BY <1>9, <1>0, <1>a, CheckStagedMeans DEF EffectStep, EndInv, Went, Failed, Handler, Closed
<1>10. CASE Unstage
  BY <1>10, <1>0, <1>a, UnstageMeans DEF EffectStep, EndInv, Went, Failed, Handler, Closed
<1>11. CASE SyncParent
  BY <1>11, <1>0, <1>a, SyncParentMeans DEF EffectStep, EndInv, Went, Failed, Handler, Closed
<1>12. CASE RecordArtifact
  BY <1>12, <1>0, <1>a, RecordArtifactMeans, WritesMean DEF EffectStep, EndInv, Went, Failed, Handler, Closed
<1>13. CASE LinkFinal
  BY <1>13, <1>0, <1>a, LinkFinalMeans DEF EffectStep, EndInv, Went, Failed, Handler, Closed
<1>14. CASE CheckLinked
  BY <1>0, <1>a, <1>14, CheckLinkedMeans, RollBackMeans DEF EffectStep, EndInv, Went, Failed, Handler, Closed
<1>15. CASE UnlinkStaged
  BY <1>15, <1>0, <1>a, UnlinkStagedMeans DEF EffectStep, EndInv, Went, Failed, Handler, Closed
<1>16. CASE CheckUnlinked
  BY <1>0, <1>a, <1>16, CheckUnlinkedMeans, RollBackMeans DEF EffectStep, EndInv, Went, Failed, Handler, Closed
<1>17. CASE UnlinkFinal
  BY <1>17, <1>0, <1>a, UnlinkFinalMeans DEF EffectStep, EndInv, Went, Failed, Handler, Closed
<1>18. CASE Verify
  BY <1>18, <1>0, <1>a, VerifyMeans DEF EffectStep, EndInv, Went, Failed, Handler, Closed
<1>19. CASE UndoFinal
  BY <1>0, <1>a, <1>19, CleanupPays, UndoFinalMeans, UndoMeans DEF EffectStep, EndInv, Went, Failed, Handler, Closed
<1>20. CASE UndoStaged
  BY <1>0, <1>a, <1>20, CleanupPays, UndoStagedMeans, UndoMeans DEF EffectStep, EndInv, Went, Failed, Handler, Closed
<1>21. CASE RecordFailure
  <2>1. ctl.err # "none"
    BY <1>0, <1>21 DEF RecordFailure
  <2>2. FailureOutcome # "succeeded" /\ (FailureOutcome = "unknown" => ~ProvedGone)
    BY DEF FailureOutcome
  <2> QED
    BY <1>0, <1>a, <1>21, <2>1, <2>2, RecordFailureMeans DEF Adds, Receipts, Terminals, EffectStep, EndInv, Went, Failed, Handler, Closed
<1>22. CASE RecordSuccess
  BY <1>0, <1>a, <1>22, RecordSuccessMeans DEF Adds, Receipts, Terminals, EffectStep, EndInv, Went, Failed, Handler, Closed
<1>23. CASE BuildFails
  BY <1>23, <1>0, <1>a, BuildFailsMeans DEF EffectStep, EndInv, Went, Failed, Handler, Closed
<1>24. CASE TakeBack
  BY <1>0, <1>a, <1>24, CleanupPays, TakeBackMeans, UndoMeans DEF EffectStep, EndInv, Went, Failed, Handler, Closed
<1>25. CASE RecordTakenBack
  <2>1. ctl.err # "none"
    BY <1>0, <1>25 DEF RecordTakenBack
  <2> QED
    BY <1>0, <1>a, <1>25, <2>1, RecordTakenBackMeans DEF Adds, Receipts, Terminals, EffectStep, EndInv, Went, Failed, Handler, Closed
<1>26. CASE TakenBackSilently
  BY <1>26, <1>0, <1>a, TakenBackSilentlyMeans DEF EffectStep, EndInv, Went, Failed, Handler, Closed
<1>27. CASE Recheck
  BY <1>27, <1>0, <1>a, RecheckMeans DEF EffectStep, EndInv, Went, Failed, Handler, Closed
<1>28. CASE RecordSucceeded
  <2>1. SuccessEnd.status = "SUCCEEDED"
    BY DEF SuccessEnd, Ended
  <2> QED
    BY <1>0, <1>a, <1>28, <2>1, RecordSucceededMeans DEF Adds, Receipts, Terminals, EffectStep, EndInv, Went, Failed, Handler, Closed
<1>29. CASE Conclude
  <2>1. ctl.at = "conclude" /\ ctl.err # "none" /\ ctl.err \in Errors \ {"none"} /\ ctl.uncertain \in Doubts
    BY <1>0, <1>29 DEF Conclude, TypeInv, Ctls
  <2>2. /\ FailureEnd.status # "SUCCEEDED"
        /\ Receipts \cap {"succeeded", "unknown"} # {} => FailureEnd.status = "QUARANTINED"
    BY <1>0, <2>1, FailureEndMeans DEF EndInv
  <2> QED
    BY <1>0, <1>a, <1>29, <2>1, <2>2, ConcludeMeans DEF Adds, Receipts, Terminals, EffectStep, EndInv, Went, Failed, Handler, Closed
<1>30. CASE Meddles
  BY <1>30, <1>0, <1>a, MeddlesMean DEF EffectStep, EndInv, Went, Failed, Handler, Closed
<1>31. CASE LosePower
  BY <1>31, <1>0, <1>a, LosePowerMeans DEF EffectStep, EndInv, Went, Failed, Handler, Closed
<1>32. CASE UNCHANGED vars
  BY <1>32, <1>0, <1>a DEF vars, EffectStep, EndInv, Went, Failed, Handler, Closed
<1> QED
  BY <1>1, <1>2, <1>3, <1>4, <1>5, <1>6, <1>7, <1>8, <1>9, <1>10, <1>11, <1>12, <1>13,
     <1>14, <1>15, <1>16, <1>17, <1>18, <1>19, <1>20, <1>21, <1>22, <1>23, <1>24, <1>25,
     <1>26, <1>27, <1>28, <1>29, <1>30, <1>31, <1>32
    DEF Next, Controller, Environment, Meddles

-----------------------------------------------------------------------------
(* What is on record: the ledger tells the effect. *)

LEMMA ReceiptIs ==
  ASSUME TypeInv, Once
  PROVE  \/ Receipts = {} /\ Receipt = "none"
         \/ Receipts = {Receipt} /\ Receipt \in Verdicts
<1>1. Receipts \subseteq Verdicts /\ \A a, b \in Receipts : a = b
  BY RecordedTyped, OnRecordOnce DEF TypeInv, Receipts
<1>2. CASE Receipts = {}
  BY <1>2 DEF Receipt, Receipts
<1>3. CASE Receipts # {}
  <2>1. Receipt \in Receipts
    BY <1>3, Zenon DEF Receipt, Receipts
  <2> QED
    BY <1>1, <2>1
<1> QED
  BY <1>2, <1>3

LEMMA TerminalIs ==
  ASSUME TypeInv, Once
  PROVE  \/ Terminals = {} /\ Terminal = Ended("RUNNING", "none", "unsaid")
         \/ Terminals = {Terminal} /\ Terminal \in Ends
<1>1. Terminals \subseteq Ends /\ \A a, b \in Terminals : a = b
  BY RecordedTyped, OnRecordOnce DEF TypeInv, Terminals
<1>2. CASE Terminals = {}
  BY <1>2 DEF Terminal, Terminals
<1>3. CASE Terminals # {}
  <2>1. Terminal \in Terminals
    BY <1>3, Zenon DEF Terminal, Terminals
  <2> QED
    BY <1>1, <2>1
<1> QED
  BY <1>2, <1>3

LEMMA LedgerIsRight ==
  ASSUME PubInv
  PROVE  LedgerTellsTheEffect
<1>0. TypeInv /\ Tally /\ Once
  BY DEF PubInv, OrderInv, Tally
<1>1. TypeOK
  <2>1. \A type : Present(type) \in {0, 1}
    BY DEF Present
  <2>2. Len(ledger) <= 5
    <3> DEFINE a == Present("shadow")
               b == Present("decision")
               c == Present("intent")
               d == Present("receipt")
               e == Present("terminal")
    <3>1. Len(ledger) = a + b + c + d + e
      BY <1>0 DEF Tally
    <3>2. a \in {0, 1} /\ b \in {0, 1} /\ c \in {0, 1} /\ d \in {0, 1} /\ e \in {0, 1}
      BY <2>1
    <3> HIDE DEF a, b, c, d, e
    <3> QED
      BY <3>1, <3>2
  <2>3. ctl.err \in Kinds \cup {"none", "invalid", "blocked", "stale"}
        /\ ctl.uncertain \in {"none", "observed", "unobserved"}
    BY <1>0 DEF TypeInv, Ctls, Errors, Doubts
  <2> QED
    BY <1>0, <2>2, <2>3 DEF TypeOK, TypeInv, Disks, Stables
<1>2. EffectsFollowIntent
  BY DEF EffectsFollowIntent, PubInv, AuthInv, Authorized, Intents
<1>3. /\ \/ Receipts = {} /\ Receipt = "none"
         \/ Receipts = {Receipt} /\ Receipt \in Verdicts
      /\ \/ Terminals = {} /\ Terminal = Ended("RUNNING", "none", "unsaid")
         \/ Terminals = {Terminal} /\ Terminal \in Ends
  BY <1>0, ReceiptIs, TerminalIs
<1>4. SucceededIsDurable
  BY <1>3 DEF SucceededIsDurable, PubInv, LastInv, Sound, Lasting
<1>5. DeniedMeansGone
  BY <1>3 DEF DeniedMeansGone, PubInv, GoneInv
<1>6. OneVerdict
  BY <1>0, OnRecordOnce DEF OneVerdict
<1>7. TerminalTellsTheEffect
  BY <1>3 DEF TerminalTellsTheEffect, PubInv, EndInv, Ended
<1> QED
  BY <1>1, <1>2, <1>4, <1>5, <1>6, <1>7 DEF LedgerTellsTheEffect

LEMMA InitPub ==
  ASSUME Init
  PROVE  PubInv
<1>1. /\ \A type : Recorded(type) = {}
      /\ Once /\ ledger \in Seq(Events) /\ Len(ledger) = 0
  BY DEF Init, Recorded, Once
<1>2. /\ disk.at["final"] = "none" /\ disk.at["staged"] = "none" /\ disk.alias = 0
      /\ stable.at["final"] = "none" /\ stable.at["staged"] = "none"
      /\ disk \in Disks /\ stable \in Stables
  BY DEF Init, Names, Entries, Disks, Stables
<1>3. /\ ctl \in Ctls /\ ctl.at = "shadow" /\ ctl.err = "none"
      /\ ~ctl.identity /\ ~ctl.learned /\ ~ctl.anchored /\ ~ctl.gone["final"]
  BY DEF Init, Ctls, Places, Errors, Doubts, Names
<1>4. TypeInv
  <2>1. enforcing \in BOOLEAN /\ row = FALSE /\ faults = 0 /\ meddles = 0
    BY DEF Init
  <2>2. 0 \in 0 .. MaxFaults /\ 0 \in 0 .. MaxMeddles
    BY PublicationAssumption
  <2> QED
    BY <1>1, <1>2, <1>3, <2>1, <2>2 DEF TypeInv
<1>5. OrderInv
  BY <1>1, <1>3 DEF OrderInv, Tally, Present, Decisions, Intents, Receipts, Terminals
<1>6. NothingYet /\ ~Exists
  BY <1>2, <1>3, NothingMeans DEF NothingYet, NoLinks, NotOwn
<1>7. AuthInv
  BY <1>1, <1>3, <1>6 DEF AuthInv, Terminals
<1>8. HoldInv /\ GoneInv
  BY <1>1, <1>3 DEF HoldInv, GoneInv, Receipts
<1>9. LastInv /\ EndInv
  BY <1>1, <1>3 DEF LastInv, EndInv, Receipts, Terminals
<1> QED
  BY <1>4, <1>5, <1>7, <1>8, <1>9 DEF PubInv

LEMMA PubKept ==
  ASSUME PubInv, [Next]_vars
  PROVE  PubInv'
  BY TypeKept, OrderKept, AuthKept, HoldKept, GoneKept, LastKept, EndKept DEF PubInv

\* What the events of a publication say is true, however many calls fail or are
\* interrupted, whatever other programs do to the directory, and after a loss of
\* power: the intent comes before the file, a denial means that no name leads to
\* it, success is durable while nobody meddles, there is one receipt and one end.
THEOREM LedgerTellsTrue == Spec => []LedgerTellsTheEffect
<1>1. Init => PubInv
  BY InitPub
<1>2. PubInv /\ [Next]_vars => PubInv'
  BY PubKept
<1>3. PubInv => LedgerTellsTheEffect
  BY LedgerIsRight
<1> QED
  BY <1>1, <1>2, <1>3, PTL DEF Spec

-----------------------------------------------------------------------------
(* The publication keeps its contract. *)

\* A step changes what is on record of the intent or of the receipt only by
\* adding it, and then leaves the directory alone.
LEMMA StepTells ==
  ASSUME PubInv, [Next]_vars
  PROVE  \/ Intents' = Intents /\ Receipts' = Receipts
         \/ Intents = {} /\ Intents' # {} /\ Receipts' = Receipts /\ (Exists' <=> Exists)
         \/ /\ Intents # {} /\ Intents' = Intents /\ (Exists' <=> Exists)
            /\ Receipts = {} /\ Receipts' # {}
<1>0. /\ TypeInv
      /\ ctl.at \notin Settled \cup Closing => Receipts = {}
      /\ ctl.at \in {"shadow", "decide", "intent"} => Intents = {}
      /\ ctl.at \in {"open", "create"} \cup Middles \cup Backs => Intents # {}
      /\ ctl.at \in Backs \cup {"conclude"} => ctl.err # "none"
  BY DEF PubInv, EndInv, OrderInv, AuthInv, Authorized
<1>a. UNCHANGED ledger => Intents' = Intents /\ Receipts' = Receipts
  BY <1>0, LedgerStays, RecordStays
<1>b. ASSUME UNCHANGED <<disk, stable>>, ctl'.learned = ctl.learned
      PROVE  Exists' <=> Exists
  BY <1>b DEF Exists, OwnAt
<1>1. CASE Raises
  BY <1>1, <1>0, <1>a, RaisesMeans DEF EffectStep
<1>2. CASE ObserveShadow
  BY <1>0, <1>a, <1>b, <1>2, ObserveShadowMeans DEF Adds, Intents, Receipts, SameHold, Went, Failed
<1>3. CASE Decide
  BY <1>0, <1>a, <1>b, <1>3, DecideMeans DEF Adds, Intents, Receipts, SameHold, Went, Failed
<1>4. CASE RecordIntent
  BY <1>0, <1>a, <1>b, <1>4, RecordIntentMeans DEF Adds, Intents, Receipts, SameHold, Went, Failed
<1>5. CASE AssertFresh
  BY <1>5, <1>0, <1>a, AssertFreshMeans DEF EffectStep
<1>6. CASE OpenParent
  BY <1>6, <1>0, <1>a, OpenParentMeans DEF EffectStep
<1>7. CASE CreateStaged
  BY <1>7, <1>0, <1>a, CreateStagedMeans DEF EffectStep
<1>8. CASE WriteStaged
  BY <1>8, <1>0, <1>a, WriteStagedMeans DEF EffectStep
<1>9. CASE CheckStaged
  BY <1>9, <1>0, <1>a, CheckStagedMeans DEF EffectStep
<1>10. CASE Unstage
  BY <1>10, <1>0, <1>a, UnstageMeans DEF EffectStep
<1>11. CASE SyncParent
  BY <1>11, <1>0, <1>a, SyncParentMeans DEF EffectStep
<1>12. CASE RecordArtifact
  BY <1>12, <1>0, <1>a, RecordArtifactMeans DEF EffectStep
<1>13. CASE LinkFinal
  BY <1>13, <1>0, <1>a, LinkFinalMeans DEF EffectStep
<1>14. CASE CheckLinked
  BY <1>14, <1>0, <1>a, CheckLinkedMeans DEF EffectStep
<1>15. CASE UnlinkStaged
  BY <1>15, <1>0, <1>a, UnlinkStagedMeans DEF EffectStep
<1>16. CASE CheckUnlinked
  BY <1>16, <1>0, <1>a, CheckUnlinkedMeans DEF EffectStep
<1>17. CASE UnlinkFinal
  BY <1>17, <1>0, <1>a, UnlinkFinalMeans DEF EffectStep
<1>18. CASE Verify
  BY <1>18, <1>0, <1>a, VerifyMeans DEF EffectStep
<1>19. CASE UndoFinal
  BY <1>0, <1>a, <1>19, CleanupPays DEF EffectStep
<1>20. CASE UndoStaged
  BY <1>0, <1>a, <1>20, CleanupPays DEF EffectStep
<1>21. CASE RecordFailure
  <2>1. ctl.err # "none"
    BY <1>0, <1>21 DEF RecordFailure
  <2> QED
    BY <1>0, <1>a, <1>b, <1>21, <2>1, RecordFailureMeans DEF Adds, Intents, Receipts, SameHold, Closed
<1>22. CASE RecordSuccess
  BY <1>0, <1>a, <1>b, <1>22, RecordSuccessMeans DEF Adds, Intents, Receipts, SameHold, Went, Failed
<1>23. CASE BuildFails
  BY <1>23, <1>0, <1>a, BuildFailsMeans DEF EffectStep
<1>24. CASE TakeBack
  BY <1>0, <1>a, <1>24, CleanupPays DEF EffectStep
<1>25. CASE RecordTakenBack
  <2>1. ctl.err # "none"
    BY <1>0, <1>25 DEF RecordTakenBack
  <2> QED
    BY <1>0, <1>a, <1>b, <1>25, <2>1, RecordTakenBackMeans DEF Adds, Intents, Receipts, SameHold, Closed
<1>26. CASE TakenBackSilently
  BY <1>26, <1>0, <1>a, TakenBackSilentlyMeans DEF EffectStep
<1>27. CASE Recheck
  BY <1>27, <1>0, <1>a, RecheckMeans DEF EffectStep
<1>28. CASE RecordSucceeded
  BY <1>0, <1>a, <1>b, <1>28, RecordSucceededMeans DEF Adds, Intents, Receipts, SameHold, Went, Failed
<1>29. CASE Conclude
  <2>1. ctl.err # "none"
    BY <1>0, <1>29 DEF Conclude
  <2> QED
    BY <1>0, <1>a, <1>b, <1>29, <2>1, ConcludeMeans DEF Adds, Intents, Receipts, SameHold, Closed
<1>30. CASE Meddles
  BY <1>30, <1>0, <1>a, MeddlesMean DEF EffectStep
<1>31. CASE LosePower
  BY <1>31, <1>0, <1>a, LosePowerMeans DEF EffectStep
<1>32. CASE UNCHANGED vars
  BY <1>32, <1>0, <1>a DEF vars, EffectStep
<1> QED
  BY <1>1, <1>2, <1>3, <1>4, <1>5, <1>6, <1>7, <1>8, <1>9, <1>10, <1>11, <1>12, <1>13,
     <1>14, <1>15, <1>16, <1>17, <1>18, <1>19, <1>20, <1>21, <1>22, <1>23, <1>24, <1>25,
     <1>26, <1>27, <1>28, <1>29, <1>30, <1>31, <1>32
    DEF Next, Controller, Environment, Meddles


LEMMA StepKeepsContract ==
  ASSUME PubInv, PubInv', [Next]_vars
  PROVE  [Contract!Next]_(Contract!vars)
<1>0. /\ \/ Receipts = {} /\ Receipt = "none"
         \/ Receipts = {Receipt} /\ Receipt \in Verdicts
      /\ Receipts \cap {"failed", "cancelled"} # {} => ~Exists
      /\ Exists => Intents # {}
  BY ReceiptIs DEF PubInv, OrderInv, Tally, GoneInv, AuthInv, Authorized
<1>1. /\ \/ Receipts' = {} /\ Receipt' = "none"
         \/ Receipts' = {Receipt'} /\ Receipt' \in Verdicts
      /\ Receipts' \cap {"failed", "cancelled"} # {} => ~Exists'
      /\ Exists' => Intents' # {}
  <2>1. TypeInv' /\ Once'
    BY DEF PubInv, OrderInv, Tally
  <2>2. Receipts' \subseteq Verdicts /\ \A a, b \in Receipts' : a = b
    <3>1. \A i \in DOMAIN ledger' : ledger'[i] \in Events
      BY <2>1, ElementOfSeq DEF TypeInv
    <3>2. \A e \in Events : e.type = "receipt" => e.value \in Verdicts
      BY DEF Events
    <3>3. Receipts' \subseteq Verdicts
      BY <3>1, <3>2 DEF Receipts, Recorded
    <3>4. \A a, b \in Receipts' : a = b
      BY <2>1, Zenon DEF Once, Receipts, Recorded
    <3> QED
      BY <3>3, <3>4
  <2>3. Receipts' # {} => Receipt' \in Receipts'
    BY Zenon DEF Receipt, Receipts
  <2>4. Receipts' = {} => Receipt' = "none"
    BY DEF Receipt, Receipts
  <2>5. /\ Receipts' \cap {"failed", "cancelled"} # {} => ~Exists'
        /\ Exists' => Intents' # {}
    BY DEF PubInv, GoneInv, AuthInv, Authorized
  <2> QED
    BY <2>2, <2>3, <2>4, <2>5
<1>2. Exists \in BOOLEAN /\ Exists' \in BOOLEAN
  BY DEF Exists
<1>3. CASE Intents' = Intents /\ Receipts' = Receipts
  <2>1. Receipt' = Receipt
    BY <1>0, <1>1, <1>3
  <2>2. (Intents' # {}) = (Intents # {})
    BY <1>3
  <2>3. CASE Exists'
    <3>1. Exists' = TRUE /\ Intents # {} /\ Receipt \notin {"failed", "cancelled"}
      BY <1>0, <1>1, <1>3, <2>1, <2>3
    <3>2. Contract!Appear
      BY <2>1, <2>2, <3>1 DEF Contract!Appear, Contract!Denials, Intents
    <3> QED
      BY <3>2 DEF Contract!Next
  <2>4. CASE ~Exists'
    <3>1. Exists' = FALSE
      BY <2>4
    <3>2. Contract!Vanish
      BY <2>1, <2>2, <3>1 DEF Contract!Vanish, Intents
    <3> QED
      BY <3>2 DEF Contract!Next
  <2> QED
    BY <2>3, <2>4
<1>4. CASE Intents = {} /\ Intents' # {} /\ Receipts' = Receipts /\ (Exists' <=> Exists)
  <2>1. Receipt' = Receipt /\ Exists' = Exists
    BY <1>0, <1>1, <1>2, <1>4
  <2>2. Contract!Intend
    BY <1>4, <2>1 DEF Contract!Intend, Intents
  <2> QED
    BY <2>2 DEF Contract!Next
<1>5. CASE /\ Intents # {} /\ Intents' = Intents /\ (Exists' <=> Exists)
           /\ Receipts = {} /\ Receipts' # {}
  <2>1. /\ Receipt = "none" /\ Receipt' \in Verdicts /\ Exists' = Exists
        /\ Receipt' \in {"failed", "cancelled"} => ~Exists
    BY <1>0, <1>1, <1>2, <1>5
  <2>2. Contract!Report(Receipt')
    BY <1>5, <2>1 DEF Contract!Report, Contract!Denials, Intents
  <2>3. Receipt' \in Contract!Verdicts
    BY <2>1 DEF Verdicts, Contract!Verdicts
  <2> QED
    BY <2>2, <2>3 DEF Contract!Next
<1> QED
  BY <1>3, <1>4, <1>5, StepTells

LEMMA InitKeepsContract ==
  ASSUME Init
  PROVE  Contract!Init
<1>1. Recorded("intent") = {} /\ Recorded("receipt") = {}
  BY DEF Init, Recorded
<1>2. Exists = FALSE
  <2>1. NothingYet
    BY InitPub DEF PubInv, AuthInv, Init
  <2> QED
    BY <2>1, NothingMeans
<1> QED
  BY <1>1, <1>2 DEF Contract!Init, Receipt

\* The publication implements its contract: the file appears after its intent is
\* on record and never after a denial, the verdict is written once and never
\* changed, and a denial is written only when no name leads to the file.
THEOREM PublicationKeepsContract == Spec => KeepsContract
<1>1. Init => PubInv
  BY InitPub
<1>2. PubInv /\ [Next]_vars => PubInv'
  BY PubKept
<1>3. Init => Contract!Init
  BY InitKeepsContract
<1>4. PubInv /\ PubInv' /\ [Next]_vars => [Contract!Next]_(Contract!vars)
  BY StepKeepsContract
<1> QED
  BY <1>1, <1>2, <1>3, <1>4, PTL DEF Spec, KeepsContract, Contract!Spec

-----------------------------------------------------------------------------
(* The inspection. *)

LEMMA CleanupIsDisturbed ==
  ASSUME TypeInv, Unstage \/ LinkFinal \/ UnlinkFinal \/ UndoFinal \/ UndoStaged \/ TakeBack
  PROVE  faults' = 0 => faults = 0
<1>1. UNCHANGED faults \/ Pays(1)
  BY DEF Unstage, LinkFinal, UnlinkFinal, UndoFinal, UndoStaged, TakeBack, Undo
<1> QED
  BY <1>1, PaysMeans

LEMMA CalmKept ==
  ASSUME PubInv, CalmInv, [Next]_vars
  PROVE  CalmInv'
<1>0. /\ TypeInv /\ disk \in Disks /\ CalmInv
      /\ ctl.at \notin Settled \cup Closing => Receipts = {}
      /\ ctl.at \in Settled => Receipts = {"succeeded"}
      /\ ctl.at \notin Closing => Terminals = {}
      /\ ctl.at \in {"shadow", "decide", "intent"} => Intents = {}
      /\ ctl.at \in {"shadow", "decide"} => Decisions = {}
      /\ ctl.at \in Backs \cup {"conclude"} => ctl.err # "none"
      /\ ctl.at \in {"decide", "fresh"} => enforcing
      /\ ctl.at = "fresh" => Intents # {} /\ Permitted
      /\ ctl.at \in Settled => row /\ Intents # {} /\ (enforcing => Permitted)
      /\ ctl.at \in {"verify", "receipt"} \cup Settled => disk.whole
  BY DEF PubInv, EndInv, TypeInv, OrderInv, AuthInv, Authorized, LastInv, Sound
<1>a. UNCHANGED ledger =>
        /\ Decisions' = Decisions /\ Intents' = Intents
        /\ Receipts' = Receipts /\ Terminals' = Terminals /\ (Permitted' <=> Permitted)
  BY <1>0, LedgerStays, RecordStays
<1>b. \A c \in 0 .. 2 : Pays(c) => (faults' = 0 => faults = 0 /\ c = 0)
  BY <1>0, PaysMeans
<1>c. UNCHANGED disk => \A f, s : Directory(f, s)' <=> Directory(f, s)
  BY DEF Directory
<1>d. /\ Links \in Nat
      /\ Links = (IF disk.at["final"] = "own" THEN 1 ELSE 0)
                    + (IF disk.at["staged"] = "own" THEN 1 ELSE 0) + disk.alias
  BY <1>0, LinksMeans DEF Links
<1>e. /\ Quiet <=> faults = 0 /\ meddles = 0 /\ ctl.at # "dead"
      /\ Quiet' <=> faults' = 0 /\ meddles' = 0 /\ ctl'.at # "dead"
  BY DEF Quiet, Alive
<1>f. Names = {"final", "staged"} /\ Permitted = (Decisions = {"permit"}) /\ Permitted' = (Decisions' = {"permit"})
  BY DEF Names, Permitted, Decisions
<1>1. CASE Raises
  BY <1>1, <1>0, <1>a, <1>b, <1>c, <1>e, RaisesMeans DEF EffectStep, CalmInv, Went, Failed, Handler, Closed
<1>2. CASE ObserveShadow
  BY <1>0, <1>a, <1>b, <1>c, <1>e, <1>f, <1>2, ObserveShadowMeans, WritesMean DEF Adds, Decisions, Intents, Receipts, Terminals, EffectStep, CalmInv, Went, Failed, Handler, Closed
<1>3. CASE Decide
  <2>1. PICK d \in {"permit", "deny", "failed", "interrupted"}, w \in Writes :
          /\ faults' = 0 => faults = 0 /\ w.cost = 0 /\ d # "interrupted"
          /\ Adds("decision", d, w.kept)
          /\ \/ d = "permit" /\ w.kept /\ Went("intent")
             \/ d \in {"deny", "failed"} /\ Failed("blocked")
             \/ (d = "interrupted" \/ ~Accepted(w)) /\ \E kind \in Kinds : Failed(kind)
    BY <1>0, <1>3, DecideMeans
  <2>2. /\ ctl.at = "decide" /\ UNCHANGED <<enforcing, disk, stable, row, meddles>>
        /\ Intents' = Intents /\ Receipts' = Receipts /\ Terminals' = Terminals
        /\ w.kept => Decisions' = {d}
    BY <1>0, <1>3, <2>1, DecideMeans DEF Adds, Decisions, Intents, Receipts, Terminals
  <2> SUFFICES ASSUME Quiet' PROVE CalmInv'
    BY DEF CalmInv
  <2>3. Quiet /\ w.kept /\ Accepted(w) /\ d # "interrupted"
    BY <1>0, <1>e, <2>1, <2>2, WritesMean
  <2>4. CASE Went("intent")
    BY <1>0, <1>c, <2>2, <2>3, <2>4 DEF CalmInv, Went
  <2>5. CASE d \in {"deny", "failed"} /\ Failed("blocked")
    <3>1. ctl'.at = "conclude" /\ ctl'.err = "blocked"
      BY <2>2, <2>5 DEF Failed, Handler
    <3>2. Decisions' # {"permit"}
      BY <2>2, <2>3, <2>5
    <3> QED
      BY <1>0, <1>f, <2>2, <2>3, <3>1, <3>2 DEF CalmInv
  <2> QED
    BY <2>1, <2>3, <2>4, <2>5
<1>4. CASE RecordIntent
  BY <1>0, <1>a, <1>b, <1>c, <1>e, <1>f, <1>4, RecordIntentMeans, WritesMean DEF Adds, Decisions, Intents, Receipts, Terminals, EffectStep, CalmInv, Went, Failed, Handler, Closed
<1>5. CASE AssertFresh
  BY <1>5, <1>0, <1>a, <1>b, <1>c, <1>e, AssertFreshMeans DEF EffectStep, CalmInv, Went, Failed, Handler, Closed
<1>6. CASE OpenParent
  BY <1>0, <1>a, <1>b, <1>c, <1>e, <1>d, <1>6, OpenParentMeans DEF Directory, EffectStep, CalmInv, Went, Failed, Handler, Closed
<1>7. CASE CreateStaged
  <2> SUFFICES ASSUME Quiet' PROVE CalmInv'
    BY DEF CalmInv
  <2>1. ctl.at = "create" /\ EffectStep
    BY <1>0, <1>7, CreateStagedMeans
  <2>2. /\ faults = 0 /\ ~Pays(1)
    <3>1. UNCHANGED faults \/ Pays(1)
      BY <1>0, <1>7, CreateStagedMeans
    <3> QED
      BY <1>b, <1>e, <3>1
  <2>3. Quiet /\ Directory("none", "none") /\ ~row
    BY <1>0, <1>e, <2>1, <2>2 DEF EffectStep, CalmInv
  <2>4. \A n \in Names : disk.at[n] = "none"
    BY <1>f, <2>3 DEF Directory
  <2>5. ctl'.at = "write" /\ Directory("none", "own")'
    BY <1>0, <1>7, <2>2, <2>3, <2>4, CreateStagedMeans DEF Directory
  <2> QED
    BY <2>1, <2>3, <2>5 DEF CalmInv, EffectStep
<1>8. CASE WriteStaged
  BY <1>0, <1>a, <1>b, <1>c, <1>e, <1>d, <1>8, WriteStagedMeans DEF Directory, EffectStep, CalmInv, Went, Failed, Handler, Closed
<1>9. CASE CheckStaged
  <2>1. ctl.at = "stage_sync" /\ EffectStep /\ UNCHANGED <<disk, faults>>
    BY <1>0, <1>9, CheckStagedMeans
  <2> SUFFICES ASSUME Quiet' PROVE CalmInv'
    BY DEF CalmInv
  <2>2. Quiet /\ Directory("none", "own") /\ ~row
    BY <1>0, <1>e, <2>1 DEF EffectStep, CalmInv
  <2>3. disk.at["staged"] = "own" /\ Links = 1 /\ ~disk.swapped
    BY <1>d, <2>2 DEF Directory
  <2>4. ctl'.at = "parent_sync"
    BY <1>0, <1>9, <2>3, CheckStagedMeans
  <2> QED
    BY <1>c, <2>1, <2>2, <2>4 DEF EffectStep, CalmInv
<1>10. CASE Unstage
  BY <1>0, <1>a, <1>b, <1>c, <1>e, <1>10, CleanupIsDisturbed, UnstageMeans DEF EffectStep, CalmInv, Went, Failed, Handler, Closed
<1>11. CASE SyncParent
  BY <1>11, <1>0, <1>a, <1>b, <1>c, <1>e, SyncParentMeans DEF EffectStep, CalmInv, Went, Failed, Handler, Closed
<1>12. CASE RecordArtifact
  BY <1>0, <1>a, <1>b, <1>c, <1>e, <1>12, RecordArtifactMeans, WritesMean DEF EffectStep, CalmInv, Went, Failed, Handler, Closed
<1>13. CASE LinkFinal
  BY <1>0, <1>a, <1>b, <1>c, <1>e, <1>d, <1>13, CleanupIsDisturbed, LinkFinalMeans DEF Directory, EffectStep, CalmInv, Went, Failed, Handler, Closed
<1>14. CASE CheckLinked
  BY <1>0, <1>a, <1>b, <1>c, <1>e, <1>d, <1>14, CheckLinkedMeans DEF Directory, EffectStep, CalmInv, Went, Failed, Handler, Closed
<1>15. CASE UnlinkStaged
  BY <1>0, <1>a, <1>b, <1>c, <1>e, <1>d, <1>15, UnlinkStagedMeans DEF Directory, EffectStep, CalmInv, Went, Failed, Handler, Closed
<1>16. CASE CheckUnlinked
  BY <1>0, <1>a, <1>b, <1>c, <1>e, <1>d, <1>16, CheckUnlinkedMeans DEF Directory, EffectStep, CalmInv, Went, Failed, Handler, Closed
<1>17. CASE UnlinkFinal
  BY <1>0, <1>a, <1>b, <1>c, <1>e, <1>17, CleanupIsDisturbed, UnlinkFinalMeans DEF EffectStep, CalmInv, Went, Failed, Handler, Closed
<1>18. CASE Verify
  BY <1>0, <1>a, <1>b, <1>c, <1>e, <1>d, <1>18, VerifyMeans DEF Directory, Matches, EffectStep, CalmInv, Went, Failed, Handler, Closed
<1>19. CASE UndoFinal
  BY <1>0, <1>a, <1>b, <1>c, <1>e, <1>19, CleanupPays, CleanupIsDisturbed, UndoFinalMeans DEF EffectStep, CalmInv, Went, Failed, Handler, Closed
<1>20. CASE UndoStaged
  BY <1>0, <1>a, <1>b, <1>c, <1>e, <1>20, CleanupPays, CleanupIsDisturbed, UndoStagedMeans DEF EffectStep, CalmInv, Went, Failed, Handler, Closed
<1>21. CASE RecordFailure
  <2>1. ctl.err # "none"
    BY <1>0, <1>21 DEF RecordFailure
  <2> QED
    BY <1>0, <1>a, <1>b, <1>c, <1>e, <1>21, <2>1, RecordFailureMeans, WritesMean DEF EffectStep, CalmInv, Went, Failed, Handler, Closed
<1>22. CASE RecordSuccess
  BY <1>0, <1>a, <1>b, <1>c, <1>e, <1>f, <1>22, RecordSuccessMeans, WritesMean DEF Adds, Decisions, Intents, Receipts, Terminals, EffectStep, CalmInv, Went, Failed, Handler, Closed
<1>23. CASE BuildFails
  BY <1>23, <1>0, <1>a, <1>b, <1>c, <1>e, BuildFailsMeans DEF EffectStep, CalmInv, Went, Failed, Handler, Closed
<1>24. CASE TakeBack
  BY <1>0, <1>a, <1>b, <1>c, <1>e, <1>24, CleanupPays, CleanupIsDisturbed, TakeBackMeans DEF EffectStep, CalmInv, Went, Failed, Handler, Closed
<1>25. CASE RecordTakenBack
  <2>1. ctl.err # "none"
    BY <1>0, <1>25 DEF RecordTakenBack
  <2> QED
    BY <1>0, <1>a, <1>b, <1>c, <1>e, <1>25, <2>1, RecordTakenBackMeans, WritesMean DEF EffectStep, CalmInv, Went, Failed, Handler, Closed
<1>26. CASE TakenBackSilently
  BY <1>26, <1>0, <1>a, <1>b, <1>c, <1>e, TakenBackSilentlyMeans DEF EffectStep, CalmInv, Went, Failed, Handler, Closed
<1>27. CASE Recheck
  BY <1>0, <1>a, <1>b, <1>c, <1>e, <1>d, <1>27, RecheckMeans DEF Directory, Matches, EffectStep, CalmInv, Went, Failed, Handler, Closed
<1>28. CASE RecordSucceeded
  BY <1>0, <1>a, <1>b, <1>c, <1>e, <1>f, <1>28, RecordSucceededMeans, WritesMean DEF Adds, Decisions, Intents, Receipts, Terminals, EffectStep, CalmInv, Went, Failed, Handler, Closed, EndsBlocked, EndsStale, EndsPublished, SuccessEnd
<1>29. CASE Conclude
  <2>1. ctl.at = "conclude" /\ ctl.err # "none" /\ ctl.err \in Errors \ {"none"} /\ ctl.uncertain \in Doubts
    BY <1>0, <1>29 DEF Conclude, TypeInv, Ctls
  <2>2. ctl.err = "stale" => FailureEnd = Ended("BLOCKED", "freshness", "unsaid")
    BY <2>1, FailureEndMeans
  <2> QED
    BY <1>0, <1>a, <1>b, <1>c, <1>e, <1>f, <1>29, <2>1, <2>2, ConcludeMeans, WritesMean
      DEF Adds, Decisions, Intents, Receipts, Terminals, EffectStep, CalmInv, Went, Failed, Handler, Closed, EndsBlocked, EndsStale, EndsPublished
<1>30. CASE Meddles
  BY <1>e, <1>30, <1>0, MeddlesMean DEF CalmInv
<1>31. CASE LosePower
  BY <1>0, <1>e, <1>31, LosePowerMeans DEF CalmInv, Went
<1>32. CASE UNCHANGED vars
  BY <1>32, <1>0, <1>a, <1>c, <1>e DEF vars, CalmInv, EndsBlocked, EndsStale, EndsPublished
<1> QED
  BY <1>1, <1>2, <1>3, <1>4, <1>5, <1>6, <1>7, <1>8, <1>9, <1>10, <1>11, <1>12, <1>13,
     <1>14, <1>15, <1>16, <1>17, <1>18, <1>19, <1>20, <1>21, <1>22, <1>23, <1>24, <1>25,
     <1>26, <1>27, <1>28, <1>29, <1>30, <1>31, <1>32
    DEF Next, Controller, Environment, Meddles


LEMMA InitCalm ==
  ASSUME Init
  PROVE  CalmInv
<1>1. ctl.at = "shadow" /\ Directory("none", "none") /\ ~row
  BY DEF Init, Directory, Names
<1> QED
  BY <1>1 DEF CalmInv

LEMMA InspectionFinds ==
  ASSUME PubInv
  PROVE  NoSilentLeftover
<1>1. /\ \/ Receipts = {} /\ Receipt = "none"
         \/ Receipts = {Receipt} /\ Receipt \in Verdicts
      /\ \/ Terminals = {} /\ Terminal = Ended("RUNNING", "none", "unsaid")
         \/ Terminals = {Terminal} /\ Terminal \in Ends
  BY ReceiptIs, TerminalIs DEF PubInv, OrderInv, Tally
<1> SUFFICES ASSUME Exists, Issues = {}, Terminal.status \notin {"SUCCEEDED", "QUARANTINED"}
             PROVE  FALSE
  BY DEF NoSilentLeftover
<1>2. Intents # {} /\ (enforcing => Permitted)
  BY DEF PubInv, AuthInv, Authorized
<1>3. PublicationExpected
  BY <1>2 DEF PublicationExpected, Intents
<1>4. FreshnessStop \/ Receipt # "none"
  <2>1. ~(PublicationExpected /\ ~FreshnessStop /\ Receipt = "none")
    <3>1. "action_missing" \notin Issues
      OBVIOUS
    <3> QED
      BY <3>1 DEF Issues
  <2> QED
    BY <1>3, <2>1
<1>5. ~FreshnessStop
  <2>1. ASSUME FreshnessStop PROVE FALSE
    <3>1. Terminal = Ended("BLOCKED", "freshness", "unsaid")
      BY <2>1 DEF FreshnessStop
    <3>2. Terminal.status = "BLOCKED" /\ Terminal.phase = "freshness"
      BY <3>1 DEF Ended
    <3>3. Terminals = {Terminal}
      BY <1>1, <3>2 DEF Ended
    <3>4. NothingYet
      BY <3>2, <3>3 DEF PubInv, AuthInv
    <3> QED
      BY <3>4, NothingMeans
  <2> QED
    BY <2>1
<1>6. TerminalFits
  <2>1. "terminal_mismatch" \notin Issues
    OBVIOUS
  <2> QED
    BY <2>1 DEF Issues
<1>7. Receipt # "succeeded"
  <2>1. "terminal_invalid" \notin Issues
    OBVIOUS
  <2> QED
    BY <2>1 DEF Issues
<1>8. Receipt # "unknown"
  BY <1>6 DEF TerminalFits
<1>9. Receipt \notin {"failed", "cancelled"}
  BY <1>1 DEF PubInv, GoneInv
<1> QED
  BY <1>1, <1>4, <1>5, <1>7, <1>8, <1>9 DEF Verdicts

LEMMA InspectionAccepts ==
  ASSUME PubInv, CalmInv
  PROVE  UndisturbedIsClean
<1>1. /\ \/ Receipts = {} /\ Receipt = "none"
         \/ Receipts = {Receipt} /\ Receipt \in Verdicts
      /\ \/ Terminals = {} /\ Terminal = Ended("RUNNING", "none", "unsaid")
         \/ Terminals = {Terminal} /\ Terminal \in Ends
  BY ReceiptIs, TerminalIs DEF PubInv, OrderInv, Tally
<1> SUFFICES ASSUME ctl.at = "end", faults = 0, meddles = 0
             PROVE  Issues = {}
  BY DEF UndisturbedIsClean
<1>2. EndsBlocked \/ EndsStale \/ EndsPublished
  BY DEF CalmInv, Quiet, Alive
<1>3. CASE EndsBlocked
  <2>1. enforcing /\ ~Permitted /\ Recorded("intent") = {} /\ ~row /\ Receipt = "none" /\ ~PublicationExpected
    BY <1>1, <1>3 DEF EndsBlocked, Intents, PublicationExpected
  <2>2. TerminalFits
    BY <2>1 DEF TerminalFits
  <2> QED
    BY <2>1, <2>2 DEF Issues
<1>4. CASE EndsStale
  <2>1. enforcing /\ Permitted /\ Recorded("intent") # {} /\ ~row /\ Receipt = "none" /\ FreshnessStop
    BY <1>1, <1>4 DEF EndsStale, Intents, FreshnessStop
  <2>2. TerminalFits
    BY <2>1 DEF TerminalFits
  <2> QED
    BY <2>1, <2>2 DEF Issues
<1>5. CASE EndsPublished
  <2>1. /\ (enforcing => Permitted) /\ Recorded("intent") # {} /\ row /\ Receipt = "succeeded"
        /\ Terminal = Ended("SUCCEEDED", "result", "yes")
    BY <1>1, <1>5 DEF EndsPublished, Intents
  <2>2. Terminal.status = "SUCCEEDED" /\ Terminal.observed = "yes"
    BY <2>1 DEF Ended
  <2>3. TerminalFits
    BY <2>1, <2>2 DEF TerminalFits
  <2> QED
    BY <2>1, <2>2, <2>3 DEF Issues
<1> QED
  BY <1>2, <1>3, <1>4, <1>5

\* The inspection raises an issue where one is due, and none where none is: a
\* file left behind by a run that neither succeeded nor was quarantined does not
\* pass it, and what the controller writes undisturbed does.
THEOREM InspectionsAreRight == Spec => []InspectionIsRight
<1>1. Init => PubInv /\ CalmInv
  BY InitPub, InitCalm
<1>2. PubInv /\ CalmInv /\ [Next]_vars => (PubInv /\ CalmInv)'
  BY PubKept, CalmKept
<1>3. PubInv /\ CalmInv => InspectionIsRight
  BY InspectionFinds, InspectionAccepts DEF InspectionIsRight
<1> QED
  BY <1>1, <1>2, <1>3, PTL DEF Spec

=============================================================================
