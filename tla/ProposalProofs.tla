--------------------------- MODULE ProposalProofs ---------------------------
(***************************************************************************)
(* Proofs about ProposalBinding and ProposalInspection: the binders keep   *)
(* the contract of a write-once register and converge, and an inspection   *)
(* that reads the store's files while they change reports what is true,    *)
(* for every number of binders, wishes, faults, repeated calls, foreign    *)
(* events and inspections.                                                 *)
(***************************************************************************)
EXTENDS ProposalInspection, SequenceTheorems, TLAPS

-----------------------------------------------------------------------------
(* The three ledgers a binder may go on from.                              *)

Just == <<Created>>
WithSelection(w) == <<Created, Selection(w)>>
Acceptances(w) == {Just, WithSelection(w), Lineage(w)}

LEMMA EventFields ==
  ASSUME NEW w
  PROVE  /\ Created.type = "status" /\ Created.status = "created" /\ Created.of = NoWish
         /\ Selection(w).type = "selection" /\ Selection(w).status = NoStatus /\ Selection(w).of = w
         /\ Binding(w).type = "binding" /\ Binding(w).status = NoStatus /\ Binding(w).of = w
         /\ NoStatus # "created"
  BY DEF Created, Selection, Binding, NoStatus

LEMMA LedgerFields ==
  ASSUME NEW w
  PROVE  /\ Len(Just) = 1 /\ DOMAIN Just = {1} /\ Just[1] = Created
         /\ Len(WithSelection(w)) = 2 /\ DOMAIN WithSelection(w) = {1, 2}
         /\ WithSelection(w)[1] = Created /\ WithSelection(w)[2] = Selection(w)
         /\ Len(Lineage(w)) = 3 /\ DOMAIN Lineage(w) = {1, 2, 3}
         /\ Lineage(w)[1] = Created /\ Lineage(w)[2] = Selection(w) /\ Lineage(w)[3] = Binding(w)
  BY DEF Just, WithSelection, Lineage

LEMMA RowsOfAcceptances ==
  ASSUME NEW w
  PROVE  /\ Rows(Just, "status") = {1} /\ Rows(Just, "selection") = {} /\ Rows(Just, "binding") = {}
         /\ Rows(WithSelection(w), "status") = {1} /\ Rows(WithSelection(w), "selection") = {2}
         /\ Rows(WithSelection(w), "binding") = {}
         /\ Rows(Lineage(w), "status") = {1} /\ Rows(Lineage(w), "selection") = {2}
         /\ Rows(Lineage(w), "binding") = {3}
         /\ Bearing(Just) = {1} /\ Bearing(WithSelection(w)) = {1} /\ Bearing(Lineage(w)) = {1}
  BY EventFields, LedgerFields DEF Rows, Bearing

LEMMA AcceptancesAreAccepted ==
  ASSUME NEW w, NEW h \in Acceptances(w)
  PROVE  Acceptable(h, w)
<1>1. Just # <<>> /\ WithSelection(w) # <<>> /\ Lineage(w) # <<>>
  BY LedgerFields
<1>2. CASE h = Just
  BY <1>1, <1>2, EventFields, LedgerFields, RowsOfAcceptances DEF Acceptable, AtMostOne
<1>3. CASE h = WithSelection(w)
  BY <1>1, <1>3, EventFields, LedgerFields, RowsOfAcceptances DEF Acceptable, AtMostOne
<1>4. CASE h = Lineage(w)
  BY <1>1, <1>4, EventFields, LedgerFields, RowsOfAcceptances DEF Acceptable, AtMostOne
<1> QED
  BY <1>2, <1>3, <1>4 DEF Acceptances

LEMMA MissingOfAcceptances ==
  ASSUME NEW w
  PROVE  Missing(Just) = "selection" /\ Missing(WithSelection(w)) = "binding" /\ Missing(Lineage(w)) = "none"
  BY RowsOfAcceptances DEF Missing

LEMMA StatusOfAcceptances ==
  ASSUME NEW w, NEW h \in Acceptances(w)
  PROVE  CurrentStatus(h) = "created"
<1>1. Max({1}) = 1
  BY DEF Max
<1>2. Bearing(h) = {1} /\ h[1] = Created
  BY LedgerFields, RowsOfAcceptances DEF Acceptances
<1> QED
  BY <1>1, <1>2, EventFields DEF CurrentStatus

LEMMA OnlyAcceptancesAreAccepted ==
  ASSUME NEW S, NEW h \in Seq(S), NEW w, Acceptable(h, w)
  PROVE  h \in Acceptances(w)
<1>1. DOMAIN h = 1 .. Len(h) /\ Len(h) \in Nat /\ Len(h) >= 1
  BY DEF Acceptable
<1>2. \A i \in DOMAIN h : i = 1 \/ i \in Rows(h, "selection") \/ i \in Rows(h, "binding")
  BY DEF Acceptable, Rows
<1>3. CASE Rows(h, "selection") = {}
  <2>1. Rows(h, "binding") = {}
    BY <1>3 DEF Acceptable
  <2>2. Len(h) = 1
    <3>1. CASE Len(h) >= 2
      BY <1>1, <1>2, <1>3, <2>1, <3>1
    <3> QED
      BY <1>1, <3>1
  <2>3. h[1] = Created
    BY DEF Acceptable
  <2>4. h = Just
    BY <2>2, <2>3 DEF Just
  <2> QED
    BY <2>4 DEF Acceptances
<1>4. CASE Rows(h, "selection") # {}
  <2>1. PICK s \in Rows(h, "selection") : TRUE
    BY <1>4
  <2>2. Rows(h, "selection") = {s} /\ h[s] = Selection(w)
    BY <2>1 DEF Acceptable, AtMostOne
  <2>3. s # 1 /\ s \in 1 .. Len(h)
    BY <1>1, <2>1, EventFields DEF Acceptable, Rows
  <2>4. CASE Rows(h, "binding") = {}
    <3>1. s = 2 /\ Len(h) = 2
      <4>1. 2 \in DOMAIN h
        BY <1>1, <2>3
      <4>2. s = 2
        BY <1>2, <2>2, <2>4, <4>1
      <4>3. 3 \notin DOMAIN h
        BY <1>2, <2>2, <2>4, <4>2
      <4> QED
        BY <1>1, <4>1, <4>2, <4>3
    <3>2. h[1] = Created /\ h[2] = Selection(w)
      BY <2>2, <3>1 DEF Acceptable
    <3>3. h = WithSelection(w)
      BY <3>1, <3>2 DEF WithSelection
    <3> QED
      BY <3>3 DEF Acceptances
  <2>5. CASE Rows(h, "binding") # {}
    <3>1. PICK b \in Rows(h, "binding") : TRUE
      BY <2>5
    <3>2. Rows(h, "binding") = {b} /\ h[b] = Binding(w) /\ s < b
      BY <2>2, <3>1 DEF Acceptable, AtMostOne
    <3>3. b \in 1 .. Len(h)
      BY <1>1, <3>1 DEF Rows
    <3>4. s = 2 /\ b = 3 /\ Len(h) = 3
      <4>1. 2 \in DOMAIN h /\ 3 \in DOMAIN h
        BY <1>1, <2>3, <3>2, <3>3
      <4>2. s = 2 /\ b = 3
        BY <1>2, <2>2, <3>2, <4>1
      <4>3. 4 \notin DOMAIN h
        BY <1>2, <2>2, <3>2, <4>2
      <4> QED
        BY <1>1, <4>1, <4>2, <4>3
    <3>5. h[1] = Created /\ h[2] = Selection(w) /\ h[3] = Binding(w)
      BY <2>2, <3>2, <3>4 DEF Acceptable
    <3>6. h = Lineage(w)
      BY <3>4, <3>5 DEF Lineage
    <3> QED
      BY <3>6 DEF Acceptances
  <2> QED
    BY <2>4, <2>5
<1> QED
  BY <1>3, <1>4

-----------------------------------------------------------------------------
(* The inductive invariant: what the ledger holds, what every binder has   *)
(* read of it, and what those who were told may rely on.                   *)

Events ==
  ForeignEvents \cup {Created} \cup {Selection(w) : w \in Wishes} \cup {Binding(w) : w \in Wishes}

BindingTypes ==
  /\ run \in {"absent", "proposal", "other"}
  /\ history \in Seq(Events)
  /\ wish \in [Binders -> Wishes]
  /\ pc \in [Binders -> Stages]
  /\ read \in [Binders -> Seq(Events)]
  /\ result \in [Binders -> Results]
  /\ evidence \in [Binders -> SUBSET Wishes]
  /\ faults \in Nat /\ retries \in [Binders -> Nat] /\ foreign \in 0 .. MaxForeign
  /\ \A b \in Binders : pc[b] = "done" <=> result[b] # "none"

\* A run that exists begins with its creation, and no other event of the
\* lineage is anywhere but in its place.
LedgerInv ==
  /\ history = <<>> <=> run = "absent"
  /\ history # <<>> => history[1] = Created
  /\ OneLineage
  /\ Len(history) <= 3 + foreign

\* A binder that has gone on has read a ledger that lacked its next event.
ReadInv ==
  \A b \in Binders :
    /\ Len(read[b]) <= Len(history)
    /\ pc[b] = "selection" => read[b] = Just
    /\ pc[b] = "binding" => read[b] = WithSelection(wish[b])
    /\ pc[b] \in {"confirm", "settle", "reread"} => read[b] \in {Just, WithSelection(wish[b])}

Starts(h, w) == Len(h) >= 3 /\ h[1] = Created /\ h[2] = Selection(w) /\ h[3] = Binding(w)

ToldInv ==
  \A b \in Binders :
    /\ \A w \in evidence[b] : Starts(history, w)
    /\ result[b] = "bound" => wish[b] \in evidence[b]

BindInv == BindingTypes /\ LedgerInv /\ ReadInv /\ ToldInv

LEMMA PrefixMeansStart ==
  ASSUME NEW S, NEW h \in Seq(S), NEW w
  PROVE  IsPrefix(Lineage(w), h) <=> Starts(h, w)
<1>1. \A i \in 1 .. 3 : i = 1 \/ i = 2 \/ i = 3
  OBVIOUS
<1>2. Len(Lineage(w)) = 3 /\ DOMAIN h = 1 .. Len(h) /\ Len(h) \in Nat
  BY LedgerFields
<1>3. CASE Len(h) >= 3
  <2>1. /\ Len(SubSeq(h, 1, 3)) = 3
        /\ \A i \in 1 .. 3 : SubSeq(h, 1, 3)[i] = h[i]
    BY <1>3
  <2> DEFINE T == S \cup {Created, Selection(w), Binding(w)}
             start == SubSeq(h, 1, 3)
             lineage == Lineage(w)
  <2>5. h \in Seq(T) /\ lineage \in Seq(T)
    BY SeqMonotonic DEF Lineage
  <2>6. start \in Seq(T)
    BY <1>2, <1>3, <2>5, SubSeqProperties
  <2> HIDE DEF start, lineage, T
  <2>7. Len(start) = 3 /\ Len(lineage) = 3 /\ \A i \in 1 .. 3 : start[i] = h[i]
    BY <1>2, <2>1 DEF start, lineage
  <2>8. lineage = start <=> \A i \in 1 .. 3 : lineage[i] = start[i]
    BY <2>5, <2>6, <2>7, SeqEqual
  <2>2. Lineage(w) = SubSeq(h, 1, 3) <=> \A i \in 1 .. 3 : Lineage(w)[i] = h[i]
    BY <2>7, <2>8 DEF start, lineage
  <2>3. Lineage(w) = SubSeq(h, 1, 3) <=> Starts(h, w)
    BY <1>1, <1>3, <2>2, LedgerFields DEF Starts
  <2>4. SubSeq(Lineage(w), 1, 3) = Lineage(w)
    BY <1>2, <2>5, <2>7, SubSeqFull DEF lineage
  <2> QED
    BY <1>2, <1>3, <2>3, <2>4 DEF IsPrefix
<1> QED
  BY <1>2, <1>3 DEF IsPrefix, Starts

LEMMA EventsTyped ==
  /\ Created \in Events
  /\ \A w \in Wishes : Selection(w) \in Events /\ Binding(w) \in Events
  /\ ForeignEvents \subseteq Events
  BY DEF Events

LEMMA AcceptancesTyped ==
  ASSUME NEW w \in Wishes
  PROVE  Acceptances(w) \subseteq Seq(Events)
  BY EventsTyped DEF Acceptances, Just, WithSelection, Lineage

LEMMA AppendToAcceptances ==
  ASSUME NEW w \in Wishes
  PROVE  /\ Append(Just, Selection(w)) = WithSelection(w)
         /\ Append(WithSelection(w), Binding(w)) = Lineage(w)
<1>1. /\ Just \in Seq(Events) /\ Selection(w) \in Events /\ Binding(w) \in Events
      /\ WithSelection(w) \in Seq(Events) /\ Lineage(w) \in Seq(Events)
  BY AcceptancesTyped, EventsTyped DEF Acceptances
<1>2. \A i \in 1 .. 2 : i = 1 \/ i = 2
  OBVIOUS
<1>3. \A i \in 1 .. 3 : i = 1 \/ i = 2 \/ i = 3
  OBVIOUS
<1> DEFINE one == Append(Just, Selection(w))
           two == Append(WithSelection(w), Binding(w))
<1>4. one \in Seq(Events) /\ Len(one) = 2 /\ one[1] = Created /\ one[2] = Selection(w)
  BY <1>1, LedgerFields, AppendProperties
<1>5. /\ two \in Seq(Events) /\ Len(two) = 3
      /\ two[1] = Created /\ two[2] = Selection(w) /\ two[3] = Binding(w)
  BY <1>1, LedgerFields, AppendProperties
<1> HIDE DEF one, two
<1>6. one = WithSelection(w)
  BY <1>1, <1>2, <1>4, LedgerFields, SeqEqual
<1>7. two = Lineage(w)
  BY <1>1, <1>3, <1>5, LedgerFields, SeqEqual
<1> QED
  BY <1>6, <1>7 DEF one, two

LEMMA InvariantMeansDurable == BindInv => TypeOK /\ OneLineage /\ EvidenceIsDurable
<1> SUFFICES ASSUME BindInv PROVE TypeOK /\ OneLineage /\ EvidenceIsDurable
  OBVIOUS
<1>1. TypeOK
  BY BindingAssumption DEF BindInv, BindingTypes, LedgerInv, TypeOK
<1>2. EvidenceIsDurable
  BY PrefixMeansStart DEF BindInv, BindingTypes, ToldInv, EvidenceIsDurable
<1> QED
  BY <1>1, <1>2 DEF BindInv, LedgerInv

LEMMA BindInvStarts == Init => BindInv
<1> SUFFICES ASSUME Init PROVE BindInv
  OBVIOUS
<1>1. BindingTypes
  BY BindingAssumption DEF Init, BindingTypes, Stages, Results
<1>2. LedgerInv
  BY DEF Init, LedgerInv, OneLineage
<1>3. ReadInv /\ ToldInv
  BY DEF Init, ReadInv, ToldInv
<1> QED
  BY <1>1, <1>2, <1>3 DEF BindInv

-----------------------------------------------------------------------------
(* What the steps of a call do.                                            *)

\* Refused, sent to append the event that is missing, or told.
Refused(b) == Finish(b, "invalid") /\ UNCHANGED evidence

GoesOn(b) ==
  /\ history \in {Just, WithSelection(wish[b])}
  /\ pc' = [pc EXCEPT ![b] = Missing(history)]
  /\ UNCHANGED <<result, evidence>>

IsTold(b) ==
  /\ history = Lineage(wish[b])
  /\ Finish(b, "bound")
  /\ evidence' = [evidence EXCEPT ![b] = @ \cup {wish[b]}]

LEMMA ContinueOutcomes ==
  ASSUME BindInv, NEW b \in Binders, NEW appended \in {"nothing", "selection", "binding"},
         Continue(b, appended)
  PROVE  /\ read' = [read EXCEPT ![b] = history]
         /\ \/ Refused(b) /\ (history \in Acceptances(wish[b]) /\ run = "proposal" => Missing(history) = appended)
            \/ GoesOn(b)
            \/ IsTold(b)
<1> DEFINE w == wish[b]
<1>1. history \in Seq(Events) /\ w \in Wishes
  BY DEF BindInv, BindingTypes
<1>2. CASE run # "proposal" \/ ~ Acceptable(history, w) \/ Missing(history) = appended
  BY <1>2, AcceptancesAreAccepted DEF Continue, Refused
<1>3. CASE Acceptable(history, w) /\ ~(run # "proposal" \/ Missing(history) = appended)
  <2>1. history \in Acceptances(w)
    BY <1>1, <1>3, OnlyAcceptancesAreAccepted
  <2>2. CASE history = Lineage(w)
    <3>1. Len(history) = 3 /\ history[3].of = w
      BY <2>2, LedgerFields, EventFields
    <3> QED
      BY <1>3, <2>2, <3>1, MissingOfAcceptances DEF Continue, Conclude, IsTold
  <2>3. CASE history \in {Just, WithSelection(w)}
    BY <1>3, <2>3, MissingOfAcceptances DEF Continue, GoesOn
  <2> QED
    BY <2>1, <2>2, <2>3 DEF Acceptances
<1> QED
  BY <1>2, <1>3

\* An event that is appended is the next of the caller's own lineage.
Extends(b) ==
  \/ pc[b] = "selection" /\ history = Just /\ history' = WithSelection(wish[b])
  \/ pc[b] = "binding" /\ history = WithSelection(wish[b]) /\ history' = Lineage(wish[b])

LEMMA AppendOutcomes ==
  ASSUME BindInv, NEW b \in Binders, AppendOnce(b)
  PROVE  /\ pc[b] \in {"selection", "binding"}
         /\ read[b] = IF pc[b] = "selection" THEN Just ELSE WithSelection(wish[b])
         /\ UNCHANGED <<run, wish, read, evidence, retries, foreign>>
         /\ \/ /\ Extends(b)
               /\ \/ NoFault /\ pc' = [pc EXCEPT ![b] = "confirm"] /\ UNCHANGED result
                  \/ Fault /\ pc' = [pc EXCEPT ![b] = "settle"] /\ UNCHANGED result
                  \/ Fault /\ Finish(b, "interrupted")
            \/ /\ UNCHANGED history
               /\ \/ (NoFault => history # read[b]) /\ (NoFault \/ Fault)
                     /\ pc' = [pc EXCEPT ![b] = "settle"] /\ UNCHANGED result
                  \/ Fault /\ Finish(b, "interrupted")
<1> DEFINE w == wish[b]
           event == EventFor(pc[b], w)
           accepted == AppendsOnce(history, event, "created", read[b])
<1>1. w \in Wishes
  BY DEF BindInv, BindingTypes
<1>2. pc[b] \in {"selection", "binding"}
  BY DEF AppendOnce
<1>3. read[b] = IF pc[b] = "selection" THEN Just ELSE WithSelection(w)
  BY <1>2 DEF BindInv, ReadInv
<1>4. accepted <=> history = read[b]
  <2>1. ASSUME history = read[b] PROVE accepted
    <3>1. history \in Acceptances(w) /\ history # <<>>
      BY <1>3, <2>1, LedgerFields DEF Acceptances
    <3>2. CurrentStatus(history) = "created"
      BY <3>1, StatusOfAcceptances
    <3>3. event.type = pc[b] /\ event.status = NoStatus
      BY <1>2, EventFields DEF EventFor
    <3>4. Rows(history, event.type) = {}
      BY <1>2, <1>3, <2>1, <3>3, RowsOfAcceptances
    <3> QED
      BY <2>1, <3>1, <3>2, <3>3, <3>4 DEF AppendsOnce, Follows
  <2> QED
    BY <2>1 DEF AppendsOnce
<1>5. ASSUME accepted, history' = Append(history, event) PROVE Extends(b)
  BY <1>1, <1>2, <1>3, <1>4, <1>5, AppendToAcceptances DEF Extends, EventFor
<1>6. UNCHANGED <<run, wish, read, evidence, retries, foreign>>
  BY DEF AppendOnce
<1>7. \/ /\ accepted
         /\ history' = Append(history, event)
         /\ \/ NoFault /\ pc' = [pc EXCEPT ![b] = "confirm"] /\ UNCHANGED result
            \/ Fault /\ pc' = [pc EXCEPT ![b] = "settle"] /\ UNCHANGED result
            \/ Fault /\ Finish(b, "interrupted")
      \/ /\ UNCHANGED history
         /\ \/ /\ IF accepted THEN Fault ELSE NoFault
               /\ pc' = [pc EXCEPT ![b] = "settle"]
               /\ UNCHANGED result
            \/ Fault /\ Finish(b, "interrupted")
  BY DEF AppendOnce
<1>8. Fault => ~NoFault
  BY DEF Fault, NoFault, BindInv, BindingTypes
<1> HIDE DEF accepted, event
<1> QED
  BY <1>2, <1>3, <1>4, <1>5, <1>6, <1>7, <1>8

-----------------------------------------------------------------------------
(* Every step keeps the invariant.                                         *)

USE DEF Stages, Results

LEMMA Lengths ==
  /\ \A n \in Nat : n >= 1 => n = 1 \/ n = 2 \/ n >= 3
  /\ \A m, n : (m = 1 /\ n = 2) \/ (m = 2 /\ n = 3) => m < n /\ m < 3
  /\ \A n : n = 1 \/ n = 2 \/ n = 3 => n <= 3 /\ \A most \in Nat : n <= 3 + most
  OBVIOUS

LEMMA CreateRunKeeps ==
  ASSUME BindInv, CreateRun
  PROVE  BindInv'
<1>1. history = <<>> /\ history' = Just /\ Just \in Seq(Events)
  BY EventsTyped DEF BindInv, LedgerInv, CreateRun, Just
<1>2. Len(history) = 0 /\ Len(history') = 1 /\ history'[1] = Created /\ DOMAIN history' = {1}
  BY <1>1, LedgerFields
<1>3. BindingTypes'
  BY <1>1 DEF BindInv, BindingTypes, CreateRun, callers
<1>4. LedgerInv'
  <2>1. history' # <<>> /\ run' # "absent"
    BY <1>2 DEF CreateRun
  <2>3. foreign' \in Nat
    BY BindingAssumption DEF BindInv, BindingTypes, CreateRun
  <2>2. OneLineage'
    BY <1>2, EventFields DEF OneLineage
  <2> QED
    BY <1>2, <2>1, <2>2, <2>3, Lengths, Zenon DEF LedgerInv
<1>5. ReadInv'
  BY <1>2, <1>1 DEF BindInv, BindingTypes, ReadInv, CreateRun, callers
<1>6. ToldInv'
  <2>1. \A b \in Binders : \A w \in evidence[b] : FALSE
    BY <1>2 DEF BindInv, ToldInv, Starts
  <2>2. evidence' = evidence /\ result' = result /\ wish' = wish
    BY DEF CreateRun, callers
  <2>3. \A b \in Binders : result[b] = "bound" => wish[b] \in evidence[b]
    BY DEF BindInv, ToldInv
  <2>4. \A b \in Binders : \A w \in evidence'[b] : FALSE
    BY <2>1, <2>2
  <2>5. \A b \in Binders : result'[b] = "bound" => wish'[b] \in evidence'[b]
    BY <2>2, <2>3
  <2> QED
    BY <2>4, <2>5 DEF ToldInv
<1> QED
  BY <1>3, <1>4, <1>5, <1>6 DEF BindInv

\* What a ledger starts with it keeps when an event is appended.
LEMMA AppendKeepsStart ==
  ASSUME NEW h \in Seq(Events), NEW e \in Events
  PROVE  /\ Append(h, e) \in Seq(Events) /\ Len(Append(h, e)) = Len(h) + 1
         /\ DOMAIN Append(h, e) = 1 .. Len(h) + 1 /\ Append(h, e) # <<>>
         /\ \A i \in 1 .. Len(h) : Append(h, e)[i] = h[i]
         /\ Append(h, e)[Len(h) + 1] = e
         /\ \A w : Starts(h, w) => Starts(Append(h, e), w)
  BY AppendProperties DEF Starts

LEMMA AppendForeignKeeps ==
  ASSUME BindInv, AppendForeign
  PROVE  BindInv'
<1>1. PICK e \in ForeignEvents : history # <<>> /\ history' = Append(history, e)
  BY DEF AppendForeign, Appends
<1>2. e \in Events /\ e.type \notin {"selection", "binding"}
  BY EventsTyped DEF ForeignEvents
<1>3. history \in Seq(Events) /\ foreign \in Nat /\ foreign' = foreign + 1 /\ foreign' \in 0 .. MaxForeign
  BY BindingAssumption DEF BindInv, BindingTypes, AppendForeign
<1> DEFINE h == Append(history, e)
<1>4. /\ h \in Seq(Events) /\ Len(h) = Len(history) + 1 /\ h # <<>>
      /\ DOMAIN h = 1 .. Len(history) + 1
      /\ \A i \in 1 .. Len(history) : h[i] = history[i]
      /\ h[Len(history) + 1] = e
      /\ \A w : Starts(history, w) => Starts(h, w)
  BY <1>2, <1>3, AppendKeepsStart
<1>5. history' = h
  BY <1>1
<1>6. Len(history) \in Nat /\ DOMAIN history = 1 .. Len(history) /\ Len(history) >= 1
  BY <1>1, <1>3
<1> HIDE DEF h
<1>7. BindingTypes'
  BY <1>3, <1>4, <1>5 DEF BindInv, BindingTypes, AppendForeign, callers
<1>8. LedgerInv'
  <2>1. (history' # <<>> /\ run' # "absent") /\ history'[1] = Created /\ Len(history') <= 3 + foreign'
    BY <1>1, <1>3, <1>4, <1>5, <1>6 DEF BindInv, LedgerInv, AppendForeign
  <2>2. OneLineage'
    <3> SUFFICES ASSUME NEW i \in DOMAIN h
                 PROVE  /\ h[i].type = "selection" => i = 2
                        /\ h[i].type = "binding" => i = 3 /\ h[2] = Selection(h[3].of)
      BY <1>5 DEF OneLineage
    <3>1. CASE i = Len(history) + 1
      BY <1>2, <1>4, <3>1
    <3>2. CASE i \in DOMAIN history
      <4>1. h[i] = history[i]
        BY <1>4, <1>6, <3>2
      <4>2. /\ history[i].type = "selection" => i = 2
            /\ history[i].type = "binding" => i = 3 /\ history[2] = Selection(history[3].of)
        BY <3>2 DEF BindInv, LedgerInv, OneLineage
      <4>3. i = 3 => h[2] = history[2] /\ h[3] = history[3]
        BY <1>4, <1>6, <3>2
      <4> QED
        BY <4>1, <4>2, <4>3
    <3> QED
      BY <1>4, <1>6, <3>1, <3>2
  <2> QED
    BY <2>1, <2>2 DEF LedgerInv
<1>9. ReadInv'
  <2>1. \A b \in Binders : Len(read[b]) \in Nat
    BY DEF BindInv, BindingTypes
  <2> QED
    BY <1>4, <1>5, <1>6, <2>1 DEF BindInv, ReadInv, AppendForeign, callers
<1>10. ToldInv'
  BY <1>4, <1>5 DEF BindInv, ToldInv, AppendForeign, callers
<1> QED
  BY <1>7, <1>8, <1>9, <1>10 DEF BindInv

\* A step of a binder that leaves the ledger and what it has read alone.
LEMMA AwayKeeps ==
  ASSUME BindInv, NEW b \in Binders,
         UNCHANGED <<run, history, wish, read, evidence, retries, foreign>>, faults' \in Nat,
         \/ /\ pc[b] # "done"
            /\ \E outcome \in Results \ {"none", "bound"} : Finish(b, outcome)
         \/ /\ pc[b] \in {"selection", "binding", "confirm", "settle", "reread"}
            /\ \E next \in {"confirm", "settle", "reread"} : pc' = [pc EXCEPT ![b] = next]
            /\ UNCHANGED result
  PROVE  BindInv'
<1>1. BindingTypes'
  BY DEF BindInv, BindingTypes, Finish
<1>2. LedgerInv'
  BY DEF BindInv, LedgerInv, OneLineage
<1>3. ReadInv'
  BY DEF BindInv, BindingTypes, ReadInv, Finish
<1>4. ToldInv'
  BY DEF BindInv, BindingTypes, ToldInv, Finish, Starts
<1> QED
  BY <1>1, <1>2, <1>3, <1>4 DEF BindInv

LEMMA ContinueKeeps ==
  ASSUME BindInv, NEW b \in Binders, NEW appended \in {"nothing", "selection", "binding"},
         Continue(b, appended), pc[b] # "done",
         UNCHANGED <<run, history, wish, faults, retries, foreign>>
  PROVE  BindInv'
<1>1. read' = [read EXCEPT ![b] = history]
  BY ContinueOutcomes
<1>2. Refused(b) \/ GoesOn(b) \/ IsTold(b)
  BY ContinueOutcomes
<1>3. GoesOn(b) =>
        \/ history = Just /\ pc' = [pc EXCEPT ![b] = "selection"]
        \/ history = WithSelection(wish[b]) /\ pc' = [pc EXCEPT ![b] = "binding"]
  BY MissingOfAcceptances DEF GoesOn
<1>4. IsTold(b) => Starts(history, wish[b])
  BY LedgerFields DEF IsTold, Starts
<1>5. BindingTypes'
  <2>1. BindingTypes
    BY DEF BindInv
  <2>2. read' \in [Binders -> Seq(Events)]
    BY <1>1, <2>1 DEF BindingTypes
  <2>3. CASE Refused(b)
    BY <2>1, <2>2, <2>3 DEF BindingTypes, Refused, Finish
  <2>4. CASE GoesOn(b)
    BY <1>3, <2>1, <2>2, <2>4 DEF BindingTypes, GoesOn
  <2>5. CASE IsTold(b)
    <3>1. evidence' \in [Binders -> SUBSET Wishes]
      BY <2>1, <2>5 DEF BindingTypes, IsTold
    <3> QED
      BY <2>1, <2>2, <2>5, <3>1 DEF BindingTypes, IsTold, Finish
  <2> QED
    BY <1>2, <2>3, <2>4, <2>5
<1>6. LedgerInv'
  BY DEF BindInv, LedgerInv, OneLineage
<1>7. ReadInv'
  BY <1>1, <1>2, <1>3 DEF BindInv, BindingTypes, ReadInv, Refused, GoesOn, IsTold, Finish
<1>8. ToldInv'
  <2>1. \A c \in Binders : c # b => result'[c] = result[c] /\ evidence'[c] = evidence[c]
    BY <1>2 DEF BindInv, BindingTypes, Refused, GoesOn, IsTold, Finish
  <2>2. CASE Refused(b)
    BY <2>1, <2>2 DEF BindInv, BindingTypes, ToldInv, Refused, Finish, Starts
  <2>3. CASE GoesOn(b)
    BY <2>1, <2>3 DEF BindInv, BindingTypes, ToldInv, GoesOn, Starts
  <2>4. CASE IsTold(b)
    <3>1. evidence'[b] = evidence[b] \cup {wish[b]} /\ Starts(history, wish[b])
      BY <1>4, <2>4 DEF BindInv, BindingTypes, IsTold
    <3>2. \A w : Starts(history, w) => Starts(history', w)
      BY DEF Starts
    <3> QED
      BY <2>1, <3>1, <3>2 DEF BindInv, ToldInv
  <2> QED
    BY <1>2, <2>2, <2>3, <2>4
<1> QED
  BY <1>5, <1>6, <1>7, <1>8 DEF BindInv

LEMMA FaultTyped == ASSUME BindInv, Fault \/ NoFault PROVE faults' \in Nat
  BY DEF BindInv, BindingTypes, Fault, NoFault

LEMMA StartKeeps ==
  ASSUME BindInv, NEW b \in Binders, Start(b)
  PROVE  BindInv'
<1>1. CASE NoFault /\ Continue(b, "nothing")
  BY <1>1, ContinueKeeps DEF Start, NoFault
<1>2. CASE Unread(b)
  BY <1>2, AwayKeeps, FaultTyped DEF Start, Unread
<1> QED
  BY <1>1, <1>2 DEF Start

LEMMA MissingTyped ==
  ASSUME BindInv, NEW b \in Binders, pc[b] \in {"confirm", "settle", "reread"}
  PROVE  /\ Missing(read[b]) \in {"selection", "binding"}
         /\ Missing(read[b]) = "selection" <=> read[b] = Just
         /\ Missing(read[b]) = "binding" <=> read[b] = WithSelection(wish[b])
  BY MissingOfAcceptances DEF BindInv, ReadInv

LEMMA RereadKeeps ==
  ASSUME BindInv, NEW b \in Binders, Reread(b)
  PROVE  BindInv'
<1>1. CASE NoFault /\ Continue(b, Missing(read[b]))
  BY <1>1, ContinueKeeps, MissingTyped DEF Reread, NoFault
<1>2. CASE Unread(b)
  BY <1>2, AwayKeeps, FaultTyped DEF Reread, Unread
<1> QED
  BY <1>1, <1>2 DEF Reread

LEMMA ConfirmKeeps ==
  ASSUME BindInv, NEW b \in Binders, Confirm(b)
  PROVE  BindInv'
  BY AwayKeeps, FaultTyped DEF Confirm

LEMMA DieKeeps ==
  ASSUME BindInv, NEW b \in Binders, Die(b)
  PROVE  BindInv'
  BY AwayKeeps, FaultTyped DEF Die

LEMMA RetryKeeps ==
  ASSUME BindInv, NEW b \in Binders, Retry(b)
  PROVE  BindInv'
<1>1. BindingTypes'
  <2>1. wish' \in [Binders -> Wishes] /\ retries' \in [Binders -> Nat]
    <3>1. retries[b] + 1 \in Nat /\ retries \in [Binders -> Nat] /\ wish \in [Binders -> Wishes]
      BY DEF BindInv, BindingTypes
    <3>2. retries' = [retries EXCEPT ![b] = retries[b] + 1]
      BY DEF Retry
    <3>3. PICK w \in Wishes : wish' = [wish EXCEPT ![b] = w]
      BY DEF Retry
    <3> QED
      BY <3>1, <3>2, <3>3
  <2>2. pc' \in [Binders -> Stages] /\ result' \in [Binders -> Results]
    BY DEF BindInv, BindingTypes, Retry
  <2>3. \A c \in Binders : pc'[c] = "done" <=> result'[c] # "none"
    BY DEF BindInv, BindingTypes, Retry
  <2> QED
    BY <2>1, <2>2, <2>3 DEF BindInv, BindingTypes, Retry
<1>2. LedgerInv'
  BY DEF BindInv, LedgerInv, OneLineage, Retry
<1>3. ReadInv'
  BY DEF BindInv, BindingTypes, ReadInv, Retry
<1>4. ToldInv'
  BY DEF BindInv, BindingTypes, ToldInv, Retry, Starts
<1> QED
  BY <1>1, <1>2, <1>3, <1>4 DEF BindInv

LEMMA ExtendsKeepsLedger ==
  ASSUME BindInv, NEW b \in Binders, Extends(b), UNCHANGED <<run, wish, foreign>>
  PROVE  /\ LedgerInv' /\ history' \in Seq(Events) /\ Len(history) < Len(history')
         /\ \A w : ~Starts(history, w)
<1>1. wish[b] \in Wishes /\ foreign \in Nat
  BY BindingAssumption DEF BindInv, BindingTypes
<1>2. history' \in Acceptances(wish[b]) /\ history \in {Just, WithSelection(wish[b])}
  BY DEF Extends, Acceptances
<1>3. history' \in Seq(Events) /\ Len(history) < Len(history') /\ Len(history) < 3
  <2>1. history' \in Seq(Events)
    BY <1>1, <1>2, AcceptancesTyped
  <2>2. Len(Just) = 1 /\ Len(WithSelection(wish[b])) = 2 /\ Len(Lineage(wish[b])) = 3
    BY LedgerFields
  <2>3. (Len(history) = 1 /\ Len(history') = 2) \/ (Len(history) = 2 /\ Len(history') = 3)
    BY <2>2, Zenon DEF Extends
  <2> QED
    BY <2>1, <2>3, Lengths, Zenon
<1>4. Len(history') <= 3 /\ history' # <<>> /\ history # <<>> /\ history'[1] = Created
  <2>1. /\ Len(Just) = 1 /\ Len(WithSelection(wish[b])) = 2 /\ Len(Lineage(wish[b])) = 3
        /\ Just[1] = Created /\ WithSelection(wish[b])[1] = Created /\ Lineage(wish[b])[1] = Created
    BY LedgerFields
  <2>2. Just # <<>> /\ WithSelection(wish[b]) # <<>> /\ Lineage(wish[b]) # <<>>
    BY <2>1
  <2>3. history # <<>>
    BY <1>2, <2>2
  <2>4. history' # <<>> /\ history'[1] = Created
    BY <1>2, <2>1, <2>2, Zenon DEF Acceptances
  <2>5. Len(history') = 1 \/ Len(history') = 2 \/ Len(history') = 3
    BY <1>2, <2>1, Zenon DEF Acceptances
  <2> QED
    BY <2>3, <2>4, <2>5, Lengths, Zenon
<1>5. OneLineage'
  <2>1. CASE history' = WithSelection(wish[b])
    BY <2>1, LedgerFields, EventFields DEF OneLineage
  <2>2. CASE history' = Lineage(wish[b])
    BY <2>2, LedgerFields, EventFields DEF OneLineage
  <2> QED
    BY <2>1, <2>2 DEF Extends
<1>6. LedgerInv'
  BY <1>1, <1>3, <1>4, <1>5 DEF BindInv, LedgerInv
<1> QED
  BY <1>3, <1>6 DEF Starts

LEMMA AppendOnceKeeps ==
  ASSUME BindInv, NEW b \in Binders, AppendOnce(b)
  PROVE  BindInv'
<1>1. /\ pc[b] \in {"selection", "binding"}
      /\ read[b] \in {Just, WithSelection(wish[b])}
      /\ UNCHANGED <<run, wish, read, evidence, retries, foreign>>
  BY AppendOutcomes
<1>2. /\ faults' \in Nat
      /\ \/ \E next \in {"confirm", "settle"} : pc' = [pc EXCEPT ![b] = next] /\ UNCHANGED result
         \/ Finish(b, "interrupted")
  BY AppendOutcomes, FaultTyped
<1>3. CASE UNCHANGED history
  BY <1>1, <1>2, <1>3, AwayKeeps
<1>4. CASE Extends(b)
  <2>1. /\ LedgerInv' /\ history' \in Seq(Events) /\ Len(history) < Len(history')
        /\ \A w : ~Starts(history, w)
    BY <1>1, <1>4, ExtendsKeepsLedger
  <2>2. BindingTypes'
    BY <1>1, <1>2, <2>1 DEF BindInv, BindingTypes, Finish
  <2>3. ReadInv'
    <3>1. \A c \in Binders : Len(read[c]) \in Nat /\ Len(history) \in Nat /\ Len(history') \in Nat
      BY <2>1 DEF BindInv, BindingTypes
    <3> QED
      BY <1>1, <1>2, <2>1, <3>1 DEF BindInv, BindingTypes, ReadInv, Finish
  <2>4. ToldInv'
    BY <1>1, <1>2, <2>1 DEF BindInv, BindingTypes, ToldInv, Finish
  <2> QED
    BY <2>1, <2>2, <2>3, <2>4 DEF BindInv
<1> QED
  BY <1>3, <1>4, AppendOutcomes

LEMMA BindInvKept == BindInv /\ [BindingNext]_vars => BindInv'
<1> SUFFICES ASSUME BindInv, [BindingNext]_vars PROVE BindInv'
  OBVIOUS
<1>1. CASE CreateRun \/ AppendForeign
  BY <1>1, CreateRunKeeps, AppendForeignKeeps
<1>2. ASSUME NEW b \in Binders, Call(b) \/ Die(b) \/ Retry(b) PROVE BindInv'
  BY <1>2, StartKeeps, AppendOnceKeeps, ConfirmKeeps, RereadKeeps, DieKeeps, RetryKeeps DEF Call
<1>3. CASE UNCHANGED vars
  BY <1>3 DEF vars, callers, BindInv, BindingTypes, LedgerInv, OneLineage, ReadInv, ToldInv, Starts
<1> QED
  BY <1>1, <1>2, <1>3 DEF BindingNext

LEMMA BindInvHolds == Spec => []BindInv
  BY BindInvStarts, BindInvKept, PTL DEF Spec

-----------------------------------------------------------------------------
(* What holds beyond that while the store works, nobody else writes to the *)
(* run and every caller has called once.                                   *)

Undisturbed ==
  /\ run # "other"
  /\ faults = 0
  /\ foreign = 0
  /\ \A b \in Binders : retries[b] = 0

\* The ledger is one a binder with the right wish would go on from.
LedgerCalm == history = <<>> \/ \E w \in Wishes : history \in Acceptances(w)

\* Until a selection is appended, no call that saw the run has ended.
EarlyCalm ==
  \A b \in Binders :
    /\ history = <<>> => pc[b] \in {"idle", "done"} /\ read[b] = <<>>
    /\ history = Just => pc[b] \in {"idle", "selection", "done"} /\ (pc[b] = "done" => read[b] = <<>>)

\* A binder that has its evidence, or has still every event of its own to
\* read back before it, or is about to append the last.
Carries(b) ==
  /\ wish[b] = history[2].of
  /\ \/ result[b] = "bound"
     \/ pc[b] \in {"confirm", "reread"} /\ Len(read[b]) < Len(history)
     \/ pc[b] = "binding" /\ Len(history) = 2

Carried == Len(history) >= 2 => \E b \in Binders : Carries(b)

Agreed == \A b, c \in Binders : wish[b] = wish[c]

AgreedCalm ==
  Agreed =>
    \A b \in Binders :
      /\ pc[b] \in {"confirm", "settle", "reread"} => Len(read[b]) < Len(history)
      /\ result[b] \in {"none", "bound", "invalid"}
      /\ result[b] = "invalid" => read[b] = <<>>

CalmInv == Undisturbed => LedgerCalm /\ EarlyCalm /\ Carried /\ AgreedCalm

LEMMA CalmInvStarts == Init => CalmInv
<1> SUFFICES ASSUME Init PROVE CalmInv
  OBVIOUS
<1>1. history = <<>> /\ Len(history) = 0
  BY DEF Init
<1>2. \A b \in Binders : pc[b] = "idle" /\ read[b] = <<>> /\ result[b] = "none"
  BY DEF Init
<1>3. LedgerCalm /\ Carried
  BY <1>1 DEF LedgerCalm, Carried
<1>4. EarlyCalm
  BY <1>1, <1>2 DEF EarlyCalm
<1>5. AgreedCalm
  BY <1>2 DEF AgreedCalm
<1> QED
  BY <1>3, <1>4, <1>5 DEF CalmInv

\* The ledger a carrier looks at is its own.
LEMMA CarrierLedger ==
  ASSUME LedgerCalm, Len(history) >= 2, NEW b \in Binders, wish[b] = history[2].of
  PROVE  history \in {WithSelection(wish[b]), Lineage(wish[b])}
<1>1. history # <<>>
  OBVIOUS
<1>2. PICK w \in Wishes : history \in Acceptances(w)
  BY <1>1 DEF LedgerCalm
<1>3. history # Just
  BY LedgerFields
<1>4. history \in {WithSelection(w), Lineage(w)}
  BY <1>2, <1>3 DEF Acceptances
<1>5. history[2].of = w
  BY <1>4, LedgerFields, EventFields
<1> QED
  BY <1>4, <1>5

\* Callers who agree all look at a ledger of their own.
LEMMA AgreedLedger ==
  ASSUME LedgerCalm, Carried, Agreed, NEW b \in Binders, history # <<>>
  PROVE  history \in Acceptances(wish[b])
<1>1. PICK w \in Wishes : history \in Acceptances(w)
  BY DEF LedgerCalm
<1>2. CASE history = Just
  BY <1>2 DEF Acceptances
<1>3. CASE history # Just
  <2>1. Len(history) >= 2
    BY <1>1, <1>3, LedgerFields DEF Acceptances
  <2>2. PICK c \in Binders : Carries(c)
    BY <2>1 DEF Carried
  <2>3. wish[b] = history[2].of
    BY <2>2 DEF Carries, Agreed
  <2> QED
    BY <2>1, <2>3, CarrierLedger DEF Acceptances
<1> QED
  BY <1>2, <1>3

\* A ledger that has grown since it was read no longer lacks what it lacked.
LEMMA GrownLedger ==
  ASSUME NEW w, NEW h \in Acceptances(w), NEW r \in {Just, WithSelection(w)}, Len(r) < Len(h)
  PROVE  Missing(h) # Missing(r)
  BY LedgerFields, MissingOfAcceptances DEF Acceptances

LEMMA GrownReadBack ==
  ASSUME BindInv, NEW b \in Binders, pc[b] \in {"confirm", "settle"},
         history \in Acceptances(wish[b]), Len(read[b]) < Len(history)
  PROVE  ReadBack(b)
<1> DEFINE w == wish[b]
<1>1. CASE read[b] = Just
  <2>1. Pending(b) = Selection(w)
    BY <1>1, MissingOfAcceptances DEF Pending, EventFor
  <2>2. history \in {WithSelection(w), Lineage(w)}
    BY <1>1, LedgerFields DEF Acceptances
  <2>3. 2 \in DOMAIN history /\ history[2] = Selection(w) /\ Rows(history, "selection") = {2}
    BY <2>2, LedgerFields, RowsOfAcceptances
  <2> QED
    BY <2>1, <2>3, EventFields DEF ReadBack, AtMostOne
<1>2. CASE read[b] = WithSelection(w)
  <2>1. Pending(b) = Binding(w)
    BY <1>2, MissingOfAcceptances DEF Pending, EventFor
  <2>2. history = Lineage(w)
    BY <1>2, LedgerFields DEF Acceptances
  <2>3. 3 \in DOMAIN history /\ history[3] = Binding(w) /\ Rows(history, "binding") = {3}
    BY <2>2, LedgerFields, RowsOfAcceptances
  <2> QED
    BY <2>1, <2>3, EventFields DEF ReadBack, AtMostOne
<1> QED
  BY <1>1, <1>2 DEF BindInv, ReadInv

\* A step that leaves the run undisturbed has found it so, and its store works.
LEMMA CalmBefore ==
  ASSUME BindInv, Undisturbed', NEW b \in Binders, Call(b)
  PROVE  Undisturbed /\ faults' = faults /\ UNCHANGED <<run, wish, retries, foreign>> /\ ~Fault
<1>1. faults \in Nat /\ faults' = 0
  BY DEF BindInv, BindingTypes, Undisturbed
<1>2. ~Fault
  BY <1>1 DEF Fault
<1>3. NoFault /\ UNCHANGED <<run, wish, retries, foreign>>
  BY <1>2 DEF Call, Start, AppendOnce, Confirm, Reread, Unread
<1> QED
  BY <1>1, <1>2, <1>3 DEF NoFault, Undisturbed

LEMMA CreateRunCalm ==
  ASSUME BindInv, CalmInv, CreateRun, Undisturbed'
  PROVE  CalmInv'
<1>1. run = "absent" /\ history = <<>> /\ history' = Just /\ UNCHANGED <<callers, faults, retries, foreign>>
  BY DEF BindInv, LedgerInv, CreateRun, Just
<1>2. Undisturbed
  BY <1>1 DEF Undisturbed
<1>3. EarlyCalm /\ AgreedCalm
  BY <1>2 DEF CalmInv
<1>4. UNCHANGED <<wish, pc, read, result>>
  BY <1>1 DEF callers
<1>5. \A b \in Binders : pc[b] \in {"idle", "done"} /\ read[b] = <<>>
  BY <1>1, <1>3 DEF EarlyCalm
<1>6. LedgerCalm'
  BY <1>1, BindingAssumption DEF LedgerCalm, Acceptances
<1>7. EarlyCalm'
  BY <1>1, <1>4, <1>5, LedgerFields DEF EarlyCalm
<1>8. Carried'
  BY <1>1, LedgerFields DEF Carried
<1>9. AgreedCalm'
  BY <1>3, <1>4, <1>5 DEF AgreedCalm, Agreed
<1> QED
  BY <1>6, <1>7, <1>8, <1>9 DEF CalmInv

\* Whoever looks at the ledger again is not refused when it is its own and
\* has grown, or when it looks for the first time.
LEMMA LookCalm ==
  ASSUME BindInv, CalmInv, Undisturbed, NEW b \in Binders,
         NEW appended \in {"nothing", "selection", "binding"}, Continue(b, appended),
         \/ pc[b] = "idle" /\ appended = "nothing"
         \/ pc[b] = "reread" /\ appended = Missing(read[b]),
         UNCHANGED <<run, history, wish, faults, retries, foreign>>
  PROVE  CalmInv'
<1>1. LedgerCalm /\ EarlyCalm /\ Carried /\ AgreedCalm
  BY DEF CalmInv
<1>2. read' = [read EXCEPT ![b] = history]
  BY ContinueOutcomes
<1>3. \/ Refused(b) /\ (history \in Acceptances(wish[b]) /\ run = "proposal" => Missing(history) = appended)
      \/ GoesOn(b)
      \/ IsTold(b)
  BY ContinueOutcomes
<1>4. history # <<>> => run = "proposal"
  BY DEF Undisturbed, BindInv, BindingTypes, LedgerInv
<1>5. history # <<>> /\ history \in Acceptances(wish[b]) /\ (pc[b] = "idle" \/ Len(read[b]) < Len(history))
        => GoesOn(b) \/ IsTold(b)
  <2> SUFFICES ASSUME history # <<>>, history \in Acceptances(wish[b]),
                      pc[b] = "idle" \/ Len(read[b]) < Len(history), Refused(b),
                      Missing(history) = appended
               PROVE  FALSE
    BY <1>3, <1>4
  <2>1. CASE pc[b] = "idle"
    BY <2>1, MissingOfAcceptances DEF Acceptances
  <2>2. CASE pc[b] = "reread"
    <3>1. read[b] \in {Just, WithSelection(wish[b])} /\ Len(read[b]) < Len(history)
      BY <2>2 DEF BindInv, ReadInv
    <3> QED
      BY <2>2, <3>1, GrownLedger
  <2> QED
    BY <2>1, <2>2
<1>6. /\ \A c \in Binders \ {b} : pc'[c] = pc[c] /\ read'[c] = read[c] /\ result'[c] = result[c]
      /\ read'[b] = history
  BY <1>2, <1>3 DEF BindInv, BindingTypes, Refused, GoesOn, IsTold, Finish
<1>7. /\ Refused(b) => pc'[b] = "done" /\ result'[b] = "invalid"
      /\ GoesOn(b) => /\ result'[b] = result[b]
                      /\ \/ history = Just /\ pc'[b] = "selection"
                         \/ history = WithSelection(wish[b]) /\ pc'[b] = "binding"
      /\ IsTold(b) => history = Lineage(wish[b]) /\ pc'[b] = "done" /\ result'[b] = "bound"
  <2>1. Missing(Just) = "selection" /\ Missing(WithSelection(wish[b])) = "binding"
    BY MissingOfAcceptances
  <2>2. pc \in [Binders -> Stages] /\ result \in [Binders -> Results]
    BY DEF BindInv, BindingTypes
  <2>3. GoesOn(b) => /\ result'[b] = result[b]
                     /\ \/ history = Just /\ pc'[b] = "selection"
                        \/ history = WithSelection(wish[b]) /\ pc'[b] = "binding"
    BY <2>1, <2>2 DEF GoesOn
  <2> QED
    BY <2>2, <2>3 DEF Refused, IsTold, Finish
<1>8. LedgerCalm'
  BY <1>1 DEF LedgerCalm
<1>9. EarlyCalm'
  <2> SUFFICES ASSUME NEW c \in Binders
               PROVE  /\ history = <<>> => pc'[c] \in {"idle", "done"} /\ read'[c] = <<>>
                      /\ history = Just => /\ pc'[c] \in {"idle", "selection", "done"}
                                           /\ pc'[c] = "done" => read'[c] = <<>>
    BY DEF EarlyCalm
  <2>1. CASE c # b
    BY <1>1, <1>6, <2>1 DEF EarlyCalm
  <2>2. CASE c = b /\ history = <<>>
    BY <1>3, <1>6, <1>7, <2>2, LedgerFields
  <2>3. CASE c = b /\ history = Just
    <3>1. pc[b] = "idle" /\ Just # <<>> /\ Just \in Acceptances(wish[b])
      BY <1>1, <2>3, LedgerFields DEF EarlyCalm, Acceptances
    <3>2. GoesOn(b) \/ IsTold(b)
      BY <1>5, <2>3, <3>1
    <3> QED
      BY <1>7, <2>3, <3>2, LedgerFields
  <2> QED
    BY <2>1, <2>2, <2>3
<1>10. Carried'
  <2> SUFFICES ASSUME Len(history) >= 2 PROVE \E c \in Binders : Carries(c)'
    BY DEF Carried
  <2>1. PICK c \in Binders : Carries(c)
    BY <1>1 DEF Carried
  <2>2. CASE c # b
    BY <1>6, <2>1, <2>2 DEF Carries
  <2>3. CASE c = b
    <3>1. wish[b] = history[2].of
      BY <2>1, <2>3 DEF Carries
    <3>2. history \in {WithSelection(wish[b]), Lineage(wish[b])}
      BY <1>1, <3>1, CarrierLedger
    <3>3. result[b] = "none"
      BY DEF BindInv, BindingTypes
    <3>4. pc[b] = "idle" \/ Len(read[b]) < Len(history)
      BY <2>1, <2>3, <3>3 DEF Carries
    <3>5. GoesOn(b) \/ IsTold(b)
      BY <1>5, <3>2, <3>4 DEF Acceptances
    <3>6. (pc'[b] = "binding" /\ Len(history) = 2) \/ result'[b] = "bound"
      <4>1. Len(Just) = 1 /\ Len(WithSelection(wish[b])) = 2
        BY LedgerFields
      <4>2. GoesOn(b) => history = WithSelection(wish[b]) /\ pc'[b] = "binding"
        BY <1>7, <3>2, LedgerFields
      <4> QED
        BY <1>7, <3>5, <4>1, <4>2, Zenon
    <3> QED
      BY <3>1, <3>6 DEF Carries
  <2> QED
    BY <2>2, <2>3
<1>11. AgreedCalm'
  <2> SUFFICES ASSUME Agreed, NEW c \in Binders
               PROVE  /\ pc'[c] \in {"confirm", "settle", "reread"} => Len(read'[c]) < Len(history)
                      /\ result'[c] \in {"none", "bound", "invalid"}
                      /\ result'[c] = "invalid" => read'[c] = <<>>
    BY DEF AgreedCalm, Agreed
  <2>1. /\ pc[c] \in {"confirm", "settle", "reread"} => Len(read[c]) < Len(history)
        /\ result[c] \in {"none", "bound", "invalid"}
        /\ result[c] = "invalid" => read[c] = <<>>
    BY <1>1 DEF AgreedCalm
  <2>2. CASE c # b
    BY <1>6, <2>1, <2>2
  <2>3. CASE c = b
    <3>1. pc[b] = "idle" \/ Len(read[b]) < Len(history)
      BY <2>1, <2>3
    <3>2. history # <<>> => GoesOn(b) \/ IsTold(b)
      BY <1>1, <1>5, <3>1, AgreedLedger
    <3>3. result[b] = "none" /\ pc'[b] \notin {"confirm", "settle", "reread"}
      BY <1>3, <1>7 DEF BindInv, BindingTypes
    <3> QED
      BY <1>3, <1>6, <1>7, <2>3, <3>2, <3>3
  <2> QED
    BY <2>2, <2>3
<1> QED
  BY <1>8, <1>9, <1>10, <1>11 DEF CalmInv

LEMMA StartCalm ==
  ASSUME BindInv, CalmInv, Undisturbed', NEW b \in Binders, Start(b)
  PROVE  CalmInv'
<1>1. Undisturbed /\ ~Fault
  BY CalmBefore DEF Call
<1>2. Continue(b, "nothing") /\ NoFault /\ pc[b] = "idle"
  BY <1>1 DEF Start, Unread
<1> QED
  BY <1>1, <1>2, LookCalm DEF Start, NoFault

LEMMA RereadCalm ==
  ASSUME BindInv, CalmInv, Undisturbed', NEW b \in Binders, Reread(b)
  PROVE  CalmInv'
<1>1. Undisturbed /\ ~Fault
  BY CalmBefore DEF Call
<1>2. Continue(b, Missing(read[b])) /\ NoFault /\ pc[b] = "reread"
  BY <1>1 DEF Reread, Unread
<1>3. Missing(read[b]) \in {"selection", "binding"}
  BY <1>2, MissingTyped
<1> QED
  BY <1>1, <1>2, <1>3, LookCalm DEF Reread, NoFault

LEMMA AppendOnceCalm ==
  ASSUME BindInv, CalmInv, Undisturbed', NEW b \in Binders, AppendOnce(b)
  PROVE  CalmInv'
<1>1. Undisturbed /\ ~Fault
  BY CalmBefore DEF Call
<1>2. LedgerCalm /\ EarlyCalm /\ Carried /\ AgreedCalm
  BY <1>1 DEF CalmInv
<1>3. /\ pc[b] \in {"selection", "binding"}
      /\ read[b] = IF pc[b] = "selection" THEN Just ELSE WithSelection(wish[b])
      /\ UNCHANGED <<run, wish, read, evidence, retries, foreign>>
  BY AppendOutcomes
<1>4. \/ Extends(b) /\ pc' = [pc EXCEPT ![b] = "confirm"] /\ UNCHANGED result
      \/ UNCHANGED history /\ history # read[b] /\ pc' = [pc EXCEPT ![b] = "settle"] /\ UNCHANGED result
  BY <1>1, AppendOutcomes
<1>5. /\ \A c \in Binders \ {b} : pc'[c] = pc[c]
      /\ pc'[b] \in {"confirm", "settle"} /\ UNCHANGED <<read, wish, result>>
  BY <1>3, <1>4 DEF BindInv, BindingTypes
<1>6. result[b] = "none"
  BY <1>3 DEF BindInv, BindingTypes
<1>7. \A c \in Binders : Len(read[c]) \in Nat /\ Len(read[c]) <= Len(history)
  BY DEF BindInv, BindingTypes, ReadInv
<1>8. CASE Extends(b) /\ pc' = [pc EXCEPT ![b] = "confirm"] /\ UNCHANGED result
  <2>1. history' \in {WithSelection(wish[b]), Lineage(wish[b])} /\ Len(history) < Len(history')
    <3>1. Len(Just) = 1 /\ Len(WithSelection(wish[b])) = 2 /\ Len(Lineage(wish[b])) = 3
      BY LedgerFields
    <3>2. \/ history = Just /\ history' = WithSelection(wish[b])
          \/ history = WithSelection(wish[b]) /\ history' = Lineage(wish[b])
      BY <1>8 DEF Extends
    <3>3. (Len(history) = 1 /\ Len(history') = 2) \/ (Len(history) = 2 /\ Len(history') = 3)
      BY <3>1, <3>2, Zenon
    <3> QED
      BY <3>2, <3>3, Lengths, Zenon
  <2>2. Len(history') >= 2 /\ history'[2].of = wish[b] /\ history' # Just /\ history' # <<>>
    BY <2>1, LedgerFields, EventFields
  <2>3. wish[b] \in Wishes
    BY DEF BindInv, BindingTypes
  <2>4. LedgerCalm'
    BY <2>1, <2>3 DEF LedgerCalm, Acceptances
  <2>5. EarlyCalm'
    BY <2>2 DEF EarlyCalm
  <2>6. \A c \in Binders : Len(read[c]) < Len(history')
    BY <1>7, <2>1, LedgerFields DEF BindInv, BindingTypes
  <2>7. Carried'
    <3>1. pc'[b] = "confirm"
      BY <1>8 DEF BindInv, BindingTypes
    <3>2. Carries(b)'
      BY <1>5, <2>2, <2>6, <3>1 DEF Carries
    <3> QED
      BY <3>2 DEF Carried
  <2>8. AgreedCalm'
    BY <1>2, <1>5, <2>6 DEF AgreedCalm, Agreed
  <2> QED
    BY <2>4, <2>5, <2>7, <2>8 DEF CalmInv
<1>9. CASE /\ UNCHANGED history /\ history # read[b]
           /\ pc' = [pc EXCEPT ![b] = "settle"] /\ UNCHANGED result
  <2>1. history # <<>> /\ history # Just
    BY <1>2, <1>3, <1>9 DEF EarlyCalm
  <2>2. LedgerCalm' /\ EarlyCalm'
    BY <1>2, <1>9, <2>1 DEF LedgerCalm, EarlyCalm
  <2>3. Carried'
    <3> SUFFICES ASSUME Len(history) >= 2 PROVE \E c \in Binders : Carries(c)'
      BY <1>9 DEF Carried
    <3>1. PICK c \in Binders : Carries(c)
      BY <1>2 DEF Carried
    <3>2. CASE c # b
      BY <1>5, <1>9, <3>1, <3>2 DEF Carries
    <3>3. CASE c = b
      <4>1. pc[b] = "binding" /\ Len(history) = 2 /\ wish[b] = history[2].of
        BY <1>3, <1>6, <3>1, <3>3 DEF Carries
      <4>2. history = WithSelection(wish[b])
        BY <1>2, <4>1, CarrierLedger, LedgerFields
      <4> QED
        BY <1>3, <1>9, <4>1, <4>2
    <3> QED
      BY <3>2, <3>3
  <2>4. AgreedCalm'
    <3> SUFFICES ASSUME Agreed PROVE Len(read[b]) < Len(history)
      BY <1>2, <1>5, <1>6, <1>9 DEF AgreedCalm, Agreed
    <3>1. history \in Acceptances(wish[b])
      BY <1>2, <2>1, AgreedLedger
    <3> QED
      BY <1>3, <1>7, <1>9, <2>1, <3>1, LedgerFields DEF Acceptances
  <2> QED
    BY <2>2, <2>3, <2>4 DEF CalmInv
<1> QED
  BY <1>4, <1>8, <1>9

LEMMA ConfirmCalm ==
  ASSUME BindInv, CalmInv, Undisturbed', NEW b \in Binders, Confirm(b)
  PROVE  CalmInv'
<1>1. Undisturbed /\ ~Fault
  BY CalmBefore DEF Call
<1>2. LedgerCalm /\ EarlyCalm /\ Carried /\ AgreedCalm
  BY <1>1 DEF CalmInv
<1>3. /\ pc[b] \in {"confirm", "settle"}
      /\ UNCHANGED <<run, history, wish, read, evidence, retries, foreign>>
      /\ IF ReadBack(b)
         THEN pc' = [pc EXCEPT ![b] = "reread"] /\ UNCHANGED result
         ELSE Finish(b, "persistence")
  BY <1>1 DEF Confirm
<1>4. /\ \A c \in Binders \ {b} : pc'[c] = pc[c] /\ result'[c] = result[c]
      /\ ReadBack(b) => pc'[b] = "reread" /\ result'[b] = result[b]
  BY <1>3 DEF BindInv, BindingTypes, Finish
<1>5. history # <<>> /\ history # Just
  BY <1>2, <1>3 DEF EarlyCalm
<1>6. result[b] = "none"
  BY <1>3 DEF BindInv, BindingTypes
<1>7. LedgerCalm' /\ EarlyCalm'
  BY <1>2, <1>3, <1>5 DEF LedgerCalm, EarlyCalm
<1>8. Carried'
  <2> SUFFICES ASSUME Len(history) >= 2 PROVE \E c \in Binders : Carries(c)'
    BY <1>3 DEF Carried
  <2>1. PICK c \in Binders : Carries(c)
    BY <1>2 DEF Carried
  <2>2. CASE c # b
    BY <1>3, <1>4, <2>1, <2>2 DEF Carries
  <2>3. CASE c = b
    <3>1. wish[b] = history[2].of /\ Len(read[b]) < Len(history)
      BY <1>3, <1>6, <2>1, <2>3 DEF Carries
    <3>2. history \in Acceptances(wish[b])
      BY <1>2, <3>1, CarrierLedger DEF Acceptances
    <3>3. ReadBack(b)
      BY <1>3, <3>1, <3>2, GrownReadBack
    <3> QED
      BY <1>3, <1>4, <3>1, <3>3 DEF Carries
  <2> QED
    BY <2>2, <2>3
<1>9. AgreedCalm'
  <2> SUFFICES ASSUME Agreed PROVE ReadBack(b)
    BY <1>2, <1>3, <1>4, <1>6 DEF AgreedCalm, Agreed
  <2>1. history \in Acceptances(wish[b]) /\ Len(read[b]) < Len(history)
    BY <1>2, <1>3, <1>5, AgreedLedger DEF AgreedCalm
  <2> QED
    BY <1>3, <2>1, GrownReadBack
<1> QED
  BY <1>7, <1>8, <1>9 DEF CalmInv

LEMMA CalmInvKept == BindInv /\ CalmInv /\ [BindingNext]_vars => CalmInv'
<1> SUFFICES ASSUME BindInv, CalmInv, [BindingNext]_vars, Undisturbed' PROVE CalmInv'
  BY DEF CalmInv
<1>1. CASE CreateRun
  BY <1>1, CreateRunCalm
<1>2. CASE AppendForeign
  BY <1>2 DEF AppendForeign, Undisturbed, BindInv, BindingTypes
<1>3. ASSUME NEW b \in Binders, Call(b) PROVE CalmInv'
  BY <1>3, StartCalm, AppendOnceCalm, ConfirmCalm, RereadCalm DEF Call
<1>4. ASSUME NEW b \in Binders, Die(b) PROVE FALSE
  BY <1>4 DEF Die, Fault, Undisturbed, BindInv, BindingTypes
<1>5. ASSUME NEW b \in Binders, Retry(b) PROVE FALSE
  <2>1. retries'[b] = retries[b] + 1 /\ retries[b] \in Nat
    BY <1>5 DEF Retry, BindInv, BindingTypes
  <2> QED
    BY <2>1 DEF Undisturbed
<1>6. CASE UNCHANGED vars
  <2>1. UNCHANGED <<run, history, wish, pc, read, result, faults, retries, foreign>>
    BY <1>6 DEF vars, callers
  <2>2. Undisturbed
    BY <2>1 DEF Undisturbed
  <2> QED
    BY <2>1, <2>2 DEF CalmInv, LedgerCalm, EarlyCalm, Carried, Carries, Agreed, AgreedCalm
<1> QED
  BY <1>1, <1>2, <1>3, <1>4, <1>5, <1>6 DEF BindingNext

LEMMA CalmMeansConverging == BindInv /\ CalmInv => SameWishConverges /\ SomeRivalWins
<1> SUFFICES ASSUME BindInv, CalmInv PROVE SameWishConverges /\ SomeRivalWins
  OBVIOUS
<1>1. SameWishConverges
  BY DEF CalmInv, AgreedCalm, Agreed, Undisturbed, SameWishConverges
<1>2. SomeRivalWins
  <2> SUFFICES ASSUME Undisturbed, \A b \in Binders : pc[b] = "done", \E b \in Binders : read[b] # <<>>
               PROVE  \E b \in Binders : result[b] = "bound"
    BY DEF SomeRivalWins, Undisturbed
  <2>1. LedgerCalm /\ EarlyCalm /\ Carried
    BY DEF CalmInv
  <2>2. history # <<>> /\ history # Just
    BY <2>1 DEF EarlyCalm
  <2>3. Len(history) >= 2
    BY <2>1, <2>2, LedgerFields DEF LedgerCalm, Acceptances
  <2> QED
    BY <2>1, <2>3 DEF Carried, Carries
<1> QED
  BY <1>1, <1>2

\* However many callers race, for whatever wishes, and however their calls
\* fail and are repeated: the ledger holds one lineage, evidence stays true of
\* it, callers who agree all succeed, and of rivals at least one does.
THEOREM CallersDoConverge == Spec => []CallersConverge
<1>1. Init => BindInv /\ CalmInv
  BY BindInvStarts, CalmInvStarts
<1>2. BindInv /\ CalmInv /\ [BindingNext]_vars => BindInv' /\ CalmInv'
  BY BindInvKept, CalmInvKept
<1>3. BindInv /\ CalmInv => CallersConverge
  BY InvariantMeansDurable, CalmMeansConverging DEF CallersConverge
<1> QED
  BY <1>1, <1>2, <1>3, PTL DEF Spec

-----------------------------------------------------------------------------
(* The calls implement the write-once register of the contract.            *)

LEMMA RegisterOfAcceptances ==
  ASSUME NEW w
  PROVE  /\ history = Just => Register = Contract!Open
         /\ history = WithSelection(w) => Register = Contract!Selected(w)
         /\ history = Lineage(w) => Register = Contract!Bound(w)
<1>1. /\ Len(Just) = 1 /\ Len(WithSelection(w)) = 2 /\ Len(Lineage(w)) = 3
      /\ WithSelection(w)[2] = Selection(w) /\ Lineage(w)[3] = Binding(w)
  BY LedgerFields
<1> QED
  BY <1>1, EventFields DEF Register, Contract!Open, Contract!Selected, Contract!Bound

LEMMA ExtendsRefines ==
  ASSUME BindInv, NEW b \in Binders, Extends(b), UNCHANGED evidence
  PROVE  Contract!Next
<1>1. wish[b] \in Wishes
  BY DEF BindInv, BindingTypes
<1>2. /\ history' = WithSelection(wish[b]) => Register' = Contract!Selected(wish[b])
      /\ history' = Lineage(wish[b]) => Register' = Contract!Bound(wish[b])
  <2>1. /\ Len(WithSelection(wish[b])) = 2 /\ Len(Lineage(wish[b])) = 3
        /\ WithSelection(wish[b])[2] = Selection(wish[b]) /\ Lineage(wish[b])[3] = Binding(wish[b])
    BY LedgerFields
  <2> QED
    BY <2>1, EventFields DEF Register, Contract!Selected, Contract!Bound
<1>3. CASE history = Just /\ history' = WithSelection(wish[b])
  <2>1. Contract!Select
    BY <1>1, <1>2, <1>3, RegisterOfAcceptances DEF Contract!Select
  <2> QED
    BY <2>1 DEF Contract!Next
<1>4. CASE history = WithSelection(wish[b]) /\ history' = Lineage(wish[b])
  <2>1. Register = Contract!Selected(wish[b]) /\ Register' = Contract!Bound(wish[b])
    BY <1>2, <1>4, RegisterOfAcceptances
  <2>2. Contract!Bind
    BY <2>1 DEF Contract!Bind, Contract!Selected
  <2> QED
    BY <2>2 DEF Contract!Next
<1> QED
  BY <1>3, <1>4 DEF Extends

LEMMA ContinueRefines ==
  ASSUME BindInv, NEW b \in Binders, NEW appended \in {"nothing", "selection", "binding"},
         Continue(b, appended), UNCHANGED history
  PROVE  Contract!Next \/ UNCHANGED <<Register, evidence>>
<1>1. UNCHANGED Register
  BY DEF Register
<1>2. CASE IsTold(b)
  <2>1. Register = Contract!Bound(wish[b])
    BY <1>2, RegisterOfAcceptances DEF IsTold
  <2>2. Contract!Tell(b)
    BY <1>1, <1>2, <2>1 DEF IsTold, Contract!Tell, Contract!Bound
  <2> QED
    BY <2>2 DEF Contract!Next
<1>3. CASE Refused(b) \/ GoesOn(b)
  BY <1>1, <1>3 DEF Refused, GoesOn
<1> QED
  BY <1>2, <1>3, ContinueOutcomes

LEMMA OthersRefine ==
  ASSUME BindInv, CreateRun \/ AppendForeign
  PROVE  UNCHANGED <<Register, evidence>>
<1>1. CASE CreateRun
  <2>1. Len(history) = 0 /\ Len(history') = 1
    BY <1>1 DEF BindInv, LedgerInv, CreateRun
  <2> QED
    BY <1>1, <2>1 DEF Register, CreateRun, callers
<1>2. CASE AppendForeign
  <2>1. PICK e \in ForeignEvents : history' = Append(history, e) /\ history # <<>>
    BY <1>2 DEF AppendForeign, Appends
  <2>2. e \in Events /\ e.type \notin {"selection", "binding"} /\ history \in Seq(Events)
    BY EventsTyped DEF ForeignEvents, BindInv, BindingTypes
  <2>3. /\ Len(history') = Len(history) + 1 /\ Len(history) \in Nat /\ Len(history) >= 1
        /\ \A i \in 1 .. Len(history) : history'[i] = history[i]
        /\ history'[Len(history) + 1] = e
    BY <2>1, <2>2, AppendKeepsStart
  <2>4. Len(history) >= 2 => history'[2] = history[2]
    BY <2>3
  <2>5. Len(history) >= 3 => history'[3] = history[3]
    BY <2>3
  <2>6. Len(history) = 2 => history'[3].type # "binding"
    BY <2>2, <2>3
  <2>7. Len(history) = 1 => history'[2].type # "selection"
    BY <2>2, <2>3
  <2>8. UNCHANGED Register
    <3>1. CASE Len(history) = 1
      BY <2>3, <2>7, <3>1 DEF Register
    <3>2. CASE Len(history) = 2
      BY <2>3, <2>4, <2>6, <3>2 DEF Register
    <3>3. CASE Len(history) >= 3
      BY <2>3, <2>4, <2>5, <3>3 DEF Register
    <3>4. Len(history) = 1 \/ Len(history) = 2 \/ Len(history) >= 3
      BY <2>3, Lengths, Zenon
    <3> QED
      BY <3>1, <3>2, <3>3, <3>4, Zenon
  <2> QED
    BY <1>2, <2>8 DEF AppendForeign, callers
<1> QED
  BY <1>1, <1>2

LEMMA StepRefines ==
  ASSUME BindInv, [BindingNext]_vars
  PROVE  [Contract!Next]_(Contract!contract)
<1> SUFFICES Contract!Next \/ UNCHANGED <<Register, evidence>>
  BY DEF Contract!contract
<1>1. CASE CreateRun \/ AppendForeign
  BY <1>1, OthersRefine
<1>2. ASSUME NEW b \in Binders, Start(b) PROVE Contract!Next \/ UNCHANGED <<Register, evidence>>
  <2>1. CASE Continue(b, "nothing")
    BY <1>2, <2>1, ContinueRefines DEF Start
  <2>2. CASE Unread(b)
    BY <1>2, <2>2 DEF Start, Unread, Register
  <2> QED
    BY <1>2, <2>1, <2>2 DEF Start
<1>3. ASSUME NEW b \in Binders, Reread(b) PROVE Contract!Next \/ UNCHANGED <<Register, evidence>>
  <2>1. CASE Continue(b, Missing(read[b]))
    BY <1>3, <2>1, ContinueRefines, MissingTyped DEF Reread
  <2>2. CASE Unread(b)
    BY <1>3, <2>2 DEF Reread, Unread, Register
  <2> QED
    BY <1>3, <2>1, <2>2 DEF Reread
<1>4. ASSUME NEW b \in Binders, AppendOnce(b) PROVE Contract!Next \/ UNCHANGED <<Register, evidence>>
  <2>1. UNCHANGED evidence /\ (Extends(b) \/ UNCHANGED history)
    BY <1>4, AppendOutcomes
  <2>2. CASE Extends(b)
    BY <2>1, <2>2, ExtendsRefines
  <2>3. CASE UNCHANGED history
    BY <2>1, <2>3 DEF Register
  <2> QED
    BY <2>1, <2>2, <2>3
<1>5. ASSUME NEW b \in Binders, Confirm(b) \/ Die(b) \/ Retry(b) PROVE UNCHANGED <<Register, evidence>>
  BY <1>5 DEF Confirm, Die, Retry, Register
<1>6. CASE UNCHANGED vars
  BY <1>6 DEF vars, callers, Register
<1> QED
  BY <1>1, <1>2, <1>3, <1>4, <1>5, <1>6 DEF BindingNext, Call

\* Binding implements the contract: the ledger is a register that is written
\* at most once, and evidence is handed only to those who wished for what is
\* in it.
THEOREM BindingKeepsContract == Spec => KeepsContract
<1>1. Init => Contract!Init
  <2> SUFFICES ASSUME Init PROVE Contract!Init
    OBVIOUS
  <2>1. Len(history) = 0 /\ evidence = [b \in Binders |-> {}]
    BY DEF Init
  <2> QED
    BY <2>1 DEF Contract!Init, Contract!Open, Register
<1>2. BindInv /\ [BindingNext]_vars => [Contract!Next]_(Contract!contract)
  BY StepRefines
<1> QED
  BY <1>1, <1>2, BindInvHolds, PTL DEF Spec, KeepsContract, Contract!Spec

-----------------------------------------------------------------------------
(* The inspector and its rules, which are written apart from the binders'. *)

\* Evidence is handed out on proposal runs only.
ToldRunInv == \A b \in Binders : evidence[b] # {} => run = "proposal"

LEMMA ToldRunKept ==
  ASSUME BindInv, ToldRunInv, [BindingNext]_vars
  PROVE  ToldRunInv'
<1>1. CASE CreateRun
  <2>1. run = "absent" /\ UNCHANGED evidence
    BY <1>1 DEF CreateRun, callers
  <2> QED
    BY <2>1 DEF ToldRunInv
<1>2. CASE AppendForeign
  BY <1>2 DEF AppendForeign, callers, ToldRunInv
<1>3. ASSUME NEW b \in Binders, Call(b) \/ Die(b) \/ Retry(b) PROVE ToldRunInv'
  <2>1. UNCHANGED run
    BY <1>3 DEF Call, Start, AppendOnce, Confirm, Reread, Die, Retry
  <2>2. UNCHANGED evidence \/ (run = "proposal" /\ \E w : evidence' = [evidence EXCEPT ![b] = @ \cup {w}])
    BY <1>3 DEF Call, Start, AppendOnce, Confirm, Reread, Die, Retry, Unread, Continue, Conclude
  <2> QED
    BY <2>1, <2>2 DEF ToldRunInv, BindInv, BindingTypes
<1>4. CASE UNCHANGED vars
  BY <1>4 DEF vars, callers, ToldRunInv
<1> QED
  BY <1>1, <1>2, <1>3, <1>4 DEF BindingNext

LEMMA CodesOfJust == Codes("proposal", Just) = IncompleteCodes
<1> DEFINE h == Just
<1>1. /\ TheOnly(h, "status") = {1} /\ TheOnly(h, "selection") = {} /\ TheOnly(h, "binding") = {}
      /\ Bearing(h) = {1} /\ h[1] = Created /\ DOMAIN h = {1} /\ Len(h) = 1
  <2>1. Rows(h, "status") = {1} /\ Rows(h, "selection") = {} /\ Rows(h, "binding") = {}
    BY RowsOfAcceptances
  <2>2. TheOnly(h, "status") = {1} /\ TheOnly(h, "selection") = {} /\ TheOnly(h, "binding") = {}
    BY <2>1 DEF TheOnly
  <2> QED
    BY <2>2, RowsOfAcceptances, LedgerFields
<1>2. StatusCodes(h) = {}
  BY <1>1 DEF StatusCodes, CreatedValid, AtMostOne
<1>3. CountCodes(h) = IncompleteCodes
  <2>1. \A i \in DOMAIN h : h[i].type \in Types
    BY <1>1, EventFields DEF Types
  <2>2. Count(h, "selection", "registration_selection_missing", "registration_selection_duplicate")
          = {"registration_selection_missing"}
    BY RowsOfAcceptances DEF Count
  <2>3. Count(h, "binding", "repository_proposal_binding_missing", "repository_proposal_binding_duplicate")
          = {"repository_proposal_binding_missing"}
    BY RowsOfAcceptances DEF Count
  <2> HIDE DEF h
  <2> QED
    BY <2>1, <2>2, <2>3 DEF CountCodes, IncompleteCodes
<1>4. LinkCodes(h) = {} /\ OrderCodes(h) = {}
  BY <1>1 DEF LinkCodes, OrderCodes
<1>5. ExactPrefix(h)
  BY <1>1, EventFields DEF ExactPrefix, AtMostOne, Types
<1> HIDE DEF h
<1>6. Codes("proposal", h) = IncompleteCodes
  BY <1>1, <1>2, <1>3, <1>4, <1>5 DEF Codes, RunnerCodes, MaxInspectedEvents
<1> QED
  BY <1>6 DEF h

LEMMA CodesOfWithSelection ==
  ASSUME NEW w
  PROVE  Codes("proposal", WithSelection(w)) = {"repository_proposal_binding_missing"}
<1> DEFINE h == WithSelection(w)
<1>1. /\ TheOnly(h, "status") = {1} /\ TheOnly(h, "selection") = {2} /\ TheOnly(h, "binding") = {}
      /\ Bearing(h) = {1} /\ h[1] = Created /\ h[2] = Selection(w) /\ DOMAIN h = {1, 2} /\ Len(h) = 2
  <2>1. Rows(h, "status") = {1} /\ Rows(h, "selection") = {2} /\ Rows(h, "binding") = {}
    BY RowsOfAcceptances
  <2>2. TheOnly(h, "status") = {1} /\ TheOnly(h, "selection") = {2} /\ TheOnly(h, "binding") = {}
    BY <2>1 DEF TheOnly
  <2> QED
    BY <2>2, RowsOfAcceptances, LedgerFields
<1>2. StatusCodes(h) = {}
  BY <1>1 DEF StatusCodes, CreatedValid, AtMostOne
<1>3. CountCodes(h) = {"repository_proposal_binding_missing"}
  <2>1. \A i \in DOMAIN h : h[i].type \in Types
    BY <1>1, EventFields DEF Types
  <2>2. Count(h, "selection", "registration_selection_missing", "registration_selection_duplicate") = {}
    BY RowsOfAcceptances DEF Count, AtMostOne
  <2>3. Count(h, "binding", "repository_proposal_binding_missing", "repository_proposal_binding_duplicate")
          = {"repository_proposal_binding_missing"}
    BY RowsOfAcceptances DEF Count
  <2> HIDE DEF h
  <2> QED
    BY <2>1, <2>2, <2>3 DEF CountCodes
<1>4. LinkCodes(h) = {} /\ OrderCodes(h) = {}
  BY <1>1 DEF LinkCodes, OrderCodes
<1>5. ExactPrefix(h)
  BY <1>1, EventFields DEF ExactPrefix, AtMostOne, Types
<1> HIDE DEF h
<1>6. Codes("proposal", h) = {"repository_proposal_binding_missing"}
  BY <1>1, <1>2, <1>3, <1>4, <1>5 DEF Codes, RunnerCodes, MaxInspectedEvents
<1> QED
  BY <1>6 DEF h

LEMMA CodesOfLineage ==
  ASSUME NEW w
  PROVE  Codes("proposal", Lineage(w)) = {}
<1> DEFINE h == Lineage(w)
<1>1. /\ TheOnly(h, "status") = {1} /\ TheOnly(h, "selection") = {2} /\ TheOnly(h, "binding") = {3}
      /\ Bearing(h) = {1} /\ h[1] = Created /\ h[2] = Selection(w) /\ h[3] = Binding(w)
      /\ DOMAIN h = {1, 2, 3} /\ Len(h) = 3
  <2>1. Rows(h, "status") = {1} /\ Rows(h, "selection") = {2} /\ Rows(h, "binding") = {3}
    BY RowsOfAcceptances
  <2>2. TheOnly(h, "status") = {1} /\ TheOnly(h, "selection") = {2} /\ TheOnly(h, "binding") = {3}
    BY <2>1 DEF TheOnly
  <2> QED
    BY <2>2, RowsOfAcceptances, LedgerFields
<1>2. StatusCodes(h) = {}
  BY <1>1 DEF StatusCodes, CreatedValid, AtMostOne
<1>3. CountCodes(h) = {}
  <2>1. \A i \in DOMAIN h : h[i].type \in Types
    BY <1>1, EventFields DEF Types
  <2>2. Count(h, "selection", "registration_selection_missing", "registration_selection_duplicate") = {}
    BY RowsOfAcceptances DEF Count, AtMostOne
  <2>3. Count(h, "binding", "repository_proposal_binding_missing", "repository_proposal_binding_duplicate") = {}
    BY RowsOfAcceptances DEF Count, AtMostOne
  <2> HIDE DEF h
  <2> QED
    BY <2>1, <2>2, <2>3 DEF CountCodes
<1>4. LinkCodes(h) = {} /\ OrderCodes(h) = {}
  BY <1>1, EventFields DEF LinkCodes, OrderCodes
<1>5. ExactPrefix(h)
  BY <1>1, EventFields DEF ExactPrefix, AtMostOne, Types
<1> HIDE DEF h
<1>6. Codes("proposal", h) = {}
  BY <1>1, <1>2, <1>3, <1>4, <1>5 DEF Codes, RunnerCodes, MaxInspectedEvents
<1> QED
  BY <1>6 DEF h

LEMMA CoverageOfAcceptances ==
  ASSUME NEW w
  PROVE  /\ Coverage("proposal", Just) = "incomplete"
         /\ Coverage("proposal", WithSelection(w)) = "incomplete"
         /\ Coverage("proposal", Lineage(w)) = "complete"
<1>1. Len(Just) = 1 /\ Len(WithSelection(w)) = 2 /\ Len(Lineage(w)) = 3
  BY LedgerFields
<1>2. IncompleteCodes # {}
  BY DEF IncompleteCodes
<1> QED
  BY <1>1, <1>2, CodesOfJust, CodesOfWithSelection, CodesOfLineage DEF Coverage

\* What is missing, and a runner that is not the proposal runner, is never
\* without a code.
LEMMA CodesTell ==
  ASSUME NEW kind, NEW h
  PROVE  /\ "runner_invalid" \notin Codes(kind, h) => kind = "proposal"
         /\ Len(h) \in {1, 2, 3} =>
              /\ "registration_selection_missing" \notin Codes(kind, h) => Rows(h, "selection") # {}
              /\ "repository_proposal_binding_missing" \notin Codes(kind, h) => Rows(h, "binding") # {}
<1>1. RunnerCodes(kind) \subseteq Codes(kind, h)
  BY DEF Codes
<1>2. ASSUME Len(h) \in {1, 2, 3} PROVE CountCodes(h) \subseteq Codes(kind, h)
  <2>1. ~ (Len(h) > MaxInspectedEvents)
    <3>1. \A n : n \in {1, 2, 3} => ~ (n > 4)
      OBVIOUS
    <3> QED
      BY <1>2, <3>1, Zenon DEF MaxInspectedEvents
  <2> QED
    BY <2>1, Zenon DEF Codes
<1>3. Rows(h, "selection") = {} => "registration_selection_missing" \in CountCodes(h)
  BY DEF CountCodes, Count
<1>4. Rows(h, "binding") = {} => "repository_proposal_binding_missing" \in CountCodes(h)
  BY DEF CountCodes, Count
<1> QED
  BY <1>1, <1>2, <1>3, <1>4 DEF RunnerCodes

\* In a ledger the binders can leave, an event in its place is the right one.
LEMMA PlacesTell ==
  ASSUME BindInv, history # <<>>
  PROVE  /\ Len(history) = 1 => history = Just
         /\ Len(history) = 2 /\ Rows(history, "selection") # {}
              => \E w \in Wishes : history = WithSelection(w)
         /\ Len(history) = 3 /\ Rows(history, "selection") # {} /\ Rows(history, "binding") # {}
              => \E w \in Wishes : history = Lineage(w)
<1>1. history \in Seq(Events) /\ history[1] = Created /\ OneLineage
  BY DEF BindInv, BindingTypes, LedgerInv
<1>2. \A e \in Events : /\ e.type = "selection" => \E w \in Wishes : e = Selection(w)
                        /\ e.type = "binding" => \E w \in Wishes : e = Binding(w)
  BY EventFields DEF Events, ForeignEvents
<1>3. \A i \in DOMAIN history : history[i] \in Events
  BY <1>1
<1>4. Len(history) = 1 => history = Just
  BY <1>1 DEF Just
<1>5. Rows(history, "selection") # {} => 2 \in DOMAIN history /\ history[2].type = "selection"
  BY <1>1 DEF Rows, OneLineage
<1>6. Rows(history, "binding") # {} =>
        3 \in DOMAIN history /\ history[3].type = "binding" /\ history[2] = Selection(history[3].of)
  BY <1>1 DEF Rows, OneLineage
<1>7. ASSUME Len(history) = 2, Rows(history, "selection") # {}
      PROVE  \E w \in Wishes : history = WithSelection(w)
  <2>1. PICK w \in Wishes : history[2] = Selection(w)
    BY <1>2, <1>3, <1>5, <1>7
  <2>2. history = WithSelection(w)
    BY <1>1, <1>7, <2>1 DEF WithSelection
  <2> QED
    BY <2>2
<1>8. ASSUME Len(history) = 3, Rows(history, "selection") # {}, Rows(history, "binding") # {}
      PROVE  \E w \in Wishes : history = Lineage(w)
  <2>1. PICK w \in Wishes : history[3] = Binding(w)
    BY <1>2, <1>3, <1>6, <1>8
  <2>2. history[2] = Selection(w)
    BY <1>6, <1>8, <2>1, EventFields
  <2>3. history = Lineage(w)
    BY <1>1, <1>8, <2>1, <2>2 DEF Lineage
  <2> QED
    BY <2>3
<1> QED
  BY <1>4, <1>7, <1>8

LEMMA CoverageTells ==
  ASSUME BindInv, history # <<>>
  PROVE  /\ Coverage(run, history) = "complete" =>
              run = "proposal" /\ \E w \in Wishes : history = Lineage(w)
         /\ Coverage(run, history) = "incomplete" =>
              run = "proposal" /\ (history = Just \/ \E w \in Wishes : history = WithSelection(w))
<1>1. ASSUME Coverage(run, history) = "complete"
      PROVE  run = "proposal" /\ \E w \in Wishes : history = Lineage(w)
  <2>1. Codes(run, history) = {} /\ Len(history) = 3
    BY <1>1 DEF Coverage
  <2> QED
    BY <2>1, CodesTell, PlacesTell
<1>2. ASSUME Coverage(run, history) = "incomplete"
      PROVE  run = "proposal" /\ (history = Just \/ \E w \in Wishes : history = WithSelection(w))
  <2>1. \/ Len(history) = 1 /\ Codes(run, history) = IncompleteCodes
        \/ Len(history) = 2 /\ Codes(run, history) = {"repository_proposal_binding_missing"}
    BY <1>2 DEF Coverage
  <2>2. "runner_invalid" \notin Codes(run, history)
    BY <2>1 DEF IncompleteCodes
  <2> QED
    BY <2>1, <2>2, CodesTell, PlacesTell
<1> QED
  BY <1>1, <1>2

LEMMA AgreesAlways == BindInv => InspectorAgreesWithBinders
<1> DEFINE accepted == {w \in Wishes : run = "proposal" /\ Acceptable(history, w)}
           complete == {w \in accepted : Missing(history) = "none"}
           coverage == Coverage(run, history)
<1> SUFFICES ASSUME BindInv, history # <<>>
             PROVE  /\ coverage = "complete" <=> complete # {} /\ Len(history) = 3
                    /\ coverage = "incomplete" <=> accepted # complete
                    /\ coverage = "invalid" <=> accepted = {}
  BY DEF InspectorAgreesWithBinders
<1>1. coverage \in {"complete", "incomplete", "invalid"}
  BY DEF Coverage
<1>2. \A w \in accepted : run = "proposal" /\ history \in Acceptances(w)
  BY OnlyAcceptancesAreAccepted DEF BindInv, BindingTypes
<1>3. ASSUME run = "proposal", NEW w \in Wishes, history \in Acceptances(w) PROVE w \in accepted
  BY <1>3, AcceptancesAreAccepted
<1>4. CASE coverage = "complete"
  <2>1. PICK w \in Wishes : history = Lineage(w) /\ run = "proposal"
    BY <1>4, CoverageTells
  <2>2. w \in accepted /\ Missing(history) = "none" /\ Len(history) = 3
    BY <1>3, <2>1, MissingOfAcceptances, LedgerFields DEF Acceptances
  <2> QED
    BY <1>4, <2>2
<1>5. CASE coverage = "incomplete"
  <2>1. PICK w \in Wishes : history \in {Just, WithSelection(w)} /\ run = "proposal"
    BY <1>5, CoverageTells, BindingAssumption
  <2>2. w \in accepted /\ Missing(history) # "none"
    BY <1>3, <2>1, MissingOfAcceptances DEF Acceptances
  <2> QED
    BY <1>5, <2>2
<1>6. CASE coverage = "invalid"
  <2>1. accepted = {}
    <3> SUFFICES ASSUME NEW w \in accepted PROVE FALSE
      OBVIOUS
    <3>1. run = "proposal" /\ history \in {Just, WithSelection(w), Lineage(w)}
      BY <1>2 DEF Acceptances
    <3>2. coverage # "invalid"
      BY <3>1, CoverageOfAcceptances
    <3> QED
      BY <1>6, <3>2
  <2> QED
    BY <1>6, <2>1
<1> QED
  BY <1>1, <1>4, <1>5, <1>6

LEMMA EvidenceIsConfirmed == BindInv /\ ToldRunInv => EvidenceInspectsComplete
<1> SUFFICES ASSUME BindInv, ToldRunInv, NEW b \in Binders, evidence[b] # {}, foreign = 0
             PROVE  Coverage(run, history) = "complete"
  BY DEF EvidenceInspectsComplete
<1>1. PICK w \in evidence[b] : Starts(history, w)
  BY DEF BindInv, ToldInv
<1>2. history \in Seq(Events) /\ Len(history) \in Nat /\ Len(history) <= 3
  BY DEF BindInv, BindingTypes, LedgerInv
<1>3. Len(history) = 3
  <2>1. \A n \in Nat : n >= 3 /\ n <= 3 => n = 3
    OBVIOUS
  <2> QED
    BY <1>1, <1>2, <2>1, Zenon DEF Starts
<1>4. history = Lineage(w)
  BY <1>1, <1>2, <1>3 DEF Starts, Lineage
<1> QED
  BY <1>4, CoverageOfAcceptances DEF ToldRunInv

\* The verifier's facts are those the shadow was built on.
\* What the verifier accepts under each status.
LEMMA VerifierAccepts ==
  ASSUME NEW r, NEW blocks
  PROVE  /\ Verifies([status |-> "evaluated", blocks |-> blocks, material |-> TRUE, report |-> r])
              <=> Clean(r) /\ blocks = {}
         /\ ~ Verifies([status |-> "evaluated", blocks |-> blocks, material |-> FALSE, report |-> r])
         /\ Verifies([status |-> "not_evaluated", blocks |-> blocks, material |-> FALSE, report |-> r])
              <=> ~ Clean(r) /\ blocks = {"inspection_not_clean_complete"}
         /\ ~ Verifies([status |-> "not_evaluated", blocks |-> blocks, material |-> TRUE, report |-> r])
         /\ Verifies([status |-> "failed", blocks |-> blocks, material |-> FALSE, report |-> r])
              <=> /\ Clean(r)
                  /\ blocks \in {{"authorization_evaluation_failed"}, {"authorization_replay_mismatch"}}
         /\ ~ Verifies([status |-> "failed", blocks |-> blocks, material |-> TRUE, report |-> r])
  BY DEF Verifies, VerifiesEvaluated, VerifiesNotEvaluated, VerifiesFailed, Clean, CleanComplete

LEMMA ShadowsDoVerify == ShadowsVerify
<1> SUFFICES ASSUME NEW evaluates \in Evaluations
             PROVE  /\ Verifies(Shadow(report, evaluates))
                    /\ \A status \in {"evaluated", "not_evaluated", "failed"} \ {Shadow(report, evaluates).status} :
                         ~ Verifies([Shadow(report, evaluates) EXCEPT !.status = status])
  BY DEF ShadowsVerify
<1>1. PICK yes, no : yes = TRUE /\ no = FALSE
  OBVIOUS
<1>2. CASE ~ Clean(report)
  <2> DEFINE shadow(t) == [status |-> t, blocks |-> {"inspection_not_clean_complete"},
                           material |-> no, report |-> report]
  <2>1. Shadow(report, evaluates) = shadow("not_evaluated")
    BY <1>1, <1>2 DEF Shadow
  <2>2. Verifies(shadow("not_evaluated")) /\ ~ Verifies(shadow("evaluated")) /\ ~ Verifies(shadow("failed"))
    BY <1>2, <1>1, VerifierAccepts
  <2>3. \A s, t : shadow(s).status = s /\ [shadow(s) EXCEPT !.status = t] = shadow(t)
    OBVIOUS
  <2> HIDE DEF shadow
  <2> QED
    BY <2>1, <2>2, <2>3
<1>3. CASE Clean(report) /\ evaluates # "replays"
  <2> DEFINE shadow(t) == [status |-> t, blocks |-> {evaluates}, material |-> no, report |-> report]
  <2>1. Shadow(report, evaluates) = shadow("failed")
    BY <1>1, <1>3 DEF Shadow
  <2>2. {evaluates} \in {{"authorization_evaluation_failed"}, {"authorization_replay_mismatch"}}
    BY <1>3 DEF Evaluations
  <2>3. Verifies(shadow("failed")) /\ ~ Verifies(shadow("evaluated")) /\ ~ Verifies(shadow("not_evaluated"))
    BY <1>3, <2>2, <1>1, VerifierAccepts
  <2>4. \A s, t : shadow(s).status = s /\ [shadow(s) EXCEPT !.status = t] = shadow(t)
    OBVIOUS
  <2> HIDE DEF shadow
  <2> QED
    BY <2>1, <2>3, <2>4
<1>4. CASE Clean(report) /\ evaluates = "replays"
  <2> DEFINE shadow(t) == [status |-> t, blocks |-> {}, material |-> yes, report |-> report]
  <2>1. Shadow(report, evaluates) = shadow("evaluated")
    BY <1>1, <1>4 DEF Shadow
  <2>2. Verifies(shadow("evaluated")) /\ ~ Verifies(shadow("failed")) /\ ~ Verifies(shadow("not_evaluated"))
    BY <1>4, <1>1, VerifierAccepts
  <2>3. \A s, t : shadow(s).status = s /\ [shadow(s) EXCEPT !.status = t] = shadow(t)
    OBVIOUS
  <2> HIDE DEF shadow
  <2> QED
    BY <2>1, <2>2, <2>3
<1> QED
  BY <1>2, <1>3, <1>4

-----------------------------------------------------------------------------
(* The store's files, and an inspection that reads them while they change. *)

Size == Len(history)

Wals == [from : Nat, to : Nat]

FilesTyped ==
  /\ main \in Nat /\ wal \in Wals
  /\ before \in [main : Nat, wal : Wals]
  /\ copy \in [main : Nat, wal : Wals]
  /\ since \in Nat /\ step \in 0 .. 9

\* The log, while there is one, holds all that the database file may lack.
FilesInv ==
  /\ main <= Size
  /\ wal = NoWal => main = Size
  /\ wal # NoWal => wal.from <= main /\ wal.to = Size

\* The view is the first events of the ledger, and not fewer than it had when
\* the inspection began.
TrueView == \E n \in Nat : since <= n /\ n <= Size /\ view = SubSeq(history, 1, n)

\* The signatures taken are those of two files that together hold such a view.
TrueSignatures ==
  /\ before.main <= Size /\ before.wal.to <= Size
  /\ before.wal.from <= before.main
  /\ since <= before.main \/ since <= before.wal.to

\* The database file only grows; a signature of the log that was taken with a
\* database file that has grown since leads nowhere.
LookInv ==
  /\ step # 0 => report = NoReport /\ since <= Size
  /\ step >= 2 => before.main <= main
  /\ step >= 3 => before.main < main \/ TrueSignatures
  /\ step >= 4 => TrueSignatures /\ copy.main = before.main
  /\ step >= 5 => copy.wal = before.wal
  /\ step >= 8 => TrueView
  /\ Judged(report) => TrueView
  /\ report.coverage \in {"none", "changed", "complete", "incomplete", "invalid"}

InspectInv == FilesTyped /\ FilesInv /\ LookInv

LEMMA SizeTyped == ASSUME BindInv PROVE Size \in Nat
  BY DEF BindInv, BindingTypes, Size

LEMMA NoWalTyped == NoWal \in Wals /\ NoWal.from = 0 /\ NoWal.to = 0
  BY DEF NoWal, Wals

\* A step of the store adds at most one event, at the end.
LEMMA LedgerGrows ==
  ASSUME BindInv, [BindingNext]_vars
  PROVE  \/ UNCHANGED history
         \/ Size' = Size + 1 /\ \E e \in Events : history' = Append(history, e)
<1>1. ASSUME NEW e \in Events, history' = Append(history, e) PROVE Size' = Size + 1
  BY <1>1, AppendKeepsStart DEF BindInv, BindingTypes, Size
<1>2. CASE CreateRun
  <2>1. history = <<>> /\ history' = <<Created>> /\ Created \in Events
    BY <1>2, EventsTyped DEF BindInv, LedgerInv, CreateRun
  <2>2. history' = Append(history, Created)
    BY <2>1
  <2> QED
    BY <1>1, <2>1, <2>2
<1>3. CASE AppendForeign
  BY <1>1, <1>3, EventsTyped DEF AppendForeign
<1>4. ASSUME NEW b \in Binders, AppendOnce(b)
      PROVE  UNCHANGED history \/ \E e \in Events : history' = Append(history, e)
  <2>1. wish[b] \in Wishes
    BY DEF BindInv, BindingTypes
  <2>2. /\ WithSelection(wish[b]) = Append(Just, Selection(wish[b]))
        /\ Lineage(wish[b]) = Append(WithSelection(wish[b]), Binding(wish[b]))
        /\ Selection(wish[b]) \in Events /\ Binding(wish[b]) \in Events
    BY <2>1, AppendToAcceptances, EventsTyped
  <2>3. UNCHANGED history \/ Extends(b)
    BY <1>4, AppendOutcomes
  <2> QED
    BY <2>2, <2>3 DEF Extends
<1>5. ASSUME NEW b \in Binders, Start(b) \/ Confirm(b) \/ Reread(b) \/ Die(b) \/ Retry(b)
      PROVE  UNCHANGED history
  BY <1>5 DEF Start, Confirm, Reread, Die, Retry
<1>6. CASE UNCHANGED vars
  BY <1>6 DEF vars
<1> QED
  BY <1>1, <1>2, <1>3, <1>4, <1>5, <1>6 DEF BindingNext, Call

\* What the ledger began with it begins with after a step.
LEMMA FirstEventsStay ==
  ASSUME BindInv, [BindingNext]_vars, NEW n \in Nat, n <= Size
  PROVE  SubSeq(history', 1, n) = SubSeq(history, 1, n)
<1>1. CASE UNCHANGED history
  BY <1>1
<1>2. ASSUME NEW e \in Events, history' = Append(history, e)
      PROVE  SubSeq(history', 1, n) = SubSeq(history, 1, n)
  <2> DEFINE h == Append(history, e)
             s == SubSeq(history, 1, n)
             t == SubSeq(h, 1, n)
  <2>1. history \in Seq(Events) /\ Len(history) = Size /\ Size \in Nat
    BY SizeTyped DEF BindInv, BindingTypes, Size
  <2>2. h \in Seq(Events) /\ Len(h) = Size + 1 /\ \A i \in 1 .. Size : h[i] = history[i]
    BY <2>1, AppendKeepsStart
  <2> HIDE DEF h
  <2>3. \A i \in 1 .. n : i \in 1 .. Size /\ history[i] \in Events /\ h[i] \in Events
    BY <2>1, <2>2
  <2>4. s \in Seq(Events) /\ Len(s) = n /\ \A i \in 1 .. n : s[i] = history[i]
    BY <2>3, SubSeqProperties
  <2>5. t \in Seq(Events) /\ Len(t) = n /\ \A i \in 1 .. n : t[i] = h[i]
    BY <2>3, SubSeqProperties
  <2> HIDE DEF s, t
  <2>6. s = t
    BY <2>2, <2>3, <2>4, <2>5, SeqEqual
  <2> QED
    BY <1>2, <2>6 DEF h, s, t
<1> QED
  BY <1>1, <1>2, LedgerGrows

LEMMA TrueViewStays ==
  ASSUME BindInv, [BindingNext]_vars, UNCHANGED <<since, view>>
  PROVE  /\ Size \in Nat /\ Size' \in Nat /\ Size <= Size'
         /\ TrueView => TrueView'
<1>1. Size \in Nat
  BY SizeTyped
<1>2. Size' = Size \/ Size' = Size + 1
  BY LedgerGrows DEF Size
<1>3. ASSUME TrueView PROVE TrueView'
  <2>1. PICK n \in Nat : since <= n /\ n <= Size /\ view = SubSeq(history, 1, n)
    BY <1>3 DEF TrueView
  <2>2. view = SubSeq(history', 1, n)
    BY <2>1, FirstEventsStay
  <2>3. n <= Size'
    BY <1>1, <1>2, <2>1
  <2> QED
    BY <2>1, <2>2, <2>3 DEF TrueView
<1> QED
  BY <1>1, <1>2, <1>3

LEMMA StoreStepKeeps ==
  ASSUME BindInv, InspectInv, StoreStep
  PROVE  InspectInv'
<1>1. BindingNext /\ LogAfterCommit /\ UNCHANGED <<main, inspector>>
  BY DEF StoreStep
<1>2. UNCHANGED <<step, before, copy, view, since, report, inspected>>
  BY <1>1 DEF inspector
<1>3. Size \in Nat /\ Size' \in Nat /\ Size <= Size' /\ (TrueView => TrueView')
  BY <1>1, <1>2, TrueViewStays
<1>4. FilesTyped' /\ FilesInv'
  <2>1. main \in Nat /\ wal \in Wals
    BY DEF InspectInv, FilesTyped
  <2>2. CASE UNCHANGED history
    BY <1>1, <1>2, <2>2 DEF InspectInv, FilesTyped, FilesInv, LogAfterCommit, Size
  <2>3. CASE ~ UNCHANGED history
    <3>1. Size' = Size + 1
      BY <1>1, <2>3, LedgerGrows
    <3>2. wal' = [from |-> IF wal = NoWal \/ main = wal.to THEN Size ELSE wal.from, to |-> Size']
      BY <1>1, <2>3 DEF LogAfterCommit, Size
    <3>3. wal'.to = Size' /\ (wal'.from = Size \/ wal'.from = wal.from)
      BY <3>2
    <3>4. wal' \in Wals /\ wal' # NoWal
      BY <1>3, <2>1, <3>1, <3>2, <3>3, NoWalTyped DEF Wals
    <3>5. wal'.from <= main
      <4>1. CASE wal = NoWal
        BY <1>3, <2>1, <3>2, <4>1 DEF InspectInv, FilesInv
      <4>2. CASE wal # NoWal /\ main = wal.to
        BY <1>3, <2>1, <3>2, <4>2 DEF InspectInv, FilesInv
      <4>3. CASE wal # NoWal /\ main # wal.to
        BY <3>2, <4>3 DEF InspectInv, FilesInv
      <4> QED
        BY <4>1, <4>2, <4>3
    <3>6. main <= Size'
      BY <1>3, <2>1, <3>1 DEF InspectInv, FilesInv
    <3> QED
      BY <1>1, <1>2, <3>3, <3>4, <3>5, <3>6 DEF InspectInv, FilesTyped, FilesInv
  <2> QED
    BY <2>2, <2>3
<1>5. LookInv'
  <2>1. TrueSignatures => TrueSignatures'
    <3>1. before.main \in Nat /\ before.wal.to \in Nat
      BY DEF InspectInv, FilesTyped, Wals
    <3> QED
      BY <1>2, <1>3, <3>1 DEF TrueSignatures
  <2>2. step # 0 => since <= Size'
    BY <1>3 DEF InspectInv, FilesTyped, LookInv
  <2> QED
    BY <1>1, <1>2, <1>3, <2>1, <2>2 DEF InspectInv, LookInv, Judged
<1> QED
  BY <1>4, <1>5 DEF InspectInv

\* The store copies its log into the database file.
LEMMA MainGrowsKeeps ==
  ASSUME BindInv, InspectInv, main' = Size, wal' \in {wal, NoWal}, UNCHANGED <<vars, inspector>>
  PROVE  InspectInv'
<1>1. UNCHANGED history /\ UNCHANGED <<step, before, copy, view, since, report, inspected>>
  BY DEF vars, inspector
<1>2. Size' = Size /\ Size \in Nat
  BY <1>1, SizeTyped DEF Size
<1>3. main \in Nat /\ wal \in Wals /\ main <= main' /\ before.main \in Nat
  BY DEF InspectInv, FilesTyped, FilesInv
<1>4. FilesTyped'
  BY <1>1, <1>2, NoWalTyped DEF InspectInv, FilesTyped
<1>5. FilesInv'
  <2>1. wal # NoWal => wal.from \in Nat /\ wal.from <= main /\ wal.to = Size
    BY <1>3 DEF InspectInv, FilesInv, Wals
  <2> QED
    BY <1>2, <1>3, <2>1 DEF FilesInv
<1>6. LookInv'
  <2>1. (TrueSignatures => TrueSignatures') /\ (TrueView => TrueView')
    BY <1>1, <1>2 DEF TrueSignatures, TrueView
  <2> QED
    BY <1>1, <1>2, <1>3, <2>1 DEF InspectInv, LookInv, Judged
<1> QED
  BY <1>4, <1>5, <1>6 DEF InspectInv

LEMMA StoreClosesKeeps ==
  ASSUME BindInv, InspectInv, Checkpoint \/ CloseStore
  PROVE  InspectInv'
<1>1. main' = Size /\ wal' \in {wal, NoWal} /\ UNCHANGED <<vars, inspector>>
  BY DEF Checkpoint, CloseStore, Size
<1> QED
  BY <1>1, MainGrowsKeeps

LEMMA WhereTheInspectorIs ==
  /\ At("statMain") => step = 1
  /\ At("statWal") => step = 2
  /\ At("copyMain") => step = 3
  /\ At("copyWal") => step = 4
  /\ At("recheckMain") => step = 5
  /\ At("recheckWal") => step = 6
  /\ At("inspect") => step = 7
  /\ At("lastMain") => step = 8
  /\ At("lastWal") => step = 9
  BY DEF At, Steps

\* The steps of the inspector leave the store alone.
LEMMA IdleKeeps ==
  ASSUME InspectInv, Idle
  PROVE  Size' = Size /\ main' = main /\ wal' = wal /\ FilesInv' /\ UNCHANGED history
  BY DEF Idle, vars, files, Size, InspectInv, FilesInv

LEMMA BeginKeeps ==
  ASSUME BindInv, InspectInv, Begin
  PROVE  InspectInv'
<1>1. Size' = Size /\ main' = main /\ wal' = wal /\ FilesInv' /\ UNCHANGED history
  BY IdleKeeps DEF Begin
<1>2. step' = 1 /\ since' = Size /\ report' = NoReport /\ UNCHANGED <<before, copy, view>>
  BY DEF Begin, Size
<1>3. FilesTyped'
  BY <1>1, <1>2, SizeTyped DEF InspectInv, FilesTyped
<1>4. LookInv'
  BY <1>1, <1>2, SizeTyped DEF LookInv, Judged, NoReport
<1> QED
  BY <1>1, <1>3, <1>4 DEF InspectInv

LEMMA StatKeeps ==
  ASSUME BindInv, InspectInv, StatMain \/ StatWal
  PROVE  InspectInv'
<1>1. Size' = Size /\ main' = main /\ wal' = wal /\ FilesInv' /\ UNCHANGED history
  BY IdleKeeps DEF StatMain, StatWal
<1>2. UNCHANGED <<copy, view, since, report>>
  BY DEF StatMain, StatWal
<1>3. main \in Nat /\ wal \in Wals /\ before \in [main : Nat, wal : Wals] /\ Size \in Nat /\ since \in Nat
  BY SizeTyped DEF InspectInv, FilesTyped
<1>4. report = NoReport /\ since <= Size
  BY WhereTheInspectorIs DEF StatMain, StatWal, InspectInv, LookInv
<1>5. CASE StatMain
  <2>1. step' = 2 /\ before' = [before EXCEPT !.main = main]
    BY <1>5, WhereTheInspectorIs DEF StatMain, Advance
  <2>2. before' \in [main : Nat, wal : Wals] /\ before'.main = main
    BY <1>3, <2>1
  <2>3. FilesTyped'
    BY <1>1, <1>2, <2>1, <2>2 DEF InspectInv, FilesTyped
  <2>4. LookInv'
    BY <1>1, <1>2, <1>3, <1>4, <2>1, <2>2 DEF LookInv, Judged, NoReport
  <2> QED
    BY <1>1, <2>3, <2>4 DEF InspectInv
<1>6. CASE StatWal
  <2>1. step = 2 /\ step' = 3 /\ before' = [before EXCEPT !.wal = wal]
    BY <1>6, WhereTheInspectorIs DEF StatWal, Advance
  <2>2. before' \in [main : Nat, wal : Wals] /\ before'.main = before.main /\ before'.wal = wal
    BY <1>3, <2>1
  <2>3. FilesTyped'
    BY <1>1, <1>2, <2>1, <2>2 DEF InspectInv, FilesTyped
  <2>4. before.main <= main
    BY <2>1 DEF InspectInv, LookInv
  <2>5. before.main = main => TrueSignatures'
    <3> SUFFICES ASSUME before.main = main PROVE TrueSignatures'
      OBVIOUS
    <3>1. CASE wal = NoWal
      BY <1>1, <1>2, <1>3, <1>4, <2>2, <3>1, NoWalTyped DEF InspectInv, FilesInv, TrueSignatures
    <3>2. CASE wal # NoWal
      BY <1>1, <1>2, <1>3, <1>4, <2>2, <3>2 DEF InspectInv, FilesInv, TrueSignatures
    <3> QED
      BY <3>1, <3>2
  <2>6. LookInv'
    <3>1. before.main \in Nat
      BY <1>3
    <3> QED
      BY <1>1, <1>2, <1>3, <1>4, <2>1, <2>2, <2>4, <2>5, <3>1 DEF LookInv, Judged, NoReport
  <2> QED
    BY <1>1, <2>3, <2>6 DEF InspectInv
<1> QED
  BY <1>5, <1>6

\* A change that was noticed ends the inspection.
LEMMA ChangedKeeps ==
  ASSUME BindInv, InspectInv, Idle, Changed, UNCHANGED <<before, view, since>>,
         copy' \in [main : Nat, wal : Wals]
  PROVE  InspectInv'
<1>1. Size' = Size /\ main' = main /\ wal' = wal /\ FilesInv' /\ UNCHANGED history
  BY IdleKeeps
<1>2. step' = 0 /\ report'.coverage = "changed"
  BY DEF Changed
<1>3. FilesTyped'
  BY <1>1, <1>2 DEF InspectInv, FilesTyped
<1>4. LookInv'
  BY <1>2 DEF LookInv, Judged
<1> QED
  BY <1>1, <1>3, <1>4 DEF InspectInv

\* An inspection that goes on keeps what it has.
LEMMA AdvanceKeeps ==
  ASSUME BindInv, InspectInv, Idle, step \in 3 .. 8, Advance, UNCHANGED <<before, since, report>>,
         copy' \in [main : Nat, wal : Wals],
         step >= 4 => copy'.main = copy.main,
         step >= 5 => copy'.wal = copy.wal,
         step >= 8 => UNCHANGED view,
         step = 3 => main = before.main /\ copy'.main = main,
         step = 4 => copy'.wal = before.wal,
         step = 7 => TrueView'
  PROVE  InspectInv'
<1>1. Size' = Size /\ main' = main /\ wal' = wal /\ FilesInv' /\ UNCHANGED history
  BY IdleKeeps
<1>2. step' = step + 1 /\ step' \in 4 .. 9
  BY DEF Advance
<1>3. main \in Nat /\ before.main \in Nat /\ Size \in Nat
  BY SizeTyped DEF InspectInv, FilesTyped
<1>4. FilesTyped'
  BY <1>1, <1>2 DEF InspectInv, FilesTyped
<1>5. TrueSignatures' <=> TrueSignatures
  BY <1>1 DEF TrueSignatures
<1>6. report = NoReport /\ since <= Size /\ before.main <= main
  BY DEF InspectInv, LookInv
<1>7. TrueSignatures /\ copy'.main = before.main
  <2>1. CASE step = 3
    BY <1>3, <2>1 DEF InspectInv, LookInv
  <2>2. CASE step >= 4
    BY <2>2 DEF InspectInv, LookInv
  <2> QED
    BY <2>1, <2>2
<1>8. step' >= 5 => copy'.wal = before.wal
  <2>1. CASE step >= 5
    BY <2>1 DEF InspectInv, LookInv
  <2> QED
    BY <1>2, <2>1
<1>9. step' >= 8 => TrueView'
  <2>1. CASE step >= 8
    BY <1>1, <2>1 DEF InspectInv, LookInv, TrueView
  <2> QED
    BY <1>2, <2>1
<1>10. LookInv'
  BY <1>1, <1>2, <1>5, <1>6, <1>7, <1>8, <1>9 DEF LookInv, Judged, NoReport
<1> QED
  BY <1>1, <1>4, <1>10 DEF InspectInv

LEMMA CopyKeeps ==
  ASSUME BindInv, InspectInv, CopyMain \/ CopyWal
  PROVE  InspectInv'
<1>1. /\ main \in Nat /\ wal \in Wals
      /\ before \in [main : Nat, wal : Wals] /\ copy \in [main : Nat, wal : Wals]
  BY DEF InspectInv, FilesTyped
<1>2. CASE CopyMain
  <2>1. step = 3 /\ Idle /\ UNCHANGED <<before, view, since>> /\ copy' = [copy EXCEPT !.main = main]
    BY <1>2, WhereTheInspectorIs DEF CopyMain
  <2>2. copy' \in [main : Nat, wal : Wals] /\ copy'.main = main
    BY <1>1, <2>1
  <2>3. Changed \/ (Advance /\ UNCHANGED report /\ main = before.main)
    BY <1>2 DEF CopyMain, Unchanged
  <2>4. CASE Changed
    BY <2>1, <2>2, <2>4, ChangedKeeps
  <2>5. CASE Advance /\ UNCHANGED report /\ main = before.main
    BY <2>1, <2>2, <2>5, AdvanceKeeps
  <2> QED
    BY <2>3, <2>4, <2>5
<1>3. CASE CopyWal
  <2>1. /\ step = 4 /\ Idle /\ UNCHANGED <<before, view, since>>
        /\ copy' = [copy EXCEPT !.wal = IF before.wal = NoWal THEN NoWal ELSE wal]
    BY <1>3, WhereTheInspectorIs DEF CopyWal
  <2>2. /\ copy' \in [main : Nat, wal : Wals] /\ copy'.main = copy.main
        /\ copy'.wal = IF before.wal = NoWal THEN NoWal ELSE wal
    BY <1>1, <2>1, NoWalTyped
  <2>3. Changed \/ (Advance /\ UNCHANGED report /\ (before.wal = NoWal \/ wal = before.wal))
    BY <1>3 DEF CopyWal, Unchanged
  <2>4. CASE Changed
    BY <2>1, <2>2, <2>4, ChangedKeeps
  <2>5. CASE Advance /\ UNCHANGED report /\ (before.wal = NoWal \/ wal = before.wal)
    BY <2>1, <2>2, <2>5, AdvanceKeeps
  <2> QED
    BY <2>3, <2>4, <2>5
<1> QED
  BY <1>2, <1>3

LEMMA CheckKeeps ==
  ASSUME BindInv, InspectInv, Recheck \/ LastCheckMain
  PROVE  InspectInv'
<1>1. step \in {5, 6, 8} /\ Idle /\ UNCHANGED <<before, copy, view, since>>
  BY WhereTheInspectorIs DEF Recheck, LastCheckMain
<1>2. copy' \in [main : Nat, wal : Wals]
  BY <1>1 DEF InspectInv, FilesTyped
<1>3. Changed \/ (Advance /\ UNCHANGED report)
  BY DEF Recheck, LastCheckMain
<1>4. CASE Changed
  BY <1>1, <1>2, <1>4, ChangedKeeps
<1>5. CASE Advance /\ UNCHANGED report
  BY <1>1, <1>2, <1>5, AdvanceKeeps
<1> QED
  BY <1>3, <1>4, <1>5

\* What is found in true copies is the first events of the ledger.
LEMMA FoundIsTrue ==
  ASSUME BindInv, InspectInv, TrueSignatures, copy.main = before.main, copy.wal = before.wal
  PROVE  \E n \in Nat : since <= n /\ n <= Size /\ Found(copy) = SubSeq(history, 1, n)
<1> DEFINE m == before.main
           t == before.wal.to
           rest == SubSeq(history, 1 + m, t)
<1>1. m \in Nat /\ t \in Nat /\ before.wal.from \in Nat /\ Size \in Nat /\ since \in Nat
  BY SizeTyped DEF InspectInv, FilesTyped, Wals
<1>2. m <= Size /\ t <= Size /\ before.wal.from <= m /\ (since <= m \/ since <= t)
  BY DEF TrueSignatures
<1>3. history \in Seq(Events) /\ Len(history) = Size
  BY DEF BindInv, BindingTypes, Size
<1>4. Found(copy) = SubSeq(history, 1, m) \o rest
  <2>1. ~ (before.wal.from > m)
    BY <1>1, <1>2
  <2> QED
    BY <2>1 DEF Found
<1> HIDE DEF m, t
<1>5. CASE m <= t
  <2>1. 1 \in 1 .. Size + 1 /\ m \in 1 - 1 .. Size /\ t \in m .. Size
    BY <1>1, <1>2, <1>5
  <2>2. SubSeq(history, 1, m) \o SubSeq(history, m + 1, t) = SubSeq(history, 1, t)
    BY <1>3, <2>1, ConcatAdjacentSubSeq
  <2>3. Found(copy) = SubSeq(history, 1, t)
    BY <1>1, <1>4, <2>2
  <2> QED
    BY <1>1, <1>2, <1>5, <2>3
<1>6. CASE t < m
  <2>1. rest = <<>>
    BY <1>1, <1>6, SubSeqEmpty
  <2>2. \A i \in 1 .. m : history[i] \in Events
    BY <1>1, <1>2, <1>3
  <2>3. SubSeq(history, 1, m) \in Seq(Events)
    BY <1>1, <2>2, SubSeqProperties
  <2>4. Found(copy) = SubSeq(history, 1, m)
    BY <1>4, <2>1, <2>3, ConcatEmptySeq
  <2> QED
    BY <1>1, <1>2, <1>6, <2>4
<1> QED
  BY <1>1, <1>5, <1>6

LEMMA InspectKeeps ==
  ASSUME BindInv, InspectInv, Inspect
  PROVE  InspectInv'
<1>1. step = 7 /\ Idle /\ Advance /\ view' = Found(copy) /\ UNCHANGED <<before, copy, since, report>>
  BY WhereTheInspectorIs DEF Inspect
<1>2. TrueSignatures /\ copy.main = before.main /\ copy.wal = before.wal
  BY <1>1 DEF InspectInv, LookInv
<1>3. \E n \in Nat : since <= n /\ n <= Size /\ Found(copy) = SubSeq(history, 1, n)
  BY <1>2, FoundIsTrue
<1>4. Size' = Size /\ UNCHANGED history
  BY <1>1, IdleKeeps
<1>5. TrueView'
  BY <1>1, <1>3, <1>4 DEF TrueView
<1>6. copy' \in [main : Nat, wal : Wals]
  BY <1>1 DEF InspectInv, FilesTyped
<1> QED
  BY <1>1, <1>5, <1>6, AdvanceKeeps

LEMMA LastCheckWalKeeps ==
  ASSUME BindInv, InspectInv, LastCheckWal
  PROVE  InspectInv'
<1>1. Size' = Size /\ main' = main /\ wal' = wal /\ FilesInv' /\ UNCHANGED history
  BY IdleKeeps DEF LastCheckWal
<1>2. /\ step = 9 /\ step' = 0 /\ UNCHANGED <<view, since>>
      /\ before' = [main |-> 0, wal |-> NoWal] /\ copy' = [main |-> 0, wal |-> NoWal]
      /\ report' = Report(run, view) \/ report' = [coverage |-> "changed"]
  BY WhereTheInspectorIs DEF LastCheckWal, Changed
<1>3. FilesTyped'
  BY <1>1, <1>2, NoWalTyped DEF InspectInv, FilesTyped
<1>4. TrueView'
  BY <1>1, <1>2 DEF InspectInv, LookInv, TrueView
<1>5. report'.coverage \in {"none", "changed", "complete", "incomplete", "invalid"}
  BY <1>2 DEF Report, Coverage
<1>6. LookInv'
  BY <1>2, <1>4, <1>5 DEF LookInv
<1> QED
  BY <1>1, <1>3, <1>6 DEF InspectInv

LEMMA InspectionBindsStep ==
  ASSUME [InspectionNext]_allVars
  PROVE  [BindingNext]_vars
<1>1. CASE StoreStep
  BY <1>1 DEF StoreStep
<1>2. CASE Checkpoint \/ CloseStore
  BY <1>2 DEF Checkpoint, CloseStore
<1>3. CASE Begin \/ StatMain \/ StatWal \/ CopyMain \/ CopyWal
  BY <1>3 DEF Begin, StatMain, StatWal, CopyMain, CopyWal, Idle
<1>4. CASE Recheck \/ Inspect \/ LastCheckMain \/ LastCheckWal
  BY <1>4 DEF Recheck, Inspect, LastCheckMain, LastCheckWal, Idle
<1>5. CASE UNCHANGED allVars
  BY <1>5 DEF allVars
<1> QED
  BY <1>1, <1>2, <1>3, <1>4, <1>5 DEF InspectionNext

LEMMA InspectInvStarts == InspectionInit => InspectInv
<1> SUFFICES ASSUME InspectionInit PROVE InspectInv
  OBVIOUS
<1>1. Size = 0
  BY DEF InspectionInit, Init, Size
<1>2. FilesTyped
  BY NoWalTyped DEF InspectionInit, FilesTyped
<1>3. FilesInv
  BY <1>1 DEF InspectionInit, FilesInv
<1>4. LookInv
  BY DEF InspectionInit, LookInv, Judged, NoReport
<1> QED
  BY <1>2, <1>3, <1>4 DEF InspectInv

LEMMA InspectInvKept == BindInv /\ InspectInv /\ [InspectionNext]_allVars => InspectInv'
<1> SUFFICES ASSUME BindInv, InspectInv, [InspectionNext]_allVars PROVE InspectInv'
  OBVIOUS
<1>1. CASE UNCHANGED allVars
  <2>1. UNCHANGED <<main, wal, step, before, copy, view, since, report>> /\ UNCHANGED history
    BY <1>1 DEF allVars, vars, files, inspector
  <2> QED
    BY <2>1 DEF InspectInv, FilesTyped, FilesInv, LookInv, TrueView, TrueSignatures, Size, Judged
<1> QED
  BY <1>1, StoreStepKeeps, StoreClosesKeeps, BeginKeeps, StatKeeps, CopyKeeps, CheckKeeps, InspectKeeps,
     LastCheckWalKeeps DEF InspectionNext

LEMMA InspectMeansMoment == BindInv /\ InspectInv => InspectionTypeOK /\ FilesHoldTheLedger /\ ReportIsOneMoment
<1> SUFFICES ASSUME BindInv, InspectInv PROVE InspectionTypeOK /\ FilesHoldTheLedger /\ ReportIsOneMoment
  OBVIOUS
<1>1. Size \in Nat /\ main \in Nat /\ wal \in Wals /\ wal.from \in Nat /\ wal.to \in Nat
  BY SizeTyped DEF InspectInv, FilesTyped, Wals
<1>2. main <= Size /\ (wal = NoWal => main = Size) /\ (wal # NoWal => wal.from <= main /\ wal.to = Size)
  BY DEF InspectInv, FilesInv
<1>3. wal.from <= wal.to /\ wal.to <= Size
  BY <1>1, <1>2, NoWalTyped
<1>4. FilesHoldTheLedger
  BY <1>2 DEF FilesHoldTheLedger, Size
<1>5. InspectionTypeOK
  <2>1. Len(Steps) = 9
    BY DEF Steps
  <2>2. main \in 0 .. Size
    BY <1>1, <1>2
  <2> QED
    BY <1>3, <2>1, <2>2, InvariantMeansDurable DEF InspectionTypeOK, InspectInv, FilesTyped, LookInv, Size
<1>6. ASSUME Judged(report) PROVE IsPrefix(view, history) /\ Len(view) >= since
  <2>1. PICK n \in Nat : since <= n /\ n <= Size /\ view = SubSeq(history, 1, n)
    BY <1>6 DEF InspectInv, LookInv, TrueView
  <2>2. history \in Seq(Events) /\ Len(history) = Size
    BY DEF BindInv, BindingTypes, Size
  <2>3. \A i \in 1 .. n : history[i] \in Events
    BY <1>1, <2>1, <2>2
  <2>4. view \in Seq(Events) /\ Len(view) = n
    BY <2>1, <2>3, SubSeqProperties
  <2>5. SubSeq(view, 1, n) = view
    BY <2>4, SubSeqFull
  <2>6. Len(view) <= Len(history) /\ SubSeq(view, 1, Len(view)) = SubSeq(history, 1, Len(view))
    BY <2>1, <2>2, <2>4, <2>5
  <2> QED
    BY <2>1, <2>4, <2>6 DEF IsPrefix
<1> QED
  BY <1>4, <1>5, <1>6 DEF ReportIsOneMoment

\* Inspecting the store does not disturb the binders: what is proved of them
\* holds while an inspector looks on.
THEOREM InspectionBinds == InspectionSpec => Spec
<1>1. InspectionInit => Init
  BY DEF InspectionInit
<1> QED
  BY <1>1, InspectionBindsStep, PTL DEF InspectionSpec, Spec

\* A report, and the admission shadow built on it, tells of the ledger as it
\* was at one moment of the inspection, and says of it what the binders would,
\* although the files are read one after the other while the store commits,
\* checkpoints and closes.
THEOREM ReportsAreAlwaysTrue == InspectionSpec => []ReportsAreTrue
<1>1. InspectionInit => BindInv /\ ToldRunInv /\ InspectInv
  <2>1. InspectionInit => Init
    BY DEF InspectionInit
  <2>2. Init => ToldRunInv
    BY DEF Init, ToldRunInv
  <2> QED
    BY <2>1, <2>2, BindInvStarts, InspectInvStarts
<1>2. BindInv /\ ToldRunInv /\ InspectInv /\ [InspectionNext]_allVars
        => BindInv' /\ ToldRunInv' /\ InspectInv'
  BY InspectionBindsStep, BindInvKept, ToldRunKept, InspectInvKept
<1>3. BindInv /\ ToldRunInv /\ InspectInv => ReportsAreTrue
  BY InspectMeansMoment, AgreesAlways, EvidenceIsConfirmed, ShadowsDoVerify DEF ReportsAreTrue
<1> QED
  BY <1>1, <1>2, <1>3, PTL DEF InspectionSpec

=============================================================================
