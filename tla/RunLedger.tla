----------------------------- MODULE RunLedger -----------------------------
(***************************************************************************)
(* The append-only ledger of one run, as the SQLite store keeps it: a      *)
(* sequence of events, some of which carry a status.  Nothing here is an   *)
(* action of its own; each operator says what one store transaction        *)
(* accepts, and the modules of the ledger's writers apply it to their      *)
(* variables.  An event's identity is its place in the sequence together   *)
(* with its contents, which is what the writers compare.                   *)
(***************************************************************************)
EXTENDS Naturals, Sequences, SequencesExt

NoStatus == "none"

Statuses == {"created", "running", "succeeded", "failed", "blocked", "quarantined", "cancelled"}

\* A terminal status has no successor; a blocked run may still be taken up.
Transitions ==
  [ s \in Statuses |->
      CASE s = "created" -> {"running", "failed", "blocked", "quarantined", "cancelled"}
        [] s = "running" -> {"succeeded", "failed", "blocked", "quarantined", "cancelled"}
        [] s = "blocked" -> {"running", "quarantined", "cancelled"}
        [] OTHER -> {} ]

\* The places of the events of a type, and of those that carry a status.
Rows(history, type) == {i \in DOMAIN history : history[i].type = type}

Bearing(history) == {i \in DOMAIN history : history[i].status # NoStatus}

CurrentStatus(history) == history[Max(Bearing(history))].status

AtMostOne(rows) == \A i, j \in rows : i = j

\* A status event must be a legal transition from the newest status.
Follows(history, event) ==
  event.status # NoStatus => event.status \in Transitions[CurrentStatus(history)]

\* append_event: any event of an existing run whose status may follow.
Appends(history, event) == history # <<>> /\ Follows(history, event)

\* append_event_once: the type is new to the run, the run has the status the
\* writer requires, and its events are exactly those the writer has read.
AppendsOnce(history, event, status, read) ==
  /\ history # <<>>
  /\ CurrentStatus(history) = status
  /\ history = read
  /\ Rows(history, event.type) = {}
  /\ Follows(history, event)

=============================================================================
