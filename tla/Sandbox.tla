------------------------------ MODULE Sandbox -------------------------------
(***************************************************************************)
(* The vendor behind the tools: the routes of the simulated system that    *)
(* write (app/sandbox/app.py), its refunds and drafts                      *)
(* (app/simulators/payments.py, tickets.py) and the snapshot that carries  *)
(* both over a restart (app/sandbox/persistence.py).                       *)
(*                                                                         *)
(* The routes are plain functions, so the web server runs them on its      *)
(* worker threads, and nothing locks the records: looking a key up, taking *)
(* a number, filing the record, reading the refunds and then the drafts    *)
(* for the snapshot, and renaming it into place are separate steps. Two    *)
(* requests interleave between any two of them and the process may stop    *)
(* there. Refunds and drafts have a counter each and share one file.       *)
(* Amounts and texts are left out; an order or a ticket that does not      *)
(* exist for the caller's tenant is a 404 (data.scoped).                   *)
(***************************************************************************)
EXTENDS Integers, FiniteSets, FiniteSetsExt

CONSTANTS
  Worker,       \* the server's worker threads
  Key,          \* the idempotency keys callers send: approval ids
  NoKey,        \* no idempotency key
  MaxNumber,    \* bound: MaxNumber[kind], the last number its counter hands out
  MaxCrashes    \* bound: restarts of the sandbox

ASSUME SandboxAssumption ==
  /\ NoKey \notin Key
  /\ MaxNumber \in [{"refund", "draft"} -> Nat] /\ MaxCrashes \in Nat

VARIABLES
  records,    \* _refunds and _drafts, one refund for each key
  seq,        \* seq[kind]: the next number
  disk,       \* the snapshot file
  worker,     \* worker[w]: the request it is serving
  answered,   \* history: the records the callers were told of
  raced,      \* history: keys two requests found missing before either filed
  unsaved,    \* history: records that storage failed to write, or to read back
  overtaken,  \* history: records an older snapshot, renamed later, dropped
  crashes

vars == <<records, seq, disk, worker, answered, raced, unsaved, overtaken, crashes>>

Kind == {"refund", "draft"}
Record == [kind : Kind, n : Nat, key : Key \cup {NoKey}]
NoRecord == [kind |-> "draft", n |-> 0, key |-> NoKey]
Idle == [at |-> "idle", kind |-> "draft", key |-> NoKey, record |-> NoRecord,
         snap |-> {}, stale |-> FALSE]
Request == [at : {"idle", "lookup", "write", "file", "refunds", "drafts",
                  "replace", "answer"},
            kind : Kind, key : Key \cup {NoKey}, record : Record,
            snap : SUBSET Record, stale : BOOLEAN]

Init ==
  /\ records = {} /\ disk = {}
  /\ seq = [kind \in Kind |-> 1]
  /\ worker = [w \in Worker |-> Idle]
  /\ answered = {} /\ raced = {} /\ unsaved = {} /\ overtaken = {}
  /\ crashes = 0

\* _refunds[key] for a key the caller sent.
Under(key) == {f \in records : key # NoKey /\ f.key = key}

\* The requests that found key missing and have not filed their refund yet.
Issuing(key) == {v \in Worker : key # NoKey /\ worker[v].key = key
                                /\ worker[v].at \in {"write", "file"}}

\* POST /orders/{id}/refunds, with a key or without.
RefundRequest(w, key) ==
  /\ worker[w] = Idle
  /\ worker' = [worker EXCEPT ![w].at = "lookup", ![w].kind = "refund", ![w].key = key]
  /\ UNCHANGED <<records, seq, disk, answered, raced, unsaved, overtaken, crashes>>

\* POST /tickets/{id}/drafts.
DraftRequest(w) ==
  /\ worker[w] = Idle
  /\ worker' = [worker EXCEPT ![w].at = "write", ![w].kind = "draft"]
  /\ UNCHANGED <<records, seq, disk, answered, raced, unsaved, overtaken, crashes>>

\* "idempotency_key in _refunds": then it is answered with that refund, and
\* the route still takes its snapshot.
LookupFinds(w) ==
  /\ worker[w].at = "lookup"
  /\ \E f \in Under(worker[w].key) :
       worker' = [worker EXCEPT ![w].at = "refunds", ![w].record = f]
  /\ UNCHANGED <<records, seq, disk, answered, raced, unsaved, overtaken, crashes>>

LookupMisses(w) ==
  /\ worker[w].at = "lookup"
  /\ Under(worker[w].key) = {}
  /\ raced' = raced \cup {worker[v].key : v \in Issuing(worker[w].key)}
  /\ worker' = [worker EXCEPT ![w].at = "write"]
  /\ UNCHANGED <<records, seq, disk, answered, unsaved, overtaken, crashes>>

\* NotFound, or an amount that is not positive: a 404 or a 400 before any
\* number is taken, and no snapshot.
Refused(w) ==
  /\ worker[w].at = "write"
  /\ worker' = [worker EXCEPT ![w] = Idle]
  /\ UNCHANGED <<records, seq, disk, answered, raced, unsaved, overtaken, crashes>>

\* next(_seq): the record takes the next number of its kind.
Number(w) ==
  LET kind == worker[w].kind
      record == [kind |-> kind, n |-> seq[kind], key |-> worker[w].key]
  IN  /\ worker[w].at = "write"
      /\ seq[kind] <= MaxNumber[kind]
      /\ seq' = [seq EXCEPT ![kind] = @ + 1]
      /\ worker' = [worker EXCEPT ![w].at = "file", ![w].record = record]
      /\ UNCHANGED <<records, disk, answered, raced, unsaved, overtaken, crashes>>

\* A refund is filed under its key, over whatever is there by now.
File(w) ==
  /\ worker[w].at = "file"
  /\ records' = (records \ Under(worker[w].key)) \cup {worker[w].record}
  /\ worker' = [worker EXCEPT ![w].at = "refunds"]
  /\ UNCHANGED <<seq, disk, answered, raced, unsaved, overtaken, crashes>>

OfKind(kind) == {f \in records : f.kind = kind}

\* snapshot(): first the refunds, then the drafts, whichever the route wrote.
SnapshotRefunds(w) ==
  /\ worker[w].at = "refunds"
  /\ worker' = [worker EXCEPT ![w].at = "drafts", ![w].snap = OfKind("refund")]
  /\ UNCHANGED <<records, seq, disk, answered, raced, unsaved, overtaken, crashes>>

\* Slip: a route saves the records of its own kind only.
SnapshotDrafts_Slip(w) ==
  /\ worker[w].at = "drafts"
  /\ worker' = [worker EXCEPT ![w].at = "replace", ![w].snap = OfKind(worker[w].kind)]
  /\ UNCHANGED <<records, seq, disk, answered, raced, unsaved, overtaken, crashes>>

SnapshotDrafts(w) ==
  /\ worker[w].at = "drafts"
  /\ worker' = [worker EXCEPT ![w].at = "replace", ![w].snap = @ \cup OfKind("draft")]
  /\ UNCHANGED <<records, seq, disk, answered, raced, unsaved, overtaken, crashes>>

\* The temporary file, each request's own, is renamed over the last snapshot;
\* a snapshot somebody else has under way is older than the file from now on.
Replace(w) ==
  /\ worker[w].at = "replace"
  /\ disk' = worker[w].snap
  /\ unsaved' = unsaved \ worker[w].snap
  /\ overtaken' = (overtaken \cup IF worker[w].stale THEN disk ELSE {}) \ worker[w].snap
  /\ worker' = [v \in Worker |->
       IF v = w THEN [worker[w] EXCEPT !.at = "answer", !.snap = {}, !.stale = FALSE]
       ELSE IF worker[v].at \in {"drafts", "replace"} THEN [worker[v] EXCEPT !.stale = TRUE]
       ELSE worker[v]]
  /\ UNCHANGED <<records, seq, answered, raced, crashes>>

\* "Never fatal": a snapshot that cannot be written is reported, and forgotten.
SaveFails(w) ==
  /\ worker[w].at = "replace"
  /\ unsaved' = unsaved \cup ({worker[w].record} \ disk)
  /\ worker' = [worker EXCEPT ![w].at = "answer", ![w].snap = {}, ![w].stale = FALSE]
  /\ UNCHANGED <<records, seq, disk, answered, raced, overtaken, crashes>>

Answer(w) ==
  /\ worker[w].at = "answer"
  /\ answered' = answered \cup {worker[w].record}
  /\ worker' = [worker EXCEPT ![w] = Idle]
  /\ UNCHANGED <<records, seq, disk, raced, unsaved, overtaken, crashes>>

\* data.next_id_number: one past the largest number among the records.
next_id_number(loaded) == 1 + Max({f.n : f \in loaded} \cup {0})

\* Slip: a restored refund is filed under its own number only.
restore_Unkeyed(loaded) ==
  /\ records' = {[f EXCEPT !.key = NoKey] : f \in loaded}
  /\ seq' = [kind \in Kind |-> next_id_number({f \in loaded : f.kind = kind})]

\* Slip: both counters go on from where the drafts were.
restore_OneCounter(loaded) ==
  /\ records' = loaded
  /\ seq' = [kind \in Kind |-> next_id_number({f \in loaded : f.kind = "draft"})]

\* simulators.restore: each kind is filed again and its counter goes on.
restore(loaded) ==
  /\ records' = loaded
  /\ seq' = [kind \in Kind |-> next_id_number({f \in loaded : f.kind = kind})]

\* The process stops, and the next one loads what the file holds.
Restart ==
  /\ crashes < MaxCrashes
  /\ crashes' = crashes + 1
  /\ restore(disk)
  /\ worker' = [w \in Worker |-> Idle]
  /\ UNCHANGED <<disk, answered, raced, unsaved, overtaken>>

\* A snapshot that cannot be read is treated as empty.
RestartUnread ==
  /\ crashes < MaxCrashes
  /\ crashes' = crashes + 1
  /\ restore({})
  /\ unsaved' = unsaved \cup answered \cup disk
  /\ worker' = [w \in Worker |-> Idle]
  /\ UNCHANGED <<disk, answered, raced, overtaken>>

Next ==
  \/ \E w \in Worker : \/ \E key \in Key \cup {NoKey} : RefundRequest(w, key)
                       \/ DraftRequest(w)
                       \/ LookupFinds(w) \/ LookupMisses(w) \/ Refused(w)
                       \/ Number(w) \/ File(w)
                       \/ SnapshotRefunds(w) \/ SnapshotDrafts(w)
                       \/ Replace(w) \/ SaveFails(w) \/ Answer(w)
  \/ Restart
  \/ RestartUnread

Spec == Init /\ [][Next]_vars

-----------------------------------------------------------------------------
(* The type of every variable.                                             *)
TypeOK ==
  /\ records \in SUBSET Record /\ disk \in SUBSET Record
  /\ answered \in SUBSET Record
  /\ unsaved \in SUBSET Record /\ overtaken \in SUBSET Record
  /\ raced \in SUBSET Key
  /\ seq \in [Kind -> Nat \ {0}]
  /\ worker \in [Worker -> Request]
  /\ crashes \in 0..MaxCrashes

\* What the callers know of, but for what storage failed to write or read,
\* what an older snapshot dropped, and keys two requests raced for.
Saved == {f \in answered \ (unsaved \cup overtaken) : f.key \notin raced}

(* A key that is sent again is answered with the refund it was answered    *)
(* with before, whatever restarts and other requests lie between, the      *)
(* first request still being served included, as long as no two requests   *)
(* look the key up before either has filed its refund.                     *)
RetriedKeyKeepsItsRefund ==
  \A f, g \in Saved : f.key = g.key /\ f.key # NoKey => f.n = g.n

(* A refund or a draft a caller was told of is there from then on: neither *)
(* a restart nor the snapshot of a request that began later resets it,     *)
(* whatever the other workers are writing meanwhile (S9).                  *)
AnsweredIsKept == Saved \subseteq records

(* A number identifies a refund among the refunds and a draft among the    *)
(* drafts: once a caller has seen it, no restart hands it out again, also  *)
(* when the other counter is elsewhere ("or the next record would take an  *)
(* id that is already in use").                                            *)
NumbersAreUnique ==
  \A f \in Saved, g \in records : f.kind = g.kind /\ f.n = g.n => f = g

(* "the vendor answers with the refund it already issued instead of        *)
(* issuing a second one (S24)": no two callers who sent one key are told   *)
(* of different refunds. Two requests that are served together may both    *)
(* find the key missing and both issue (issue_refund takes no lock).       *)
OneRefundPerKey ==
  \A f, g \in answered \ (unsaved \cup overtaken) :
    f.key = g.key /\ f.key # NoKey => f.n = g.n

(* "enough to stop a pod restart resetting every refund and draft (S9)":   *)
(* but for failures of storage, what a caller was told of is there from    *)
(* then on. The rename of an older snapshot over a newer one drops it.     *)
AnsweredSurvives == {f \in answered \ unsaved : f.key \notin raced} \subseteq records
=============================================================================
