----------------------------- MODULE AuditTrail -----------------------------
(***************************************************************************)
(* The audit trail: a service writes records to stdout and into a bounded  *)
(* queue, its worker posts them to the api over a hop, and the api keeps   *)
(* them and answers queries (app/common/audit_forward.py,                  *)
(* sdk/agentnhi/audit.py, app/audit/store.py, app/api/main.py).            *)
(*                                                                         *)
(* One process is modelled in full; what the other services and replicas   *)
(* forward just arrives (IngestElsewhere). A fetched JWT-SVID is itself an *)
(* event, written by the forwarder's own thread into the forwarder's own   *)
(* queue. Those records are followed through the queue and not into the    *)
(* store.                                                                  *)
(***************************************************************************)
EXTENDS Hop, Sequences, FiniteSets

CONSTANTS
  Forwarder,       \* the thread of _worker
  Writer,          \* the threads that write records
  Kind,            \* what a record says: its tenant and its tool, if any
  Tenant, Tool,
  QueueMax,        \* maxsize of _queue
  MaxInMemory,     \* MAX_IN_MEMORY
  MaxEvents, MaxElsewhere, MaxWork, MaxRestarts    \* bounds

ASSUME TrailAssumption ==
  /\ Forwarder \in Thread /\ "elsewhere" \notin Writer
  /\ \A k \in Kind : k.tenant \in Tenant /\ k.tool \in Tool \cup {"empty", "null"}
  /\ {"empty", "null", "any"} \cap Tool = {}
  /\ {QueueMax, MaxInMemory} \subseteq Nat \ {0}
  /\ {MaxEvents, MaxElsewhere, MaxWork, MaxRestarts} \subseteq Nat

VARIABLES
  written,     \* how many records were written, to one stdout or another
  sinking,     \* sinking[w]: w has written this one and not yet queued it
  queue,       \* _queue
  worker,      \* the record _worker is posting
  late,        \* records of calls the worker gave up on, still with the api
  store,       \* the rows of audit_events, newest first
  gave_up,     \* history: the records the worker gave up on, or died with
  work,        \* how often a thread of this process wrote a record or called
  restarts

trail == <<written, sinking, queue, worker, late, store, gave_up, work, restarts>>
vars == <<tokens, hop, serving, written, sinking, queue, worker, late, store, gave_up, work,
          restarts>>

Record == [id : 1..MaxEvents, by : Writer \cup {"elsewhere"}, kind : Kind]
Issued == [id |-> 0]        \* svid.issued
None == [id |-> -1]

TypeOK ==
  /\ HopTypeOK
  /\ written \in 0..MaxEvents /\ work \in 0..MaxWork /\ store \in Seq(Record)
  /\ sinking \in [Writer -> Record \cup {None}]
  /\ queue \in Seq(Record \cup {Issued}) /\ Len(queue) <= QueueMax
  /\ worker \in Record \cup {Issued, None}
  /\ late \subseteq Record
  /\ gave_up \subseteq Record /\ restarts \in 0..MaxRestarts

Init ==
  /\ HopInit
  /\ written = 0 /\ sinking = [w \in Writer |-> None]
  /\ queue = <<>> /\ worker = None /\ late = {} /\ store = <<>>
  /\ gave_up = {} /\ work = 0 /\ restarts = 0

Up == serving.at = "up"

-----------------------------------------------------------------------------
(* The service.                                                            *)

\* The sink's put_nowait: a full queue drops the record.
Put(rec) ==
  queue' = IF Len(queue) < QueueMax THEN Append(queue, rec) ELSE queue

\* A thread writes a record to stdout, under no lock.
audit(w, k) ==
  /\ Up
  /\ sinking[w] = None
  /\ written < MaxEvents /\ work < MaxWork
  /\ written' = written + 1 /\ work' = work + 1
  /\ sinking' = [sinking EXCEPT ![w] = [id |-> written', by |-> w, kind |-> k]]
  /\ UNCHANGED <<tokens, hop, serving, queue, worker, late, store, gave_up, restarts>>

\* And then into the queue, which others may have done in the meantime.
Enqueue(w) ==
  /\ sinking[w] # None
  /\ Put(sinking[w])
  /\ sinking' = [sinking EXCEPT ![w] = None]
  /\ UNCHANGED <<tokens, hop, serving, written, worker, late, store, gave_up, work, restarts>>

\* Slip: the newest record is taken first.
Take_Slip ==
  /\ Up
  /\ worker = None /\ queue # <<>>
  /\ worker' = queue[Len(queue)]
  /\ queue' = SubSeq(queue, 1, Len(queue) - 1)
  /\ Look(Forwarder)
  /\ UNCHANGED <<written, sinking, late, store, gave_up, work, restarts>>

\* The worker takes a record and opens a hop for it.
Take ==
  /\ Up
  /\ worker = None /\ queue # <<>>
  /\ worker' = Head(queue)
  /\ queue' = Tail(queue)
  /\ Look(Forwarder)
  /\ UNCHANGED <<written, sinking, late, store, gave_up, work, restarts>>

\* Another thread calls the api, and comes back.
Call(t) ==
  /\ Up /\ t # Forwarder
  /\ work < MaxWork
  /\ work' = work + 1
  /\ Look(t)
  /\ UNCHANGED <<written, sinking, queue, worker, late, store, gave_up, restarts>>

Return(t) ==
  /\ t # Forwarder
  /\ Leave(t)
  /\ UNCHANGED trail

\* fetch_jwt_svid: a token is issued to a thread, which is an event.
fetch_jwt_svid(t) ==
  /\ Issue(t)
  /\ Put(Issued)
  /\ UNCHANGED <<written, sinking, worker, late, store, gave_up, work, restarts>>

Stored(t) == Keep(t) /\ UNCHANGED trail

Sends(t) == Send(t) /\ UNCHANGED trail

\* The record in hand is not posted: no identity, no connection, or a 403 for
\* a token that has expired, which nobody looks at.
PostFails ==
  /\ worker # None
  /\ Leave(Forwarder)
  /\ worker' = None
  /\ UNCHANGED <<written, sinking, queue, late, store, gave_up, work, restarts>>

-----------------------------------------------------------------------------
(* The api.                                                                *)

Admitted == worker # None /\ hop[Forwarder].at = "sent" /\ hop[Forwarder].left > 0

Insert(rec) == store' = IF rec = Issued THEN store ELSE <<rec>> \o store

\* ingest_audit: the record is stored and the worker told.
ingest_audit ==
  /\ Admitted
  /\ Insert(worker)
  /\ Leave(Forwarder)
  /\ worker' = None
  /\ UNCHANGED <<written, sinking, queue, late, gave_up, work, restarts>>

\* Slip: the worker puts a record it gave up on back into the queue.
GiveUp_Slip ==
  /\ Admitted
  /\ late' = late \cup ({worker} \ {Issued})
  /\ queue' = IF Len(queue) < QueueMax THEN Append(queue, worker) ELSE queue
  /\ gave_up' = gave_up \cup ({worker} \ {Issued})
  /\ Leave(Forwarder)
  /\ worker' = None
  /\ UNCHANGED <<written, sinking, store, work, restarts>>

\* The worker's two seconds pass while the api is still at it.
GiveUp ==
  /\ Admitted
  /\ late' = late \cup ({worker} \ {Issued})
  /\ gave_up' = gave_up \cup ({worker} \ {Issued})
  /\ Leave(Forwarder)
  /\ worker' = None
  /\ UNCHANGED <<written, sinking, queue, store, work, restarts>>

IngestLate(rec) ==
  /\ rec \in late
  /\ Insert(rec)
  /\ late' = late \ {rec}
  /\ UNCHANGED <<tokens, hop, serving, written, sinking, queue, worker, gave_up, work, restarts>>

\* A record that another process forwarded.
IngestElsewhere(k) ==
  /\ written < MaxEvents
  /\ Cardinality({i \in DOMAIN store : store[i].by = "elsewhere"}) < MaxElsewhere
  /\ written' = written + 1
  /\ Insert([id |-> written', by |-> "elsewhere", kind |-> k])
  /\ UNCHANGED <<tokens, hop, serving, sinking, queue, worker, late, gave_up, work, restarts>>

-----------------------------------------------------------------------------
(* The process.                                                            *)

Begins == Start /\ UNCHANGED trail

Watches == Watch /\ UNCHANGED trail

\* The process exits. What it has queued is lost, its last word (svid_restart)
\* included; the api goes on with the post it has been sent.
Exits ==
  LET posted == IF Admitted THEN {worker} \ {Issued} ELSE {}
  IN  /\ restarts < MaxRestarts
      /\ Exit
      /\ restarts' = restarts + 1
      /\ sinking' = [w \in Writer |-> None] /\ queue' = <<>> /\ worker' = None
      /\ late' = late \cup posted
      /\ gave_up' = gave_up \cup posted
      /\ UNCHANGED <<written, store, work>>

Passes == Tick /\ UNCHANGED trail

Next ==
  \/ \E w \in Writer : Enqueue(w) \/ \E k \in Kind : audit(w, k)
  \/ \E k \in Kind : IngestElsewhere(k)
  \/ Take \/ PostFails \/ ingest_audit \/ GiveUp
  \/ \E rec \in late : IngestLate(rec)
  \/ \E t \in Thread : Call(t) \/ Return(t) \/ fetch_jwt_svid(t) \/ Stored(t) \/ Sends(t)
  \/ Begins \/ Watches \/ Exits \/ Passes

Spec == Init /\ [][Next]_vars

\* The worker goes on, and so does a thread that is in a call.
Fairness ==
  /\ WF_vars(Take) /\ WF_vars(ingest_audit \/ GiveUp \/ PostFails)
  /\ \A t \in Thread : WF_vars(fetch_jwt_svid(t) \/ Stored(t) \/ Sends(t) \/ Return(t))
  /\ WF_vars(Begins)

FairSpec == Spec /\ Fairness

-----------------------------------------------------------------------------
(* Queries. A filter that is not given is "any", a record that names no    *)
(* tool has "null"; the routes always give the tenant, and pass on what    *)
(* the caller gave for the tool, the empty text ("empty") included.        *)

\* _matches: what is asked for is tested for truth.
matches(tenant, tool) ==
  {rec \in Record : rec.kind.tenant = tenant /\ (tool \in {"any", "empty"} \/ rec.kind.tool = tool)}

\* The database's WHERE: what is asked for is tested for NULL.
where(tenant, tool) ==
  {rec \in Record : rec.kind.tenant = tenant /\ (tool = "any" \/ rec.kind.tool = tool)}

FirstOf(rows, limit) == SubSeq(rows, 1, IF limit < Len(rows) THEN limit ELSE Len(rows))

\* Those of the rows that are wanted, in the same order.
Matching(rows, wanted) ==
  LET found[n \in 0..Len(rows)] ==
        IF n = 0 THEN <<>>
        ELSE IF rows[n] \in wanted THEN Append(found[n - 1], rows[n])
        ELSE found[n - 1]
  IN  found[Len(rows)]

\* PostgresAuditStore.query.
query(tenant, tool, limit) == FirstOf(Matching(store, where(tenant, tool)), limit)

\* Slip: the rows are cut to the limit before they are filtered.
memory_query_Slip(tenant, tool, limit) ==
  Matching(FirstOf(FirstOf(store, MaxInMemory), limit), matches(tenant, tool))

\* AuditStore.query, over the last MAX_IN_MEMORY rows.
memory_query(tenant, tool, limit) ==
  FirstOf(Matching(FirstOf(store, MaxInMemory), matches(tenant, tool)), limit)

\* get_audit: the number of rows asked for, kept between one and 500, which is
\* also MAX_IN_MEMORY.
get_audit_limit(limit) ==
  CASE limit < 1 -> 1 [] limit > MaxInMemory -> MaxInMemory [] OTHER -> limit

-----------------------------------------------------------------------------
(* What the trail promises.                                                *)

\* A record is stored at most once, however late a call the worker gave up on
\* arrives, and through restarts (_worker, ingest_audit).
StoredOnce == \A i, j \in DOMAIN store : store[i] = store[j] => i = j

\* Rows of one thread are in the order it wrote them, newest first, unless the
\* worker gave up on one of them or died while it was being posted: through the
\* queue, full or not, the hop, restarts and what others write (_worker, query).
NewestFirst ==
  \A i, j \in DOMAIN store :
    i < j /\ store[i].by = store[j].by /\ store[i].by \in Writer
          /\ {store[i], store[j]} \cap gave_up = {} => store[i].id > store[j].id

\* The two backends answer alike, one who asks for `tool`.
Alike(tenant, tool, asked) ==
  LET limit == get_audit_limit(asked)
      memory == memory_query(tenant, tool, limit)
      rows == query(tenant, tool, limit)
  IN  /\ memory = FirstOf(rows, Len(memory))
      /\ Len(store) <= MaxInMemory => memory = rows

\* The in-memory backend answers like the database: the same rows up to what it
\* has forgotten, to a question about a tool or about none (_matches, query).
BackendsAgree ==
  \A tenant \in Tenant, tool \in Tool \cup {"any"}, asked \in 0..(MaxInMemory + 1) :
    Alike(tenant, tool, asked)

\* "Same semantics as AuditStore": and to any other.
SameSemantics ==
  \A tenant \in Tenant, tool \in Tool \cup {"any", "empty"}, asked \in 0..(MaxInMemory + 1) :
    Alike(tenant, tool, asked)

\* The forwarder does not keep itself busy: the queue is worked off again and
\* again, although fetching a token for a record writes another (workload_token,
\* fetch_jwt_svid, _worker).
QueueDrains == []<>(queue = <<>> /\ worker = None)
=============================================================================
