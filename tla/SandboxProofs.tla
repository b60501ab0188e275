--------------------------- MODULE SandboxProofs ----------------------------
(***************************************************************************)
(* What the vendor promises its callers, for any number of workers, keys,  *)
(* numbers, restarts and failures of storage.                              *)
(*                                                                         *)
(* The promises are about the answers in Saved. They follow from the       *)
(* records being sound, in memory and on disk, and from Saved being in     *)
(* both. What needs the work is what the other requests may do meanwhile:  *)
(* SandInv says what each request may rely on at each of its steps - that  *)
(* the key it missed is still free, that its number is nobody else's, that *)
(* its record stays filed and that its snapshot, while nobody has renamed  *)
(* another, has all that the file has. Keys in raced are left out.         *)
(***************************************************************************)
EXTENDS Sandbox, WellFoundedInduction, TLAPS

\* One record under a key, one with a number of a kind, numbers within bounds.
Sound(set) ==
  /\ \A f, g \in set : f.key = g.key /\ f.key # NoKey => f = g
  /\ \A f, g \in set : f.kind = g.kind /\ f.n = g.n => f = g
  /\ \A f \in set : f.n <= MaxNumber[f.kind]

\* Drafts have no key, so a draft cannot clash with a refund.
DraftsHaveNoKey(set) == \A f \in set : f.kind = "draft" => f.key = NoKey

\* The next number of a kind is new.
NumbersAreBelow == \A f \in records : f.n < seq[f.kind]

\* A record of a key that nobody raced for.
Calm(f) == f.key \notin raced

\* A key that was missed is still free, and nobody else is about to file it.
KeyIsFree(w) ==
  worker[w].key \in Key \ raced =>
    /\ Under(worker[w].key) = {}
    /\ \A v \in Worker : v \in Issuing(worker[w].key) => v = w

\* The record to file is new: nobody has its number, filed or in hand.
RecordIsNew(w) ==
  LET mine == worker[w].record
  IN  /\ mine.kind = worker[w].kind /\ mine.key = worker[w].key
      /\ mine.n < seq[mine.kind] /\ mine.n <= MaxNumber[mine.kind]
      /\ \A f \in records : ~ (f.kind = mine.kind /\ f.n = mine.n)
      /\ \A v \in Worker \ {w} :
           ~ (/\ worker[v].at = "file"
              /\ worker[v].record.kind = mine.kind /\ worker[v].record.n = mine.n)

\* The snapshot so far: of the given kinds, sound, still filed, and - unless
\* it is stale - with all that the file has.
SnapshotIsGood(w, kinds) ==
  /\ Sound(worker[w].snap) /\ DraftsHaveNoKey(worker[w].snap)
  /\ \A f \in worker[w].snap : f.kind \in kinds
  /\ \A f \in worker[w].snap : Calm(f) => f \in records
  /\ worker[w].record.kind \in kinds /\ Calm(worker[w].record)
       => worker[w].record \in worker[w].snap
  /\ ~worker[w].stale =>
       \A f \in disk \ unsaved : f.kind \in kinds /\ Calm(f) => f \in worker[w].snap

\* What a request may rely on.
RequestKnows(w) ==
  LET at == worker[w].at
  IN  /\ at = "idle" => worker[w] = Idle
      /\ worker[w].kind = "draft" => worker[w].key = NoKey
      /\ at \in {"lookup", "write", "file", "refunds"} => ~worker[w].stale
      /\ at \in {"write", "file"} => KeyIsFree(w)
      /\ at = "file" => RecordIsNew(w)
      /\ at \in {"refunds", "drafts", "replace", "answer"} /\ Calm(worker[w].record)
           => worker[w].record \in records
      /\ at = "drafts" => SnapshotIsGood(w, {"refund"})
      /\ at = "replace" => SnapshotIsGood(w, Kind)
      /\ at = "answer" /\ Calm(worker[w].record)
           => worker[w].record \in disk \cup unsaved \cup overtaken

SandInv ==
  /\ TypeOK
  /\ Sound(records) /\ Sound(disk)
  /\ DraftsHaveNoKey(records) /\ DraftsHaveNoKey(disk)
  /\ NumbersAreBelow
  /\ \A f \in disk \ unsaved : Calm(f) => f \in records
  /\ Saved \subseteq records /\ Saved \subseteq disk
  /\ \A w \in Worker : RequestKnows(w)

USE SandboxAssumption

-----------------------------------------------------------------------------
(* Numbers.                                                                *)

(* A non-empty set of naturals below a bound has a largest element: take   *)
(* the smallest distance from the bound.                                   *)
LEMMA MaxExists ==
  ASSUME NEW S \in SUBSET Nat, S # {}, NEW bound \in Nat, \A n \in S : n <= bound
  PROVE  Max(S) \in S /\ \A n \in S : n <= Max(S)
  <1> DEFINE D == {d \in Nat : bound - d \in S}
  <1>1. PICK n \in S : TRUE
    OBVIOUS
  <1>2. bound - n \in D
    BY <1>1
  <1>3. PICK d \in D : \A e \in D : d <= e
    <2>1. PICK d \in D : \A e \in D : ~ (<<e, d>> \in OpToRel(<, Nat))
      <3>1. D \subseteq Nat /\ D # {}
        BY <1>2
      <3> HIDE DEF D
      <3> QED BY <3>1, NatLessThanWellFounded, WFMin
    <2>2. ASSUME NEW a \in Nat, NEW b \in Nat, a < b
          PROVE  <<a, b>> \in OpToRel(<, Nat)
      <3>1. <<a, b>> \in Nat \X Nat /\ <<a, b>>[1] < <<a, b>>[2]
        BY <2>2
      <3> QED BY <3>1, Zenon DEF OpToRel
    <2>3. \A e \in D : ~ (e < d)
      BY <2>1, <2>2
    <2> QED BY <2>3
  <1>4. \A m \in S : m <= bound - d
    <2> SUFFICES ASSUME NEW m \in S PROVE m <= bound - d
      OBVIOUS
    <2>1. m \in Nat /\ m <= bound /\ bound - (bound - m) = m
      OBVIOUS
    <2>2. bound - m \in D
      BY <2>1
    <2>3. d \in Nat /\ d <= bound - m
      BY <1>3, <2>2
    <2> QED BY <2>1, <2>3
  <1>5. \E x \in S : \A y \in S : x >= y
    BY <1>3, <1>4
  <1> QED BY <1>5 DEF Max

(* The counter goes on past every number that is in use.                   *)
LEMMA NextIdNumber ==
  ASSUME NEW loaded \in SUBSET Record, NEW bound \in Nat, \A f \in loaded : f.n <= bound
  PROVE  /\ next_id_number(loaded) \in Nat \ {0}
         /\ \A f \in loaded : f.n < next_id_number(loaded)
  <1> DEFINE S == {f.n : f \in loaded} \cup {0}
  <1>1. S \in SUBSET Nat /\ S # {} /\ \A n \in S : n <= bound
    BY DEF Record
  <1>2. Max(S) \in S /\ \A n \in S : n <= Max(S)
    BY <1>1, MaxExists
  <1>3. \A f \in loaded : f.n \in S
    OBVIOUS
  <1> DEFINE m == Max(S)
  <1>4. m \in Nat /\ (\A f \in loaded : f.n \in Nat /\ f.n <= m) /\ next_id_number(loaded) = 1 + m
    <2>1. next_id_number(loaded) = 1 + m
      BY DEF next_id_number
    <2> HIDE DEF S, m
    <2> QED BY <1>1, <1>2, <1>3, <2>1 DEF m
  <1> HIDE DEF S, m
  <1> QED BY <1>4

-----------------------------------------------------------------------------
(* Steps of a request.                                                     *)

LEMMA IdleRequest == Idle \in Request /\ Idle.at = "idle" /\ Idle.key = NoKey
  BY DEF Idle, Request, NoRecord, Record, Kind

(* What another request may rely on still holds when one moves on to r,    *)
(* unless r or the records it leaves get in its way.                       *)
LEMMA OthersStay ==
  ASSUME SandInv, NEW v \in Worker, NEW w \in Worker, v # w, NEW r \in Request,
         worker' = [worker EXCEPT ![w] = r],
         disk' = disk, overtaken' = overtaken, unsaved \subseteq unsaved', raced \subseteq raced',
         \A kind \in Kind : seq'[kind] \in Nat /\ seq[kind] <= seq'[kind],
         \A f \in records : f.key \notin raced' => f \in records',
         worker[v].at = "file" => \A f \in records' \ records :
           ~ (f.kind = worker[v].record.kind /\ f.n = worker[v].record.n),
         worker[v].at \in {"write", "file"} /\ worker[v].key \in Key \ raced' =>
           /\ \A f \in records' \ records : f.key # worker[v].key
           /\ r.at \in {"write", "file"} => r.key # worker[v].key,
         worker[v].at = "file" /\ r.at = "file" =>
           ~ (r.record.kind = worker[v].record.kind /\ r.record.n = worker[v].record.n)
  PROVE  RequestKnows(v)'
  <1>1. RequestKnows(v) /\ worker[v] \in Request /\ worker \in [Worker -> Request]
        /\ seq \in [Kind -> Nat \ {0}] /\ records \in SUBSET Record
    BY DEF SandInv, TypeOK
  <1>2. worker'[v] = worker[v] /\ worker'[w] = r /\ \A u \in Worker \ {w} : worker'[u] = worker[u]
    BY <1>1
  <1>3. worker[v].at \in {"write", "file"} => KeyIsFree(v)'
    <2> SUFFICES ASSUME worker[v].at \in {"write", "file"}, worker[v].key \in Key \ raced'
                 PROVE  /\ Under(worker[v].key)' = {}
                        /\ \A u \in Worker : (u \in Issuing(worker[v].key))' => u = v
      BY <1>2 DEF KeyIsFree
    <2>1. Under(worker[v].key) = {} /\ \A u \in Worker : u \in Issuing(worker[v].key) => u = v
      BY <1>1 DEF RequestKnows, KeyIsFree
    <2>2. Under(worker[v].key)' = {}
      BY <1>2, <2>1 DEF Under
    <2>3. ASSUME NEW u \in Worker, (u \in Issuing(worker[v].key))' PROVE u = v
      <3>1. CASE u = w
        BY <1>2, <2>3, <3>1 DEF Issuing
      <3>2. CASE u # w
        BY <1>2, <2>1, <2>3, <3>2 DEF Issuing
      <3> QED BY <3>1, <3>2
    <2> QED BY <2>2, <2>3
  <1>4. worker[v].at = "file" => RecordIsNew(v)'
    <2> SUFFICES ASSUME worker[v].at = "file" PROVE RecordIsNew(v)'
      OBVIOUS
    <2>1. RecordIsNew(v)
      BY <1>1 DEF RequestKnows
    <2> DEFINE mine == worker[v].record
    <2>2. mine \in Record /\ mine.kind \in Kind /\ mine.n \in Nat
      BY <1>1 DEF Request, Record
    <2>3. mine.n < seq'[mine.kind]
      BY <1>1, <2>1, <2>2 DEF RecordIsNew
    <2>4. \A f \in records' : ~ (f.kind = mine.kind /\ f.n = mine.n)
      BY <2>1 DEF RecordIsNew
    <2>5. \A u \in Worker \ {v} :
            ~ (/\ worker'[u].at = "file"
               /\ worker'[u].record.kind = mine.kind /\ worker'[u].record.n = mine.n)
      BY <1>2, <2>1 DEF RecordIsNew
    <2> QED BY <1>2, <2>1, <2>3, <2>4, <2>5 DEF RecordIsNew
  <1>5. \A kinds : SnapshotIsGood(v, kinds) => SnapshotIsGood(v, kinds)'
    BY <1>2 DEF SnapshotIsGood, Calm
  <1>6. \A f : Calm(f)' => Calm(f)
    BY DEF Calm
  <1> QED BY <1>1, <1>2, <1>3, <1>4, <1>5, <1>6 DEF RequestKnows, Calm

(* A request moves on to r, and the records and the file are as they were. *)
LEMMA MoveStep ==
  ASSUME SandInv, NEW w \in Worker, NEW r \in Request,
         worker' = [worker EXCEPT ![w] = r],
         UNCHANGED <<records, seq, disk, answered, raced, unsaved, overtaken, crashes>>,
         r.at \in {"write", "file"} => r.at = "write" /\ r.key = NoKey,
         RequestKnows(w)'
  PROVE  SandInv'
  <1>1. \A v \in Worker : RequestKnows(v)'
    <2> SUFFICES ASSUME NEW v \in Worker, v # w PROVE RequestKnows(v)'
      OBVIOUS
    <2>1. \A kind \in Kind : seq'[kind] \in Nat /\ seq[kind] <= seq'[kind]
      BY DEF SandInv, TypeOK
    <2>2. worker[v].key \in Key => (r.at \in {"write", "file"} => r.key # worker[v].key)
      OBVIOUS
    <2> QED BY <2>1, <2>2, OthersStay
  <1>2. TypeOK' /\ Sound(records)' /\ Sound(disk)' /\ DraftsHaveNoKey(records)' /\ DraftsHaveNoKey(disk)'
        /\ NumbersAreBelow' /\ (\A f \in disk \ unsaved : Calm(f) => f \in records)'
        /\ (Saved \subseteq records)' /\ (Saved \subseteq disk)'
    BY DEF SandInv, TypeOK, Sound, DraftsHaveNoKey, NumbersAreBelow, Calm, Saved
  <1> QED BY <1>1, <1>2 DEF SandInv

LEMMA RefundRequestStep ==
  ASSUME SandInv, NEW w \in Worker, NEW key \in Key \cup {NoKey}, RefundRequest(w, key)
  PROVE  SandInv'
  <1> DEFINE r == [Idle EXCEPT !.at = "lookup", !.kind = "refund", !.key = key]
  <1>1. r \in Request /\ r.at = "lookup" /\ r.kind = "refund" /\ ~r.stale
    BY DEF Idle, Request, NoRecord, Record, Kind
  <1>2. worker' = [worker EXCEPT ![w] = r] /\ worker'[w] = r
    BY DEF RefundRequest, SandInv, TypeOK
  <1> HIDE DEF r
  <1>3. RequestKnows(w)'
    BY <1>1, <1>2 DEF RequestKnows
  <1> QED BY <1>1, <1>2, <1>3, MoveStep DEF RefundRequest

(* A draft has no key.                                                     *)
LEMMA DraftRequestStep ==
  ASSUME SandInv, NEW w \in Worker, DraftRequest(w)
  PROVE  SandInv'
  <1> DEFINE r == [Idle EXCEPT !.at = "write", !.kind = "draft"]
  <1>1. r \in Request /\ r.at = "write" /\ r.key = NoKey /\ ~r.stale
    BY DEF Idle, Request, NoRecord, Record, Kind
  <1>2. worker' = [worker EXCEPT ![w] = r] /\ worker'[w] = r
    BY DEF DraftRequest, SandInv, TypeOK
  <1> HIDE DEF r
  <1>3. RequestKnows(w)'
    BY <1>1, <1>2 DEF RequestKnows, KeyIsFree
  <1> QED BY <1>1, <1>2, <1>3, MoveStep DEF DraftRequest

(* The refund that is found is one that is filed.                          *)
LEMMA LookupFindsStep ==
  ASSUME SandInv, NEW w \in Worker, LookupFinds(w)
  PROVE  SandInv'
  <1>1. PICK f \in Under(worker[w].key) :
          worker' = [worker EXCEPT ![w].at = "refunds", ![w].record = f]
    BY DEF LookupFinds
  <1> DEFINE r == [worker[w] EXCEPT !.at = "refunds", !.record = f]
  <1>2. worker[w] \in Request /\ f \in records /\ f \in Record
    BY DEF SandInv, TypeOK, Under
  <1>3. r \in Request /\ r.at = "refunds" /\ r.record = f /\ r.kind = worker[w].kind
        /\ r.key = worker[w].key /\ r.stale = worker[w].stale
    BY <1>2 DEF Request
  <1>4. worker' = [worker EXCEPT ![w] = r] /\ worker'[w] = r
    BY <1>1 DEF SandInv, TypeOK
  <1> HIDE DEF r
  <1>5. RequestKnows(w)'
    <2>1. RequestKnows(w) /\ worker[w].at = "lookup"
      BY DEF SandInv, LookupFinds
    <2>2. records' = records
      BY DEF LookupFinds
    <2> QED BY <1>2, <1>3, <1>4, <2>1, <2>2 DEF RequestKnows
  <1> QED BY <1>3, <1>4, <1>5, MoveStep DEF LookupFinds

(* A key that is missed is free, or another request missed it too.         *)
LEMMA LookupMissesStep ==
  ASSUME SandInv, NEW w \in Worker, LookupMisses(w)
  PROVE  SandInv'
  <1> DEFINE r == [worker[w] EXCEPT !.at = "write"]
             key == worker[w].key
  <1>1. worker[w] \in Request /\ worker \in [Worker -> Request] /\ key \in Key \cup {NoKey}
    BY DEF SandInv, TypeOK, Request
  <1>2. r \in Request /\ r.at = "write" /\ r.key = key /\ r.kind = worker[w].kind /\ r.stale = worker[w].stale
    BY <1>1 DEF Request
  <1>3. worker' = [worker EXCEPT ![w] = r] /\ worker'[w] = r
        /\ raced' = raced \cup {worker[v].key : v \in Issuing(key)}
        /\ UNCHANGED <<records, seq, disk, answered, unsaved, overtaken, crashes>>
        /\ Under(key) = {}
    BY <1>1 DEF LookupMisses
  <1>4. \A v \in Issuing(key) : v \in Worker /\ worker[v].key = key /\ key \in Key
    BY <1>1 DEF Issuing
  <1>5. raced' \in SUBSET Key /\ raced \subseteq raced' /\ (Issuing(key) # {} => key \in raced')
    BY <1>3, <1>4 DEF SandInv, TypeOK
  <1> HIDE DEF r
  <1>6. RequestKnows(w)'
    <2>1. RequestKnows(w) /\ worker[w].at = "lookup"
      BY DEF SandInv, LookupMisses
    <2>2. KeyIsFree(w)'
      <3> SUFFICES ASSUME key \in Key \ raced'
                   PROVE  Under(key)' = {} /\ \A u \in Worker : (u \in Issuing(key))' => u = w
        BY <1>2, <1>3 DEF KeyIsFree
      <3>1. Under(key)' = {}
        BY <1>2, <1>3 DEF Under
      <3>2. Issuing(key) = {}
        BY <1>5
      <3>3. \A u \in Worker : u # w => worker'[u] = worker[u]
        BY <1>1, <1>3
      <3> QED BY <1>2, <1>3, <3>1, <3>2, <3>3 DEF Issuing
    <2> QED BY <1>2, <1>3, <2>1, <2>2 DEF RequestKnows
  <1>7. \A v \in Worker : RequestKnows(v)'
    <2> SUFFICES ASSUME NEW v \in Worker, v # w PROVE RequestKnows(v)'
      BY <1>6
    <2>1. \A kind \in Kind : seq'[kind] \in Nat /\ seq[kind] <= seq'[kind]
      BY <1>3 DEF SandInv, TypeOK
    <2>2. worker[v].at \in {"write", "file"} /\ worker[v].key \in Key \ raced' => r.key # worker[v].key
      BY <1>2, <1>5 DEF Issuing, SandInv, TypeOK
    <2> QED BY <1>2, <1>3, <1>5, <2>1, <2>2, OthersStay
  <1>8. TypeOK' /\ Sound(records)' /\ Sound(disk)' /\ DraftsHaveNoKey(records)' /\ DraftsHaveNoKey(disk)'
        /\ NumbersAreBelow'
    BY <1>1, <1>2, <1>3, <1>5 DEF SandInv, TypeOK, Sound, DraftsHaveNoKey, NumbersAreBelow
  <1>9. (\A f \in disk \ unsaved : Calm(f) => f \in records)'
        /\ (Saved \subseteq records)' /\ (Saved \subseteq disk)'
    BY <1>3, <1>5 DEF SandInv, Calm, Saved
  <1> QED BY <1>7, <1>8, <1>9 DEF SandInv

LEMMA RefusedStep ==
  ASSUME SandInv, NEW w \in Worker, Refused(w)
  PROVE  SandInv'
  <1>1. worker' = [worker EXCEPT ![w] = Idle] /\ worker'[w] = Idle
    BY DEF Refused, SandInv, TypeOK
  <1>2. RequestKnows(w)'
    BY <1>1, IdleRequest DEF RequestKnows
  <1> QED BY <1>1, <1>2, IdleRequest, MoveStep DEF Refused

(* The number is past every one that is filed or in hand.                  *)
LEMMA NumberStep ==
  ASSUME SandInv, NEW w \in Worker, Number(w)
  PROVE  SandInv'
  <1> DEFINE kind == worker[w].kind
             record == [kind |-> kind, n |-> seq[kind], key |-> worker[w].key]
             r == [worker[w] EXCEPT !.at = "file", !.record = record]
  <1>1. worker[w] \in Request /\ worker \in [Worker -> Request] /\ kind \in Kind
        /\ seq[kind] \in Nat \ {0} /\ seq[kind] <= MaxNumber[kind] /\ worker[w].at = "write"
    BY DEF SandInv, TypeOK, Number, Request
  <1>2. record \in Record /\ record.kind = kind /\ record.n = seq[kind] /\ record.key = worker[w].key
    BY <1>1 DEF Record, Request
  <1>3. r \in Request /\ r.at = "file" /\ r.record = record /\ r.kind = kind /\ r.key = worker[w].key
        /\ r.stale = worker[w].stale
    BY <1>1, <1>2 DEF Request
  <1>4. worker' = [worker EXCEPT ![w] = r] /\ worker'[w] = r
        /\ seq' = [seq EXCEPT ![kind] = seq[kind] + 1]
        /\ UNCHANGED <<records, disk, answered, raced, unsaved, overtaken, crashes>>
    BY <1>1 DEF Number
  <1> HIDE DEF record, r
  <1>5. seq' \in [Kind -> Nat \ {0}] /\ seq'[kind] = seq[kind] + 1
        /\ \A k \in Kind : seq[k] \in Nat /\ seq'[k] \in Nat /\ seq[k] <= seq'[k]
    BY <1>1, <1>4 DEF SandInv, TypeOK
  <1>6. \A f \in records : f.kind \in Kind /\ f.n \in Nat /\ f.n < seq[f.kind]
    BY DEF SandInv, TypeOK, NumbersAreBelow, Record
  <1>7. \A v \in Worker : worker[v].at = "file" =>
          worker[v].record.kind \in Kind /\ worker[v].record.n \in Nat
          /\ worker[v].record.n < seq[worker[v].record.kind]
    BY DEF SandInv, RequestKnows, RecordIsNew, TypeOK, Request, Record
  <1>8. \A v \in Worker : worker[v].at = "file" => ~ (record.kind = worker[v].record.kind /\ record.n = worker[v].record.n)
    BY <1>1, <1>2, <1>7
  <1>9. RequestKnows(w)'
    <2>1. RequestKnows(w)
      BY DEF SandInv
    <2>2. KeyIsFree(w)'
      <3>1. KeyIsFree(w)
        BY <1>1, <2>1 DEF RequestKnows
      <3>2. \A u \in Worker : u # w => worker'[u] = worker[u]
        BY <1>1, <1>4
      <3> QED BY <1>3, <1>4, <3>1, <3>2 DEF KeyIsFree, Under, Issuing
    <2>3. RecordIsNew(w)'
      <3>1. record.n < seq'[record.kind] /\ record.n <= MaxNumber[record.kind]
        BY <1>1, <1>2, <1>5
      <3>2. \A f \in records : ~ (f.kind = record.kind /\ f.n = record.n)
        BY <1>1, <1>2, <1>6
      <3>3. \A v \in Worker \ {w} : worker'[v] = worker[v]
        BY <1>1, <1>4
      <3> QED BY <1>2, <1>3, <1>4, <1>8, <3>1, <3>2, <3>3 DEF RecordIsNew
    <2> QED BY <1>1, <1>3, <1>4, <2>1, <2>2, <2>3 DEF RequestKnows
  <1>10. \A v \in Worker : RequestKnows(v)'
    <2> SUFFICES ASSUME NEW v \in Worker, v # w PROVE RequestKnows(v)'
      BY <1>9
    <2>1. worker[v].at \in {"write", "file"} /\ worker[v].key \in Key \ raced' => r.key # worker[v].key
      <3>1. KeyIsFree(w)
        BY <1>1 DEF SandInv, RequestKnows
      <3> QED BY <1>3, <1>4, <3>1 DEF KeyIsFree, Issuing, SandInv, TypeOK
    <2> QED BY <1>3, <1>4, <1>5, <1>8, <2>1, OthersStay
  <1>11. NumbersAreBelow'
    BY <1>4, <1>5, <1>6 DEF NumbersAreBelow
  <1>12. TypeOK' /\ Sound(records)' /\ Sound(disk)' /\ DraftsHaveNoKey(records)' /\ DraftsHaveNoKey(disk)'
        /\ (\A f \in disk \ unsaved : Calm(f) => f \in records)'
        /\ (Saved \subseteq records)' /\ (Saved \subseteq disk)'
    BY <1>1, <1>3, <1>4, <1>5 DEF SandInv, TypeOK, Sound, DraftsHaveNoKey, Calm, Saved
  <1> QED BY <1>10, <1>11, <1>12 DEF SandInv

(* Only a raced key has a refund by the time another is filed over it.     *)
LEMMA FileStep ==
  ASSUME SandInv, NEW w \in Worker, File(w)
  PROVE  SandInv'
  <1> DEFINE record == worker[w].record
             key == worker[w].key
             r == [worker[w] EXCEPT !.at = "refunds"]
  <1>1. worker[w] \in Request /\ worker \in [Worker -> Request] /\ record \in Record
        /\ worker[w].at = "file" /\ key \in Key \cup {NoKey} /\ RequestKnows(w)
        /\ records \in SUBSET Record
    BY DEF SandInv, TypeOK, File, Request
  <1>2. r \in Request /\ r.at = "refunds" /\ r.record = record /\ r.kind = worker[w].kind /\ r.key = key
        /\ r.stale = worker[w].stale
    BY <1>1 DEF Request
  <1>3. worker' = [worker EXCEPT ![w] = r] /\ worker'[w] = r
        /\ records' = (records \ Under(key)) \cup {record}
        /\ UNCHANGED <<seq, disk, answered, raced, unsaved, overtaken, crashes>>
    BY <1>1 DEF File
  <1>4. RecordIsNew(w) /\ KeyIsFree(w)
    BY <1>1 DEF RequestKnows
  <1>5. \A f \in records : Calm(f) => f \in records'
    BY <1>1, <1>3, <1>4 DEF KeyIsFree, Under, Calm
  <1>6. record.kind \in Kind /\ record.n \in Nat /\ record.key = key /\ record.kind = worker[w].kind
        /\ record.n < seq[record.kind] /\ record.n <= MaxNumber[record.kind]
        /\ \A f \in records : ~ (f.kind = record.kind /\ f.n = record.n)
    BY <1>1, <1>4 DEF RecordIsNew, Record
  <1>7. \A f \in records' : f = record \/ (f \in records /\ (key # NoKey => f.key # key))
    BY <1>3 DEF Under
  <1> HIDE DEF r
  <1>8. RequestKnows(w)'
    BY <1>1, <1>2, <1>3 DEF RequestKnows
  <1>9. \A v \in Worker : RequestKnows(v)'
    <2> SUFFICES ASSUME NEW v \in Worker, v # w PROVE RequestKnows(v)'
      BY <1>8
    <2>1. \A kind \in Kind : seq'[kind] \in Nat /\ seq[kind] <= seq'[kind]
      BY <1>3 DEF SandInv, TypeOK
    <2>2. worker[v].at = "file" => ~ (record.kind = worker[v].record.kind /\ record.n = worker[v].record.n)
      BY <1>4 DEF RecordIsNew
    <2>3. worker[v].at \in {"write", "file"} /\ worker[v].key \in Key \ raced' => record.key # worker[v].key
      BY <1>3, <1>4, <1>6, <1>1 DEF KeyIsFree, Issuing
    <2>4. \A f \in records' \ records : f = record
      BY <1>7
    <2>5. \A f \in records : f.key \notin raced' => f \in records'
      BY <1>3, <1>5 DEF Calm
    <2> QED BY <1>2, <1>3, <2>1, <2>2, <2>3, <2>4, <2>5, OthersStay
  <1>10. TypeOK' /\ Sound(disk)' /\ DraftsHaveNoKey(disk)'
    BY <1>1, <1>2, <1>3 DEF SandInv, TypeOK, Sound, DraftsHaveNoKey
  <1>11. Sound(records)'
    <2>1. \A f \in records' : f.n <= MaxNumber[f.kind]
      BY <1>6, <1>7 DEF SandInv, Sound
    <2>2. \A f, g \in records' : f.kind = g.kind /\ f.n = g.n => f = g
      BY <1>6, <1>7 DEF SandInv, Sound
    <2>3. \A f, g \in records' : f.key = g.key /\ f.key # NoKey => f = g
      BY <1>6, <1>7 DEF SandInv, Sound
    <2> QED BY <2>1, <2>2, <2>3 DEF Sound
  <1>12. DraftsHaveNoKey(records)' /\ NumbersAreBelow'
    BY <1>1, <1>3, <1>6, <1>7 DEF SandInv, DraftsHaveNoKey, NumbersAreBelow, RequestKnows
  <1>13. (\A f \in disk \ unsaved : Calm(f) => f \in records)'
        /\ (Saved \subseteq records)' /\ (Saved \subseteq disk)'
    BY <1>3, <1>5 DEF SandInv, Calm, Saved
  <1> QED BY <1>9, <1>10, <1>11, <1>12, <1>13 DEF SandInv

(* The refunds are read, and the file has none that is not among them.     *)
LEMMA SnapshotRefundsStep ==
  ASSUME SandInv, NEW w \in Worker, SnapshotRefunds(w)
  PROVE  SandInv'
  <1> DEFINE r == [worker[w] EXCEPT !.at = "drafts", !.snap = OfKind("refund")]
  <1>1. worker[w] \in Request /\ worker \in [Worker -> Request] /\ worker[w].at = "refunds" /\ RequestKnows(w)
        /\ records \in SUBSET Record
    BY DEF SandInv, TypeOK, SnapshotRefunds
  <1>2. r \in Request /\ r.at = "drafts" /\ r.snap = OfKind("refund") /\ r.record = worker[w].record
        /\ r.kind = worker[w].kind /\ r.key = worker[w].key
    BY <1>1 DEF Request, OfKind
  <1>3. worker' = [worker EXCEPT ![w] = r] /\ worker'[w] = r
        /\ UNCHANGED <<records, seq, disk, answered, raced, unsaved, overtaken, crashes>>
    BY <1>1 DEF SnapshotRefunds
  <1> HIDE DEF r
  <1>4. Sound(r.snap) /\ DraftsHaveNoKey(r.snap) /\ (\A f \in r.snap : f.kind = "refund" /\ f \in records)
    BY <1>2 DEF SandInv, Sound, DraftsHaveNoKey, OfKind
  <1>5. Calm(r.record) => r.record \in records
    BY <1>1, <1>2 DEF RequestKnows
  <1>6. \A f \in disk \ unsaved : f.kind = "refund" /\ Calm(f) => f \in r.snap
    BY <1>2 DEF SandInv, OfKind
  <1>7. r.record.kind = "refund" /\ Calm(r.record) => r.record \in r.snap
    BY <1>2, <1>5 DEF OfKind
  <1>8. SnapshotIsGood(w, {"refund"})'
    BY <1>3, <1>4, <1>6, <1>7 DEF SnapshotIsGood, Calm, Sound, DraftsHaveNoKey
  <1>9. RequestKnows(w)'
    BY <1>1, <1>2, <1>3, <1>5, <1>8 DEF RequestKnows, Calm
  <1> QED BY <1>2, <1>3, <1>9, MoveStep

(* With the drafts, the snapshot has all that the file has.                *)
LEMMA SnapshotDraftsStep ==
  ASSUME SandInv, NEW w \in Worker, SnapshotDrafts(w)
  PROVE  SandInv'
  <1> DEFINE r == [worker[w] EXCEPT !.at = "replace", !.snap = worker[w].snap \cup OfKind("draft")]
  <1>1. worker[w] \in Request /\ worker \in [Worker -> Request] /\ worker[w].at = "drafts" /\ RequestKnows(w)
        /\ SnapshotIsGood(w, {"refund"}) /\ records \in SUBSET Record /\ worker[w].snap \in SUBSET Record
        /\ disk \in SUBSET Record /\ worker[w].record \in Record
    BY DEF SandInv, TypeOK, SnapshotDrafts, RequestKnows, Request
  <1>2. r \in Request /\ r.at = "replace" /\ r.snap = worker[w].snap \cup OfKind("draft")
        /\ r.record = worker[w].record /\ r.kind = worker[w].kind /\ r.key = worker[w].key
        /\ r.stale = worker[w].stale
    BY <1>1 DEF Request, OfKind
  <1>3. worker' = [worker EXCEPT ![w] = r] /\ worker'[w] = r
        /\ UNCHANGED <<records, seq, disk, answered, raced, unsaved, overtaken, crashes>>
    BY <1>1 DEF SnapshotDrafts
  <1> HIDE DEF r
  <1>4. (\A f \in worker[w].snap : f.kind = "refund") /\ (\A f \in OfKind("draft") : f.kind = "draft" /\ f.key = NoKey)
    BY <1>1 DEF SnapshotIsGood, OfKind, SandInv, DraftsHaveNoKey
  <1>5. Sound(r.snap) /\ DraftsHaveNoKey(r.snap)
    <2>1. Sound(OfKind("draft")) /\ Sound(worker[w].snap)
      BY <1>1 DEF SandInv, Sound, OfKind, SnapshotIsGood
    <2> QED BY <1>2, <1>4, <2>1 DEF Sound, DraftsHaveNoKey
  <1>6. (Calm(r.record) => r.record \in records) /\ \A f \in r.snap : Calm(f) => f \in records
    BY <1>1, <1>2 DEF RequestKnows, SnapshotIsGood, OfKind
  <1>7. ~r.stale => \A f \in disk \ unsaved : Calm(f) => f \in r.snap
    <2> SUFFICES ASSUME ~r.stale, NEW f \in disk \ unsaved, Calm(f) PROVE f \in r.snap
      OBVIOUS
    <2>1. f \in records /\ f.kind \in Kind
      BY <1>1 DEF SandInv, Record
    <2>2. CASE f.kind = "refund"
      BY <1>1, <1>2, <2>2 DEF SnapshotIsGood
    <2>3. CASE f.kind = "draft"
      BY <1>2, <2>1, <2>3 DEF OfKind
    <2> QED BY <2>1, <2>2, <2>3 DEF Kind
  <1>8. Calm(r.record) => r.record \in r.snap
    <2>1. r.record.kind \in Kind
      BY <1>1, <1>2 DEF Record
    <2>2. CASE r.record.kind = "refund"
      BY <1>1, <1>2, <2>2 DEF SnapshotIsGood
    <2>3. CASE r.record.kind = "draft"
      BY <1>2, <1>6, <2>3 DEF OfKind
    <2> QED BY <2>1, <2>2, <2>3 DEF Kind
  <1>9. \A f \in r.snap : f.kind \in Kind
    BY <1>2, <1>4 DEF Kind
  <1>10. SnapshotIsGood(w, Kind)'
    BY <1>3, <1>5, <1>6, <1>7, <1>8, <1>9 DEF SnapshotIsGood, Calm, Sound, DraftsHaveNoKey
  <1>11. RequestKnows(w)'
    BY <1>1, <1>2, <1>3, <1>6, <1>10 DEF RequestKnows, Calm
  <1> QED BY <1>2, <1>3, <1>11, MoveStep

(* The file becomes the snapshot. Nothing calm is dropped, but by a        *)
(* snapshot that is older than the file, and then it is overtaken.         *)
LEMMA ReplaceStep ==
  ASSUME SandInv, NEW w \in Worker, Replace(w)
  PROVE  SandInv'
  <1> DEFINE snap == worker[w].snap
             r == [worker[w] EXCEPT !.at = "answer", !.snap = {}, !.stale = FALSE]
  <1>1. worker[w] \in Request /\ worker \in [Worker -> Request] /\ worker[w].at = "replace" /\ RequestKnows(w)
        /\ SnapshotIsGood(w, Kind) /\ snap \in SUBSET Record /\ disk \in SUBSET Record
        /\ worker[w].record \in Record
    BY DEF SandInv, TypeOK, Replace, RequestKnows, Request
  <1>2. r \in Request /\ r.at = "answer" /\ r.record = worker[w].record /\ r.kind = worker[w].kind
        /\ r.key = worker[w].key
    BY <1>1 DEF Request
  <1>3. /\ disk' = snap /\ unsaved' = unsaved \ snap
        /\ overtaken' = (overtaken \cup IF worker[w].stale THEN disk ELSE {}) \ snap
        /\ worker'[w] = r
        /\ UNCHANGED <<records, seq, answered, raced, crashes>>
    BY <1>1 DEF Replace
  <1>4. \A v \in Worker : v # w =>
          worker'[v] = IF worker[v].at \in {"drafts", "replace"} THEN [worker[v] EXCEPT !.stale = TRUE]
                       ELSE worker[v]
    BY DEF Replace
  <1> HIDE DEF r
  <1>5. \A v \in Worker : v # w =>
          /\ worker'[v] \in Request
          /\ worker'[v].at = worker[v].at /\ worker'[v].kind = worker[v].kind
          /\ worker'[v].key = worker[v].key /\ worker'[v].record = worker[v].record
          /\ worker'[v].snap = worker[v].snap
          /\ worker[v].at \in {"drafts", "replace"} => worker'[v].stale
          /\ worker[v].at \notin {"drafts", "replace"} => worker'[v] = worker[v]
    <2> SUFFICES ASSUME NEW v \in Worker, v # w
                 PROVE  /\ worker'[v] \in Request
                        /\ worker'[v].at = worker[v].at /\ worker'[v].kind = worker[v].kind
                        /\ worker'[v].key = worker[v].key /\ worker'[v].record = worker[v].record
                        /\ worker'[v].snap = worker[v].snap
                        /\ worker[v].at \in {"drafts", "replace"} => worker'[v].stale
                        /\ worker[v].at \notin {"drafts", "replace"} => worker'[v] = worker[v]
      OBVIOUS
    <2> DEFINE q == worker[v]
    <2>1. q \in Request
      BY <1>1
    <2>2. CASE q.at \notin {"drafts", "replace"}
      BY <1>4, <2>1, <2>2
    <2>3. CASE q.at \in {"drafts", "replace"}
      <3>1. worker'[v] = [q EXCEPT !.stale = TRUE]
        BY <1>4, <2>3
      <3> HIDE DEF q
      <3>2. /\ [q EXCEPT !.stale = TRUE] \in Request
            /\ [q EXCEPT !.stale = TRUE].at = q.at /\ [q EXCEPT !.stale = TRUE].kind = q.kind
            /\ [q EXCEPT !.stale = TRUE].key = q.key /\ [q EXCEPT !.stale = TRUE].record = q.record
            /\ [q EXCEPT !.stale = TRUE].snap = q.snap /\ [q EXCEPT !.stale = TRUE].stale = TRUE
        BY <2>1 DEF Request
      <3> QED BY <2>3, <3>1, <3>2 DEF q
    <2> QED BY <2>2, <2>3
  <1>6. \A f \in snap : Calm(f) => f \in records
    BY <1>1 DEF SnapshotIsGood
  <1>7. \A f \in disk : Calm(f) => f \in disk' \cup unsaved' \cup overtaken'
    <2> SUFFICES ASSUME NEW f \in disk, Calm(f), f \notin snap PROVE f \in unsaved' \cup overtaken'
      BY <1>3
    <2>1. CASE worker[w].stale
      BY <1>3, <2>1
    <2>2. CASE ~worker[w].stale
      BY <1>1, <1>3, <2>2 DEF SnapshotIsGood, Record
    <2> QED BY <2>1, <2>2
  <1>8. \A f \in disk \cup unsaved \cup overtaken : Calm(f) => f \in disk' \cup unsaved' \cup overtaken'
    BY <1>3, <1>7
  <1>9. \A f \in Saved' : f \in snap /\ f \in records
    <2> SUFFICES ASSUME NEW f \in Saved', f \notin snap PROVE FALSE
      BY <1>3, <1>6 DEF Saved, Calm
    <2>1. f \in answered /\ f \notin unsaved /\ f \notin overtaken /\ Calm(f)
          /\ f \notin unsaved' /\ f \notin overtaken'
      BY <1>3 DEF Saved, Calm
    <2>2. f \in Saved
      BY <2>1 DEF Saved, Calm
    <2>3. f \in disk
      BY <2>2 DEF SandInv
    <2> QED BY <1>3, <1>7, <2>1, <2>3
  <1>10. TypeOK'
    <2>1. worker' \in [Worker -> Request]
      <3>1. \A v \in Worker : worker'[v] \in Request
        BY <1>2, <1>3, <1>5
      <3>2. worker' = [v \in Worker |-> worker'[v]]
        BY DEF Replace
      <3> QED BY <3>1, <3>2
    <2>2. disk' \in SUBSET Record /\ unsaved' \in SUBSET Record /\ overtaken' \in SUBSET Record
      BY <1>1, <1>3 DEF SandInv, TypeOK
    <2> QED BY <1>3, <2>1, <2>2 DEF SandInv, TypeOK
  <1>11. RequestKnows(w)'
    <2>1. Calm(r.record) => r.record \in snap
      BY <1>1, <1>2 DEF SnapshotIsGood, Record
    <2>2. Calm(r.record) => r.record \in records
      BY <1>6, <2>1
    <2> QED BY <1>1, <1>2, <1>3, <2>1, <2>2 DEF RequestKnows, Calm
  <1>12. ASSUME NEW v \in Worker, v # w PROVE RequestKnows(v)'
    <2>1. RequestKnows(v)
      BY DEF SandInv
    <2>2. worker[v].at \in {"write", "file"} => KeyIsFree(v)'
      <3>1. \A u \in Worker : (u \in Issuing(worker[v].key))' => u \in Issuing(worker[v].key)
        BY <1>2, <1>3, <1>5 DEF Issuing
      <3> QED BY <1>3, <1>5, <1>12, <2>1, <3>1 DEF RequestKnows, KeyIsFree, Under
    <2>3. worker[v].at = "file" => RecordIsNew(v)'
      <3> SUFFICES ASSUME worker[v].at = "file" PROVE RecordIsNew(v)'
        OBVIOUS
      <3>1. RecordIsNew(v)
        BY <2>1 DEF RequestKnows
      <3>2. \A u \in Worker \ {v} : worker'[u].at = "file" =>
              worker[u].at = "file" /\ worker'[u].record = worker[u].record
        BY <1>2, <1>3, <1>5
      <3> QED BY <1>3, <1>5, <1>12, <3>1, <3>2 DEF RecordIsNew
    <2>4. \A kinds : worker[v].at \in {"drafts", "replace"} /\ SnapshotIsGood(v, kinds) => SnapshotIsGood(v, kinds)'
      BY <1>3, <1>5, <1>12 DEF SnapshotIsGood, Calm, Sound, DraftsHaveNoKey
    <2>5. worker[v].at = "idle" => worker'[v] = Idle
      BY <1>5, <1>12, <2>1 DEF RequestKnows
    <2>6. \A f : Calm(f)' = Calm(f)
      BY <1>3 DEF Calm
    <2>7. worker[v].at = "answer" /\ Calm(worker[v].record) => worker[v].record \in (disk \cup unsaved \cup overtaken)'
      BY <1>8, <2>1 DEF RequestKnows
    <2> QED BY <1>3, <1>5, <1>12, <2>1, <2>2, <2>3, <2>4, <2>5, <2>6, <2>7 DEF RequestKnows
  <1>13. Sound(records)' /\ Sound(disk)' /\ DraftsHaveNoKey(records)' /\ DraftsHaveNoKey(disk)' /\ NumbersAreBelow'
    BY <1>1, <1>3 DEF SandInv, Sound, DraftsHaveNoKey, NumbersAreBelow, SnapshotIsGood
  <1>14. (\A f \in disk \ unsaved : Calm(f) => f \in records)' /\ (Saved \subseteq records)' /\ (Saved \subseteq disk)'
    BY <1>3, <1>6, <1>9 DEF Calm
  <1> QED BY <1>10, <1>11, <1>12, <1>13, <1>14 DEF SandInv

(* A record the file does not have is one that storage failed to write.    *)
LEMMA SaveFailsStep ==
  ASSUME SandInv, NEW w \in Worker, SaveFails(w)
  PROVE  SandInv'
  <1> DEFINE r == [worker[w] EXCEPT !.at = "answer", !.snap = {}, !.stale = FALSE]
  <1>1. worker[w] \in Request /\ worker \in [Worker -> Request] /\ worker[w].at = "replace" /\ RequestKnows(w)
        /\ worker[w].record \in Record
    BY DEF SandInv, TypeOK, SaveFails, Request
  <1>2. r \in Request /\ r.at = "answer" /\ r.record = worker[w].record /\ r.kind = worker[w].kind
        /\ r.key = worker[w].key
    BY <1>1 DEF Request
  <1>3. worker' = [worker EXCEPT ![w] = r] /\ worker'[w] = r
        /\ unsaved' = unsaved \cup ({r.record} \ disk)
        /\ UNCHANGED <<records, seq, disk, answered, raced, overtaken, crashes>>
    BY <1>1, <1>2 DEF SaveFails
  <1> HIDE DEF r
  <1>4. RequestKnows(w)'
    BY <1>1, <1>2, <1>3 DEF RequestKnows, Calm
  <1>5. \A v \in Worker : RequestKnows(v)'
    <2> SUFFICES ASSUME NEW v \in Worker, v # w PROVE RequestKnows(v)'
      BY <1>4
    <2>1. \A kind \in Kind : seq'[kind] \in Nat /\ seq[kind] <= seq'[kind]
      BY <1>3 DEF SandInv, TypeOK
    <2> QED BY <1>2, <1>3, <2>1, OthersStay
  <1>6. TypeOK' /\ Sound(records)' /\ Sound(disk)' /\ DraftsHaveNoKey(records)' /\ DraftsHaveNoKey(disk)'
        /\ NumbersAreBelow'
    BY <1>1, <1>2, <1>3 DEF SandInv, TypeOK, Sound, DraftsHaveNoKey, NumbersAreBelow
  <1>7. (\A f \in disk \ unsaved : Calm(f) => f \in records)' /\ (Saved \subseteq records)' /\ (Saved \subseteq disk)'
    BY <1>3 DEF SandInv, Calm, Saved
  <1> QED BY <1>5, <1>6, <1>7 DEF SandInv

(* What a caller is told of is in the records, and in the file unless      *)
(* storage failed or an older snapshot dropped it.                         *)
LEMMA AnswerStep ==
  ASSUME SandInv, NEW w \in Worker, Answer(w)
  PROVE  SandInv'
  <1> DEFINE record == worker[w].record
  <1>1. record \in Record /\ worker \in [Worker -> Request]
        /\ (Calm(record) => record \in records /\ record \in disk \cup unsaved \cup overtaken)
    BY DEF SandInv, RequestKnows, Answer, TypeOK, Request
  <1>2. worker' = [worker EXCEPT ![w] = Idle] /\ worker'[w] = Idle /\ answered' = answered \cup {record}
        /\ UNCHANGED <<records, seq, disk, raced, unsaved, overtaken, crashes>>
    BY <1>1 DEF Answer
  <1>3. RequestKnows(w)'
    BY <1>2, IdleRequest DEF RequestKnows
  <1>4. \A v \in Worker : RequestKnows(v)'
    <2> SUFFICES ASSUME NEW v \in Worker, v # w PROVE RequestKnows(v)'
      BY <1>3
    <2>1. \A kind \in Kind : seq'[kind] \in Nat /\ seq[kind] <= seq'[kind]
      BY <1>2 DEF SandInv, TypeOK
    <2> QED BY <1>2, <2>1, IdleRequest, OthersStay
  <1>5. TypeOK' /\ Sound(records)' /\ Sound(disk)' /\ DraftsHaveNoKey(records)' /\ DraftsHaveNoKey(disk)'
        /\ NumbersAreBelow' /\ (\A f \in disk \ unsaved : Calm(f) => f \in records)'
    BY <1>1, <1>2, IdleRequest DEF SandInv, TypeOK, Sound, DraftsHaveNoKey, NumbersAreBelow, Calm
  <1>6. (Saved \subseteq records)' /\ (Saved \subseteq disk)'
    BY <1>1, <1>2 DEF SandInv, Saved, Calm
  <1> QED BY <1>4, <1>5, <1>6 DEF SandInv

(* Whatever sound set is loaded, the counters go on past it.               *)
LEMMA RestoreStep ==
  ASSUME SandInv, NEW loaded \in SUBSET Record, Sound(loaded), DraftsHaveNoKey(loaded), restore(loaded),
         worker' = [w \in Worker |-> Idle], disk' = disk, answered' = answered,
         raced' = raced, overtaken' = overtaken,
         unsaved' \in SUBSET Record, crashes' \in 0..MaxCrashes,
         disk \ unsaved' \subseteq loaded, Saved' \subseteq loaded, Saved' \subseteq disk
  PROVE  SandInv'
  <1>1. records' = loaded
    BY DEF restore
  <1>2. ASSUME NEW kind \in Kind
        PROVE  /\ seq'[kind] \in Nat \ {0}
               /\ \A f \in loaded : f.kind = kind => f.n < seq'[kind]
    <2> DEFINE mine == {f \in loaded : f.kind = kind}
    <2>1. mine \in SUBSET Record /\ MaxNumber[kind] \in Nat /\ \A f \in mine : f.n <= MaxNumber[kind]
      BY DEF Sound, Kind
    <2>2. seq'[kind] = next_id_number(mine)
      BY DEF restore
    <2>3. \A f \in loaded : f.kind = kind => f \in mine
      OBVIOUS
    <2> HIDE DEF mine
    <2> QED BY <2>1, <2>2, <2>3, NextIdNumber
  <1>3. seq' \in [Kind -> Nat \ {0}]
    BY <1>2 DEF restore
  <1>4. TypeOK'
    BY <1>1, <1>3, IdleRequest DEF SandInv, TypeOK
  <1>5. NumbersAreBelow'
    BY <1>1, <1>2 DEF NumbersAreBelow, Record
  <1>6. \A w \in Worker : RequestKnows(w)'
    BY IdleRequest DEF RequestKnows
  <1> QED BY <1>1, <1>4, <1>5, <1>6 DEF SandInv, Sound, DraftsHaveNoKey

LEMMA RestartStep ==
  ASSUME SandInv, Restart
  PROVE  SandInv'
  <1>1. crashes' \in 0..MaxCrashes /\ Saved' = Saved
    BY DEF SandInv, TypeOK, Restart, Saved
  <1> QED BY <1>1, RestoreStep DEF SandInv, TypeOK, Restart

LEMMA RestartUnreadStep ==
  ASSUME SandInv, RestartUnread
  PROVE  SandInv'
  <1>1. crashes' \in 0..MaxCrashes /\ Saved' = {} /\ unsaved' \in SUBSET Record /\ disk \ unsaved' = {}
    BY DEF SandInv, TypeOK, RestartUnread, Saved
  <1>2. Sound({}) /\ DraftsHaveNoKey({})
    BY DEF Sound, DraftsHaveNoKey
  <1> QED BY <1>1, <1>2, RestoreStep DEF SandInv, RestartUnread

-----------------------------------------------------------------------------
LEMMA SandInit == Init => SandInv
  BY IdleRequest DEF Init, SandInv, TypeOK, Sound, DraftsHaveNoKey, NumbersAreBelow, Saved, RequestKnows, Calm

LEMMA SandNext == SandInv /\ [Next]_vars => SandInv'
  <1> SUFFICES ASSUME SandInv, [Next]_vars PROVE SandInv'
    OBVIOUS
  <1>1. CASE \E w \in Worker, key \in Key \cup {NoKey} : RefundRequest(w, key)
    BY <1>1, RefundRequestStep
  <1>2. CASE \E w \in Worker : \/ DraftRequest(w) \/ LookupFinds(w) \/ LookupMisses(w) \/ Refused(w)
    BY <1>2, DraftRequestStep, LookupFindsStep, LookupMissesStep, RefusedStep
  <1>3. CASE \E w \in Worker : \/ Number(w) \/ File(w) \/ SnapshotRefunds(w) \/ SnapshotDrafts(w)
                               \/ Replace(w) \/ SaveFails(w) \/ Answer(w)
    BY <1>3, NumberStep, FileStep, SnapshotRefundsStep, SnapshotDraftsStep, ReplaceStep, SaveFailsStep, AnswerStep
  <1>4. CASE Restart \/ RestartUnread
    BY <1>4, RestartStep, RestartUnreadStep
  <1>5. CASE UNCHANGED vars
    <2>1. Saved' = Saved /\ TypeOK' = TypeOK
      BY <1>5 DEF vars, Saved, TypeOK
    <2>2. \A w \in Worker : RequestKnows(w) => RequestKnows(w)'
      BY <1>5 DEF vars, RequestKnows, KeyIsFree, RecordIsNew, SnapshotIsGood, Calm, Under, Issuing
    <2> QED BY <1>5, <2>1, <2>2 DEF vars, SandInv, NumbersAreBelow, Calm
  <1> QED BY <1>1, <1>2, <1>3, <1>4, <1>5 DEF Next

LEMMA SandAlways == Spec => []SandInv
  <1> QED BY SandNext, SandInit, PTL DEF Spec

(* For any number of workers: a key that is sent again keeps its refund,   *)
(* across restarts, failures of storage and whatever else is being written *)
(* (issue_refund, persistence).                                            *)
THEOREM KeyPaysOnce == Spec => []RetriedKeyKeepsItsRefund
  <1>1. SandInv => RetriedKeyKeepsItsRefund
    BY DEF SandInv, Sound, RetriedKeyKeepsItsRefund
  <1> QED BY <1>1, SandAlways, PTL

(* For any number of workers: what a caller was told of is there from then *)
(* on (persistence.save, restore).                                         *)
THEOREM AnswersAreKept == Spec => []AnsweredIsKept
  <1>1. SandInv => AnsweredIsKept
    BY DEF SandInv, AnsweredIsKept
  <1> QED BY <1>1, SandAlways, PTL

(* For any number of workers: a number a caller has seen is not handed out *)
(* again, whatever restarts come between (next_id_number).                 *)
THEOREM NumbersIdentify == Spec => []NumbersAreUnique
  <1>1. SandInv => NumbersAreUnique
    BY DEF SandInv, Sound, NumbersAreUnique
  <1> QED BY <1>1, SandAlways, PTL
=============================================================================
