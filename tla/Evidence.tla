------------------------------ MODULE Evidence ------------------------------
(***************************************************************************)
(* createQualificationManager of src/src/qualification.mjs: what one owner *)
(* knows of the routes it may use.  A qualification runs a child agent     *)
(* that must call the echo tool with an unguessable token, exactly once    *)
(* and by itself, then optional probes of single capabilities, and saves   *)
(* what it saw, passed or failed.  forget() deletes records while others   *)
(* qualify.                                                                *)
(*                                                                         *)
(* A key stands for one provider, model and effort.  The record store is   *)
(* the queue of operations RecordStore describes, each of them one step    *)
(* here; a caller waits for its answer.                                    *)
(*                                                                         *)
(* Where two operators with the same parameters follow each other, the     *)
(* first is a plausible mistake in the second, as in RecordStore.          *)
(***************************************************************************)
EXTENDS Integers, Sequences, FiniteSets

CONSTANTS
  Keys,             \* routes with an effort
  Probers,          \* calls of qualify()
  Capabilities,     \* what a probe beyond the smoke test may show
  Attestations,     \* what an operator attests: [classes, domain, author, basis]
  Colours,          \* what a panel of the image probe may show (8 in the code)
  Lifetime,         \* how long a record is valid (a day in the code)
  Deadline,         \* how long a challenge is (three minutes at most)
  MaxTime,          \* bound on the clock
  MaxQualified,     \* bound on qualifications
  MaxForgets        \* bound on calls of forget()

BaseClasses == {"public", "internal"}
DataClasses == BaseClasses \cup {"confidential", "restricted"}

ASSUME EvidenceAssumption ==
  /\ Lifetime \in Nat \ {0} /\ Deadline \in 1 .. Lifetime /\ MaxTime \in Nat
  /\ MaxQualified \in Nat /\ MaxForgets \in Nat
  /\ Capabilities \subseteq {"image", "structured-output"}
  /\ Attestations \subseteq [classes : SUBSET DataClasses, domain : BOOLEAN,
                             author : BOOLEAN, basis : BOOLEAN]

VARIABLES
  now,          \* the clock
  disk,         \* per key the latest record, or None
  revision,     \* per key how many revisions it has
  operations,   \* the operations the record store was asked for, oldest first
  probe,        \* per call of qualify() how far it has come
  forgetting,   \* the call of forget()
  disposed,     \* the manager was disposed
  qualified,    \* number of qualifications so far
  forgets,      \* number of calls of forget() so far
  lost          \* history: how answers that had not expired were lost

vars ==
  <<now, disk, revision, operations, probe, forgetting, disposed, qualified, forgets, lost>>

None == [issuedAt |-> -2 * Lifetime]
NoProbe == [at |-> "idle"]
NoForget == [at |-> "idle"]

Busy == {probe[p].key : p \in {p \in Probers : probe[p].at # "idle"}}
Expires(record) == record.issuedAt + Lifetime
Passed(call) == call.transport /\ call.text /\ call.tool

At(p, label) == probe[p].at = label
Set(p, call) == probe' = [probe EXCEPT ![p] = call]

(* What earlier runs of the plugin have left: a record that expires at the start, one
   that expires soon after it, or none. *)
Saved(time) == [issuedAt |-> time, available |-> TRUE, shown |-> {}, wide |-> FALSE]

Init ==
  /\ now = 0
  /\ disk \in [Keys -> {None, Saved(-Lifetime), Saved(1 - Lifetime)}]
  /\ revision = [k \in Keys |-> IF disk[k] = None THEN 0 ELSE 1]
  /\ operations = <<>>
  /\ probe = [p \in Probers |-> NoProbe]
  /\ forgetting = NoForget
  /\ disposed = FALSE
  /\ qualified = 0
  /\ forgets = 0
  /\ lost = {}

Tick ==
  /\ now < MaxTime
  /\ now' = now + 1
  /\ UNCHANGED <<disk, revision, operations, probe, forgetting, disposed, qualified, forgets, lost>>
-----------------------------------------------------------------------------
(* normalizeAttestation(): what widens the policy names a human and a basis, or the call
   is refused. *)
Widens(a) == a.domain \/ ~(a.classes \subseteq BaseClasses)
ValidAttestation(a) ==
  /\ a.classes # {}
  /\ Widens(a) => a.author /\ a.basis

(* qualify(): one qualification per key, two in all.  The signal of the call joins
   its caller's abort, the deadline and dispose(). *)
FreeKey(k) == k \notin Busy /\ Cardinality(Busy) < 2

Qualify(p, k, wanted, attestation) ==
  /\ qualified < MaxQualified
  /\ At(p, "idle")
  /\ ~disposed
  /\ FreeKey(k)
  /\ ValidAttestation(attestation)
  /\ qualified' = qualified + 1
  /\ Set(p, [at |-> "reading", key |-> k, wanted |-> wanted, attested |-> Widens(attestation),
             issuedAt |-> now, revision |-> -1, calls |-> <<>>,
             aborted |-> FALSE, transport |-> FALSE, text |-> FALSE, tool |-> FALSE,
             shown |-> {}])
  /\ operations' = Append(operations, [op |-> "read", by |-> p, key |-> k])
  /\ UNCHANGED <<now, disk, revision, forgetting, disposed, forgets, lost>>

(* The caller aborts, or the deadline passes, while the scope of the call is open. *)
Open(p) == probe[p].at \in {"reading", "starting", "running", "disposing", "probing"}
AbortQualification(p) ==
  /\ Open(p)
  /\ ~probe[p].aborted
  /\ Set(p, [probe[p] EXCEPT !.aborted = TRUE])
  /\ UNCHANGED <<now, disk, revision, operations, forgetting, disposed, qualified, forgets, lost>>

(* The operation at the head of the store's queue is carried out. *)
Operation == Head(operations)
Pending(op) == operations # <<>> /\ Operation.op = op

StoreReads ==
  /\ Pending("read")
  /\ operations' = Tail(operations)
  /\ Set(Operation.by,
         [probe[Operation.by] EXCEPT !.at = "starting", !.revision = revision[Operation.key]])
  /\ UNCHANGED <<now, disk, revision, forgetting, disposed, qualified, forgets, lost>>

(* End of the try block: the challenge is void, the scope closed, the record built and
   handed to the store.  An attestation widens it only after the smoke test passed. *)
RecordTrusting(call) ==
  [issuedAt |-> call.issuedAt, available |-> Passed(call), shown |-> call.shown,
   wide |-> call.attested]
RecordOf(call) ==
  [issuedAt |-> call.issuedAt, available |-> Passed(call), shown |-> call.shown,
   wide |-> call.attested /\ Passed(call)]

Closing(call, p) ==
  /\ Set(p, [at |-> "saving", key |-> call.key, revision |-> call.revision,
             record |-> RecordOf(call)])
  /\ operations' = Append(operations, [op |-> "save", by |-> p, key |-> call.key])

(* The read fails, and the call with it. *)
ReadFails ==
  /\ Pending("read")
  /\ operations' = Tail(operations)
  /\ Set(Operation.by, NoProbe)
  /\ UNCHANGED <<now, disk, revision, forgetting, disposed, qualified, forgets, lost>>

(* The services answer, the configuration matches, and the child starts with a fresh
   token; or one of these fails. *)
StartChild(p) ==
  /\ At(p, "starting")
  /\ ~probe[p].aborted
  /\ Set(p, [probe[p] EXCEPT !.at = "running"])
  /\ UNCHANGED <<now, disk, revision, operations, forgetting, disposed, qualified, forgets, lost>>

StartFails(p) ==
  /\ At(p, "starting")
  /\ Closing(probe[p], p)
  /\ UNCHANGED <<now, disk, revision, forgetting, disposed, qualified, forgets, lost>>

(* echo(): the token is looked up in every owner's manager, whoever calls.  Each call is
   remembered, also one that is refused. *)
Echo(p, caller) ==
  /\ At(p, "running")
  /\ ~disposed
  /\ now < probe[p].issuedAt + Deadline
  /\ Len(probe[p].calls) < 2
  /\ Set(p, [probe[p] EXCEPT !.calls = Append(@, caller)])
  /\ UNCHANGED <<now, disk, revision, operations, forgetting, disposed, qualified, forgets, lost>>

(* The child answers.  An aborted call takes nothing from the answer. *)
CalledOnce(call) == call.calls = <<"child">>

Answers(p) ==
  /\ At(p, "running")
  /\ \E completed, text \in BOOLEAN :
       LET seen == [probe[p] EXCEPT
                      !.transport = completed,
                      !.text = completed /\ text,
                      !.tool = completed /\ CalledOnce(probe[p])]
       IN Set(p, [(IF probe[p].aborted THEN probe[p] ELSE seen) EXCEPT !.at = "disposing"])
  /\ UNCHANGED <<now, disk, revision, operations, forgetting, disposed, qualified, forgets, lost>>

(* The child is disposed.  When that fails twice, nothing was passed. *)
ChildDisposed(p) ==
  /\ At(p, "disposing")
  /\ IF Passed(probe[p]) /\ ~probe[p].aborted /\ probe[p].wanted # {}
     THEN /\ Set(p, [probe[p] EXCEPT !.at = "probing"])
          /\ UNCHANGED operations
     ELSE Closing(probe[p], p)
  /\ UNCHANGED <<now, disk, revision, forgetting, disposed, qualified, forgets, lost>>

DisposalFailed(p) ==
  /\ At(p, "disposing")
  /\ \/ Closing(probe[p], p)
     \/ Closing([probe[p] EXCEPT !.transport = FALSE, !.text = FALSE, !.tool = FALSE], p)
  /\ UNCHANGED <<now, disk, revision, forgetting, disposed, qualified, forgets, lost>>

(* createImageProbe(): two panels of different colours, to be named in their order. *)
ImageGrades ==
  LET panels == [1 .. 2 -> Colours]
  IN {reply = chosen : reply \in panels, chosen \in {c \in panels : c[1] # c[2]}}

(* createStructuredProbe(): an object with the nonce, the sum and ok, each right or wrong. *)
StructuredGrades ==
  {reply.nonce /\ reply.sum /\ reply.ok :
     reply \in [nonce : BOOLEAN, sum : BOOLEAN, ok : BOOLEAN]}

(* runCapabilityProbe(), one capability after the other: a child without tools that must
   return what the probe alone knows.  A probe can only fail, never throw; an abort ends
   the sequence. *)
Grades(capability) == IF capability = "image" THEN ImageGrades ELSE StructuredGrades
ProbeCapability(p) ==
  /\ At(p, "probing")
  /\ IF probe[p].aborted \/ probe[p].wanted = {}
     THEN Closing(probe[p], p)
     ELSE /\ \E capability \in probe[p].wanted, completed \in BOOLEAN :
               \E solved \in Grades(capability) :
                 Set(p, [probe[p] EXCEPT
                           !.wanted = @ \ {capability},
                           !.shown = IF completed /\ solved THEN @ \cup {capability} ELSE @])
          /\ UNCHANGED operations
  /\ UNCHANGED <<now, disk, revision, forgetting, disposed, qualified, forgets, lost>>

(* A deletion does not hear of the answers that are saved while it awaits a removal:
   "renewed" is history. *)
StoreSaves ==
  /\ Pending("save")
  /\ LET p == Operation.by k == Operation.key
     IN IF probe[p].revision = revision[k]
        THEN /\ disk' = [disk EXCEPT ![k] = probe[p].record]
             /\ revision' = [revision EXCEPT ![k] = @ + 1]
             /\ forgetting' = IF forgetting.at = "removing"
                              THEN [forgetting EXCEPT !.renewed = @ \cup {k}]
                              ELSE forgetting
             /\ UNCHANGED lost
        ELSE /\ lost' = lost \cup {"conflict"}
             /\ UNCHANGED <<disk, revision, forgetting>>
  /\ operations' = Tail(operations)
  /\ Set(Operation.by, NoProbe)
  /\ UNCHANGED <<now, disposed, qualified, forgets>>

SaveFails ==
  /\ Pending("save")
  /\ operations' = Tail(operations)
  /\ Set(Operation.by, NoProbe)
  /\ UNCHANGED <<now, disk, revision, forgetting, disposed, qualified, forgets, lost>>
-----------------------------------------------------------------------------
(* forget(): list the records, then remove, one after the other, those that had expired
   when it was called; or, expired or not, all, or those of the routes it names. *)
Forget(all, routes) ==
  /\ forgets < MaxForgets
  /\ forgetting.at = "idle"
  /\ ~disposed
  /\ routes # {} /\ (~all => routes = Keys)
  /\ forgets' = forgets + 1
  /\ forgetting' = [at |-> "listing", all |-> all, routes |-> routes, since |-> now]
  /\ operations' = Append(operations, [op |-> "entries"])
  /\ UNCHANGED <<now, disk, revision, probe, disposed, qualified, lost>>

(* The loop over what was listed goes on as soon as the store has answered: the next
   record, unless its route is being qualified, in which case the rest stays. *)
RemoveNextBlindly(loop, rest) ==
  IF loop.left = {}
  THEN forgetting' = NoForget /\ operations' = rest
  ELSE \E k \in loop.left :
         /\ forgetting' = [loop EXCEPT !.left = @ \ {k}]
         /\ operations' = Append(rest, [op |-> "remove", key |-> k])
RemoveNext(loop, rest) ==
  IF loop.left = {}
  THEN forgetting' = NoForget /\ operations' = rest
  ELSE \E k \in loop.left :
         IF k \in Busy
         THEN forgetting' = NoForget /\ operations' = rest
         ELSE /\ forgetting' = [loop EXCEPT !.left = @ \ {k}]
              /\ operations' = Append(rest, [op |-> "remove", key |-> k])

Valid(k, since) == disk[k] # None /\ Expires(disk[k]) > since
Chosen(k) ==
  /\ k \in forgetting.routes /\ disk[k] # None
  /\ forgetting.all \/ ~Valid(k, forgetting.since)

StoreLists ==
  /\ Pending("entries")
  /\ RemoveNext([at |-> "removing", left |-> {k \in Keys : Chosen(k)}, all |-> forgetting.all,
                 since |-> forgetting.since, renewed |-> {}],
                Tail(operations))
  /\ UNCHANGED <<now, disk, revision, probe, disposed, qualified, forgets, lost>>

(* What is removed is whatever the store has for the key by then, not what was listed. *)
HowLost(k) ==
  IF forgetting.all \/ ~Valid(k, forgetting.since) THEN {}
  ELSE IF k \in forgetting.renewed THEN {"overtaken"} ELSE {"deletion"}

StoreRemoves ==
  /\ Pending("remove")
  /\ disk' = [disk EXCEPT ![Operation.key] = None]
  /\ revision' = [revision EXCEPT ![Operation.key] = 0]
  /\ lost' = lost \cup HowLost(Operation.key)
  /\ RemoveNext(forgetting, Tail(operations))
  /\ UNCHANGED <<now, probe, disposed, qualified, forgets>>

(* The store refuses to list or to remove, and the deletion with it. *)
ForgetFails ==
  /\ Pending("entries") \/ Pending("remove")
  /\ operations' = Tail(operations)
  /\ forgetting' = NoForget
  /\ UNCHANGED <<now, disk, revision, probe, disposed, qualified, forgets, lost>>

(* dispose(): every open scope aborts and every challenge is void.  Nothing is awaited. *)
DisposeManager ==
  /\ ~disposed
  /\ disposed' = TRUE
  /\ probe' = [p \in Probers |->
                 IF Open(p) THEN [probe[p] EXCEPT !.aborted = TRUE] ELSE probe[p]]
  /\ UNCHANGED <<now, disk, revision, operations, forgetting, qualified, forgets, lost>>
-----------------------------------------------------------------------------
QualificationStep(p) ==
  \/ StartChild(p) \/ StartFails(p) \/ Answers(p)
  \/ ChildDisposed(p) \/ DisposalFailed(p) \/ ProbeCapability(p)
StoreStep == StoreReads \/ StoreSaves \/ StoreLists \/ StoreRemoves

Next ==
  \/ Tick \/ DisposeManager
  \/ \E p \in Probers, k \in Keys, wanted \in SUBSET Capabilities, a \in Attestations :
       Qualify(p, k, wanted, a)
  \/ \E p \in Probers : QualificationStep(p) \/ AbortQualification(p)
  \/ \E p \in Probers, caller \in {"child", "other"} : Echo(p, caller)
  \/ StoreStep \/ ReadFails \/ SaveFails \/ ForgetFails
  \/ \E all \in BOOLEAN, routes \in SUBSET Keys : Forget(all, routes)

(* Nothing is said of fairness: what a qualification waits for is its child and the store. *)
Spec == Init /\ [][Next]_vars

(* What a call and its record are made of, and what the store may be asked for. *)
CallType ==
  [at : {"reading", "starting", "running", "disposing", "probing"}, key : Keys,
   wanted : SUBSET Capabilities, attested : BOOLEAN, issuedAt : 0 .. MaxTime,
   revision : Nat \cup {-1}, calls : Seq({"child", "other"}), aborted : BOOLEAN,
   transport : BOOLEAN, text : BOOLEAN, tool : BOOLEAN, shown : SUBSET Capabilities]
RecordType ==
  [issuedAt : -Lifetime .. MaxTime, available : BOOLEAN, shown : SUBSET Capabilities,
   wide : BOOLEAN]
SavingType == [at : {"saving"}, key : Keys, revision : Nat, record : RecordType]
OperationType ==
  [op : {"read", "save"}, by : Probers, key : Keys] \cup [op : {"entries"}]
    \cup [op : {"remove"}, key : Keys]
ForgetType ==
  {NoForget}
    \cup [at : {"listing"}, all : BOOLEAN, routes : SUBSET Keys, since : 0 .. MaxTime]
    \cup [at : {"removing"}, left : SUBSET Keys, all : BOOLEAN, since : 0 .. MaxTime,
          renewed : SUBSET Keys]

TypeOK ==
  /\ now \in 0 .. MaxTime
  /\ disk \in [Keys -> {None} \cup RecordType]
  /\ revision \in [Keys -> Nat]
  /\ \A k \in Keys : disk[k] = None <=> revision[k] = 0
  /\ operations \in Seq(OperationType)
  /\ probe \in [Probers -> {NoProbe} \cup CallType \cup SavingType]
  /\ forgetting \in ForgetType
  /\ lost \subseteq {"conflict", "deletion", "overtaken"}

(* A record claims a capability or a wider policy only if the smoke test passed: neither an
   attestation nor a capability probe can rescue a route that failed.  And the test is passed
   only by the child it was given to, with one call of the echo tool that nobody repeats. *)
Earned(record) == record.shown # {} \/ record.wide => record.available
EvidenceEarned ==
  /\ \A k \in Keys : disk[k] # None => Earned(disk[k])
  /\ \A p \in Probers : At(p, "saving") => Earned(probe[p].record)
  /\ \A p \in Probers : At(p, "probing") => Passed(probe[p])
  /\ \A p \in Probers : Open(p) /\ ~At(p, "probing") => probe[p].shown = {}
  /\ \A p \in Probers : Open(p) /\ probe[p].tool =>
       (At(p, "disposing") \/ At(p, "probing")) /\ probe[p].calls = <<"child">>

(* A key is qualified once at a time. *)
OnePerKey ==
  \A p, q \in Probers : ~At(p, "idle") /\ ~At(q, "idle") /\ probe[p].key = probe[q].key => p = q

(* Who asked the store for something waits for it, and asks for one thing at a time. *)
Asked(op) == op \in {"read", "save"}
Deleting(op) == op \in {"entries", "remove"}
WhoAsksWaits ==
  /\ \A i \in DOMAIN operations : LET o == operations[i] IN
       /\ o.op = "read" => At(o.by, "reading") /\ probe[o.by].key = o.key
       /\ o.op = "save" => At(o.by, "saving") /\ probe[o.by].key = o.key
       /\ o.op = "entries" => forgetting.at = "listing"
       /\ o.op = "remove" => forgetting.at = "removing"
  /\ \A i, j \in DOMAIN operations :
       \/ /\ Asked(operations[i].op) /\ Asked(operations[j].op)
          /\ operations[i].by = operations[j].by
       \/ Deleting(operations[i].op) /\ Deleting(operations[j].op)
       => i = j

(* The revision that a qualification has read is that of its key as long as it goes on: a
   deletion of that key comes before the read, in the queue and in time. *)
RevisionStands ==
  /\ \A p \in Probers : ~At(p, "idle") /\ ~At(p, "reading") =>
       /\ probe[p].revision = revision[probe[p].key]
       /\ \A i \in DOMAIN operations :
            operations[i].op = "remove" => operations[i].key # probe[p].key
  /\ \A i, j \in DOMAIN operations :
       operations[i].op = "remove" /\ operations[j].op = "read"
         /\ operations[i].key = operations[j].key => i < j

(* The manager's state is well formed, what it saved is earned, and nobody comes between a
   qualification and its key.  This is the invariant of the proofs. *)
EvidenceInv ==
  TypeOK /\ EvidenceEarned /\ OnePerKey /\ WhoAsksWaits /\ RevisionStands

(* What a deletion of expired evidence still has before it had expired when it was called,
   or its key has been qualified anew while the deletion awaited another removal. *)
Removes(k) == \E i \in DOMAIN operations : operations[i].op = "remove" /\ operations[i].key = k
DeletionsAreDue ==
  forgetting.at = "removing" /\ ~forgetting.all =>
    \A k \in Keys : (k \in forgetting.left \/ Removes(k)) /\ Valid(k, forgetting.since) =>
      k \in forgetting.renewed

(* What a qualification found is never thrown away by a conflict of revisions: no other
   qualification and no deletion touches its key meanwhile.  And a deletion of expired
   evidence takes an answer that has not expired in one case only, which the code does not
   exclude: the answer replaces an expired one that was listed, and is saved while the
   deletion awaits the removal of another key. *)
ResultsKept == lost \subseteq {"overtaken"} /\ DeletionsAreDue
=============================================================================
