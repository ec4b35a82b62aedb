----------------------------- MODULE AuditChain -----------------------------
(***************************************************************************)
(* The audit trail as it is stored: one row for each entry, carrying its   *)
(* index, the hash of its payload, the hash of the row before it and its   *)
(* own hash.  Calls append concurrently.  An append runs in a serializable *)
(* transaction, its own or its caller's, that reads the last row of the    *)
(* tenant and inserts the next one; a transaction that lost a conflict is  *)
(* run again as a whole, four times at most.                               *)
(*                                                                         *)
(* A hash is the tuple of what is hashed: two different contents have two  *)
(* different hashes.  Left out: the actor, the action and the timestamp of *)
(* an entry, which are hashed beside the payload, and the memory store,    *)
(* which runs transactions one after the other.                            *)
(*                                                                         *)
(* Definitions named Faulty... are slips somebody could make in the code.  *)
(* No specification uses them: each shows that a property would notice.    *)
(***************************************************************************)
EXTENDS Integers, FiniteSets

CONSTANTS
  Tenants,      \* the organizations
  Entries,      \* pieces of work that are to be recorded, each once
  Calls,        \* slots for calls in flight at the same time
  MaxAttempts,  \* runs of a transaction before its error is thrown
  MaxEdits      \* bound: rows edited behind the program's back

ASSUME BoundsAssumption ==
  /\ MaxAttempts \in Nat \ {0}
  /\ MaxEdits \in Nat

\* An edit is one: the payload it leaves is not the one it found.
ASSUME EditAssumption == \A e \in Entries : <<"not", e>> # e

VARIABLES
  rows,    \* the rows of AuditRecord
  done,    \* the pieces of work whose own writes are committed
  kind,    \* kind[e]: how entry e is appended, new while nobody asked for it
  call,    \* call[c]: the append in slot c
  edited   \* history: tenant and index of the rows that were edited

vars == <<rows, done, kind, call, edited>>

Genesis == "genesis"
HashPayload(payload) == <<"payload", payload>>
BlockHash(index, payloadHash, prevHash) == <<index, payloadHash, prevHash>>

Idle == [pc |-> "idle"]

Init ==
  /\ rows = {}
  /\ done = {}
  /\ kind = [e \in Entries |-> "new"]
  /\ call = [c \in Calls |-> Idle]
  /\ edited = {}

Of(t) == {r \in rows : r.tenant = t}

\* The row a query for the highest index returns, if there is one.
Last(t) == {r \in Of(t) : \A q \in Of(t) : q.index <= r.index}

-----------------------------------------------------------------------------
(* appendAudit *)

\* A service has committed its work and now appends the entry by itself, or it
\* appends the entry inside the transaction that does the work.
Ask(c, t, e, how) ==
  /\ call[c] = Idle /\ kind[e] = "new"
  /\ kind' = [kind EXCEPT ![e] = how]
  /\ done' = IF how = "alone" THEN done \cup {e} ELSE done
  /\ call' = [call EXCEPT ![c] = [pc |-> "begin", tenant |-> t, entry |-> e,
                                  attempt |-> 0]]
  /\ UNCHANGED <<rows, edited>>

Following(k, previous) ==
  [pc |-> "insert", tenant |-> k.tenant, entry |-> k.entry,
   attempt |-> k.attempt, index |-> previous.index + 1,
   prevHash |-> previous.hash]

\* The transaction reads the last row of the tenant.
ReadLast(c) ==
  /\ call[c].pc = "begin"
  /\ \/ /\ Of(call[c].tenant) = {}
        /\ call' = [call EXCEPT ![c] =
                      Following(@, [index |-> -1, hash |-> Genesis])]
     \/ \E previous \in Last(call[c].tenant) :
          call' = [call EXCEPT ![c] = Following(@, previous)]
  /\ UNCHANGED <<rows, done, kind, edited>>

Row(k) ==
  LET payloadHash == HashPayload(k.entry)
  IN [tenant |-> k.tenant, index |-> k.index, payload |-> k.entry,
      payloadHash |-> payloadHash, prevHash |-> k.prevHash,
      hash |-> BlockHash(k.index, payloadHash, k.prevHash)]

FaultyFree(t, index) == TRUE  \* no unique index, and a weaker isolation

\* The unique index on tenant and index.
Free(t, index) == \A r \in Of(t) : r.index # index

FaultyCommit(c) ==  \* the entry is written outside the caller's transaction
  /\ call[c].pc = "insert"
  /\ Free(call[c].tenant, call[c].index)
  /\ rows' = rows \cup {Row(call[c])}
  /\ UNCHANGED done
  /\ call' = [call EXCEPT ![c] = Idle]
  /\ UNCHANGED <<kind, edited>>

\* The insert and, with it, whatever else the transaction did.
Commit(c) ==
  /\ call[c].pc = "insert"
  /\ Free(call[c].tenant, call[c].index)
  /\ rows' = rows \cup {Row(call[c])}
  /\ done' = done \cup {call[c].entry}
  /\ call' = [call EXCEPT ![c] = Idle]
  /\ UNCHANGED <<kind, edited>>

FaultyConflict(c) ==  \* tries the insert again inside the aborted transaction
  /\ call[c].pc = "insert"
  /\ call' = [call EXCEPT ![c] =
                IF @.attempt + 1 >= MaxAttempts THEN Idle
                ELSE [@ EXCEPT !.attempt = @ + 1, !.index = @ + 1]]
  /\ UNCHANGED <<rows, done, kind, edited>>

FaultyForever(c) ==  \* does not count the attempts
  /\ call[c].pc = "insert"
  /\ call' = [call EXCEPT ![c] = [pc |-> "begin", tenant |-> @.tenant,
                                  entry |-> @.entry, attempt |-> @.attempt]]
  /\ UNCHANGED <<rows, done, kind, edited>>

\* A transaction whose index is taken loses; the store may also abort one that
\* it only suspects.  The whole transaction runs again, or its error is thrown.
Conflict(c) ==
  /\ call[c].pc = "insert"
  /\ call' = [call EXCEPT ![c] =
                IF @.attempt + 1 >= MaxAttempts THEN Idle
                ELSE [pc |-> "begin", tenant |-> @.tenant, entry |-> @.entry,
                      attempt |-> @.attempt + 1]]
  /\ UNCHANGED <<rows, done, kind, edited>>

\* The process ends: an open transaction leaves nothing behind.
Crash(c) ==
  /\ call[c] # Idle
  /\ call' = [call EXCEPT ![c] = Idle]
  /\ UNCHANGED <<rows, done, kind, edited>>

\* Somebody changes the payload of a stored row behind the program's back.
Edit(r) ==
  /\ edited' = edited \cup {<<r.tenant, r.index>>}
  /\ rows' = (rows \ {r}) \cup {[r EXCEPT !.payload = <<"not", r.payload>>]}
  /\ UNCHANGED <<done, kind, call>>

Proceed(c) == ReadLast(c) \/ Commit(c) \/ Conflict(c)

Next ==
  \/ \E c \in Calls :
       \/ \E t \in Tenants, e \in Entries, how \in {"alone", "joined"} :
            Ask(c, t, e, how)
       \/ Proceed(c)
       \/ Crash(c)
  \/ \E r \in rows :
       /\ Cardinality(edited) < MaxEdits
       /\ <<r.tenant, r.index>> \notin edited
       /\ Edit(r)

Spec == Init /\ [][Next]_vars

\* A call whose process lives goes on.
FairSpec == Spec /\ \A c \in Calls : WF_vars(Proceed(c))

-----------------------------------------------------------------------------
(* verifyChain: the rows of a tenant in the order of their indexes *)

Before(r) == {q \in Of(r.tenant) : q.index < r.index}

ExpectedPrev(r) ==
  IF Before(r) = {} THEN Genesis
  ELSE (CHOOSE q \in Before(r) : \A p \in Before(r) : p.index <= q.index).hash

FaultyIntact(r) ==  \* trusts the stored hash of the payload
  /\ r.prevHash = ExpectedPrev(r)
  /\ r.hash = BlockHash(r.index, r.payloadHash, r.prevHash)

Intact(r) ==
  /\ r.prevHash = ExpectedPrev(r)
  /\ r.payloadHash = HashPayload(r.payload)
  /\ r.hash = BlockHash(r.index, r.payloadHash, r.prevHash)

\* The row at which the verification stops, none if the chain is valid.
BrokenAt(t) ==
  {r.index : r \in {b \in Of(t) : ~Intact(b) /\ \A q \in Before(b) : Intact(q)}}

-----------------------------------------------------------------------------
(* Properties *)

CallState ==
  {Idle}
    \cup [pc: {"begin"}, tenant: Tenants, entry: Entries,
          attempt: 0..MaxAttempts - 1]

\* The rows and the calls have the types they are declared with.  A hash is a
\* tuple as deep as the chain is long, so it is left out.
TypeOK ==
  /\ \A r \in rows : r.tenant \in Tenants /\ r.index \in Nat
  /\ done \subseteq Entries
  /\ kind \in [Entries -> {"new", "alone", "joined"}]
  /\ \A c \in Calls :
       \/ call[c] \in CallState
       \/ /\ call[c].pc = "insert"
          /\ call[c].tenant \in Tenants /\ call[c].entry \in Entries
          /\ call[c].attempt \in 0..MaxAttempts - 1
          /\ call[c].index \in Nat
  /\ edited \subseteq Tenants \X Nat

\* Whatever appends overlap, every row of a tenant has an index of its own and
\* carries the hash of the row one below it.
Linked ==
  \A r \in rows :
    /\ \A q \in Of(r.tenant) : q.index = r.index => q = r
    /\ IF r.index = 0 THEN r.prevHash = Genesis
       ELSE \E q \in Of(r.tenant) :
              q.index = r.index - 1 /\ r.prevHash = q.hash

\* The chain verifies as long as nobody edited a row; if somebody did, the
\* verification names the first edited row, however many were appended since.
EditFound ==
  \A t \in Tenants :
    LET touched == {r.index : r \in {q \in Of(t) : <<t, q.index>> \in edited}}
    IN BrokenAt(t) = {i \in touched : \A j \in touched : i <= j}

\* An entry that joins its caller's transaction is written exactly when the work
\* is; an entry of its own is written once at most, and only after the work.
RecordedOnce ==
  \A e \in Entries :
    LET entries == {r \in rows : r.payloadHash = HashPayload(e)}
    IN /\ Cardinality(entries) <= 1
       /\ entries # {} => e \in done
       /\ kind[e] = "joined" /\ e \in done => entries # {}

\* An append is not run again for ever: it is committed or its error is thrown.
AppendEnds == \A c \in Calls : call[c] # Idle ~> call[c] = Idle

\* The trail only grows at its end: every step adds one entry to one log, which
\* is the set of what is stored at an index, or changes no log.
LogOf(t) ==
  [i \in 1..Cardinality(Of(t)) |->
     {r.payloadHash : r \in {q \in Of(t) : q.index = i - 1}}]

Log == INSTANCE AuditLog WITH
         log <- [t \in Tenants |-> LogOf(t)],
         Entries <- {{HashPayload(e)} : e \in Entries}
ImplementsLog == Log!Spec
=============================================================================
