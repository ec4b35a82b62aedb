------------------------- MODULE AuditChain_proofs -------------------------
(***************************************************************************)
(* The chain stays linked, an entry is in it once, an edited row is found, *)
(* and without edits the chain is the log of AuditLog, for every set of    *)
(* tenants, entries and calls and any number of attempts and edited rows.  *)
(*                                                                         *)
(* What a call read of the last row is still stored when it inserts, since *)
(* rows are never removed (Prepared), and the unique index refuses it when *)
(* another row took the place in the meantime.  With finitely many rows    *)
(* of a tenant, numbered from 0 without a gap (Numbered), an insert is an  *)
(* append to the sequence of payloads.                                     *)
(***************************************************************************)
EXTENDS AuditChain, FiniteSetTheorems, SequenceTheorems, TLAPS

\* The columns of a row that its successor and the unique index depend on.
SameLink(q, r) ==
  q.tenant = r.tenant /\ q.index = r.index /\ q.prevHash = r.prevHash /\ q.hash = r.hash

WellFormed ==
  /\ \A r \in rows :
       r = [tenant |-> r.tenant, index |-> r.index, payload |-> r.payload,
            payloadHash |-> r.payloadHash, prevHash |-> r.prevHash, hash |-> r.hash]
  /\ call = [c \in Calls |-> call[c]]

\* A row, or a call about to insert one, follows the row before it.
Follows(k) ==
  IF k.index = 0 THEN k.prevHash = Genesis
  ELSE \E q \in Of(k.tenant) : q.index = k.index - 1 /\ k.prevHash = q.hash

Prepared == \A c \in Calls : call[c].pc = "insert" => Follows(call[c])

ChainInv == TypeOK /\ WellFormed /\ Prepared /\ Linked

-----------------------------------------------------------------------------

\* A call in flight is about its tenant, its entry and one of its attempts.
LEMMA BusyCall ==
  ASSUME TypeOK, NEW c \in Calls, call[c].pc \in {"begin", "insert"}
  PROVE  /\ call[c].tenant \in Tenants /\ call[c].entry \in Entries
         /\ call[c].attempt \in 0..MaxAttempts - 1
         /\ call[c].pc = "insert" => call[c].index \in Nat
BY DEF TypeOK, CallState, Idle

\* A step that leaves the rows alone, and whose call c goes on as the store says.
LEMMA CallStep ==
  ASSUME ChainInv, NEW c \in Calls, NEW k,
         call' = [call EXCEPT ![c] = k], UNCHANGED <<rows, edited>>,
         done' \subseteq Entries, kind' \in [Entries -> {"new", "alone", "joined"}],
         \/ k \in CallState
         \/ /\ k.pc = "insert" /\ k.tenant \in Tenants /\ k.entry \in Entries
            /\ k.attempt \in 0..MaxAttempts - 1 /\ k.index \in Nat
            /\ Follows(k)
  PROVE  ChainInv'
<1>1. call'[c] = k /\ \A d \in Calls \ {c} : call'[d] = call[d]
  BY DEF ChainInv, WellFormed
<1>2. TypeOK'
  BY <1>1 DEF ChainInv, TypeOK
<1>3. WellFormed'
  BY DEF ChainInv, WellFormed
<1>4. Prepared'
  BY <1>1 DEF ChainInv, Prepared, Follows, Of, CallState, Idle
<1>5. Linked'
  BY DEF ChainInv, Linked, Of
<1>6. QED
  BY <1>2, <1>3, <1>4, <1>5 DEF ChainInv

LEMMA AskStep ==
  ASSUME ChainInv, NEW c \in Calls, NEW t \in Tenants, NEW e \in Entries,
         NEW how \in {"alone", "joined"}, Ask(c, t, e, how)
  PROVE  ChainInv'
<1> DEFINE k == [pc |-> "begin", tenant |-> t, entry |-> e, attempt |-> 0]
<1>1. k \in CallState
  BY BoundsAssumption DEF CallState
<1>2. /\ done' \subseteq Entries /\ kind' \in [Entries -> {"new", "alone", "joined"}]
      /\ call' = [call EXCEPT ![c] = k] /\ UNCHANGED <<rows, edited>>
  BY DEF Ask, ChainInv, TypeOK
<1>3. QED
  BY <1>1, <1>2, CallStep

\* The insert is prepared from the row that is the last one now.
LEMMA ReadStep ==
  ASSUME ChainInv, NEW c \in Calls, ReadLast(c)
  PROVE  ChainInv'
<1>1. /\ call[c].tenant \in Tenants /\ call[c].entry \in Entries
      /\ call[c].attempt \in 0..MaxAttempts - 1
      /\ UNCHANGED <<rows, done, kind, edited>>
  BY BusyCall DEF ReadLast, ChainInv
<1>2. /\ done' \subseteq Entries /\ kind' \in [Entries -> {"new", "alone", "joined"}]
  BY <1>1 DEF ChainInv, TypeOK
<1>3. CASE call' = [call EXCEPT ![c] =
                      Following(call[c], [index |-> -1, hash |-> Genesis])]
  <2> DEFINE k == Following(call[c], [index |-> -1, hash |-> Genesis])
  <2>1. /\ k.pc = "insert" /\ k.index = 0 /\ k.prevHash = Genesis
        /\ k.tenant = call[c].tenant /\ k.entry = call[c].entry
        /\ k.attempt = call[c].attempt
    BY DEF Following
  <2>2. Follows(k) /\ k.index \in Nat
    BY <2>1 DEF Follows
  <2> HIDE DEF k
  <2>3. call' = [call EXCEPT ![c] = k]
    BY <1>3 DEF k
  <2>4. QED
    BY <1>1, <1>2, <2>1, <2>2, <2>3, CallStep
<1>4. ASSUME NEW q \in Last(call[c].tenant),
             call' = [call EXCEPT ![c] = Following(call[c], q)]
      PROVE  ChainInv'
  <2> DEFINE k == Following(call[c], q)
  <2>1. q \in Of(call[c].tenant) /\ q.index \in Nat
    BY DEF Last, Of, ChainInv, TypeOK
  <2>2. /\ k.pc = "insert" /\ k.index = q.index + 1 /\ k.prevHash = q.hash
        /\ k.tenant = call[c].tenant /\ k.entry = call[c].entry
        /\ k.attempt = call[c].attempt
    BY DEF Following
  <2>3. Follows(k) /\ k.index \in Nat
    BY <2>1, <2>2 DEF Follows
  <2> HIDE DEF k
  <2>4. call' = [call EXCEPT ![c] = k]
    BY <1>4 DEF k
  <2>5. QED
    BY <1>1, <1>2, <2>2, <2>3, <2>4, CallStep
<1>5. QED
  BY <1>3, <1>4 DEF ReadLast

\* The loser of a conflict begins again, or its error is thrown.
LEMMA ConflictStep ==
  ASSUME ChainInv, NEW c \in Calls, Conflict(c)
  PROVE  ChainInv'
<1>1. /\ call[c].tenant \in Tenants /\ call[c].entry \in Entries
      /\ call[c].attempt \in 0..MaxAttempts - 1
  BY BusyCall DEF Conflict, ChainInv
<1> DEFINE k == IF call[c].attempt + 1 >= MaxAttempts THEN Idle
                ELSE [pc |-> "begin", tenant |-> call[c].tenant,
                      entry |-> call[c].entry, attempt |-> call[c].attempt + 1]
<1>2. k \in CallState
  BY <1>1, BoundsAssumption DEF CallState
<1> HIDE DEF k
<1>3. call' = [call EXCEPT ![c] = k] /\ UNCHANGED <<rows, done, kind, edited>>
  BY DEF Conflict, k
<1>4. QED
  BY <1>2, <1>3, CallStep DEF ChainInv, TypeOK

LEMMA CrashStep ==
  ASSUME ChainInv, NEW c \in Calls, Crash(c)
  PROVE  ChainInv'
BY CallStep DEF Crash, CallState, ChainInv, TypeOK

\* The new row takes an index that is free and follows the row it was read from.
LEMMA CommitStep ==
  ASSUME ChainInv, NEW c \in Calls, Commit(c)
  PROVE  ChainInv'
<1> DEFINE k == call[c]
           new == Row(k)
<1>1. /\ k.pc = "insert" /\ k.tenant \in Tenants /\ k.entry \in Entries
      /\ k.index \in Nat /\ Follows(k)
  BY BusyCall DEF Commit, ChainInv, Prepared
<1>2. /\ new.tenant = k.tenant /\ new.index = k.index /\ new.prevHash = k.prevHash
      /\ new = [tenant |-> new.tenant, index |-> new.index, payload |-> new.payload,
                payloadHash |-> new.payloadHash, prevHash |-> new.prevHash,
                hash |-> new.hash]
  BY DEF Row
<1> HIDE DEF new
<1>3. /\ rows' = rows \cup {new} /\ Free(k.tenant, k.index)
      /\ call' = [call EXCEPT ![c] = Idle]
      /\ done' = done \cup {k.entry} /\ UNCHANGED <<kind, edited>>
  BY DEF Commit, new
<1>4. call'[c] = Idle /\ \A d \in Calls \ {c} : call'[d] = call[d]
  BY <1>3 DEF ChainInv, WellFormed
<1>5. TypeOK'
  BY <1>1, <1>2, <1>3, <1>4 DEF ChainInv, TypeOK, CallState
<1>6. WellFormed'
  BY <1>2, <1>3 DEF ChainInv, WellFormed
<1>7. \A r : Follows(r) => Follows(r)'
  BY <1>3 DEF Follows, Of
<1>8. Prepared'
  BY <1>3, <1>4 DEF ChainInv, Prepared, Follows, Of, Idle
<1>9. Linked'
  <2> SUFFICES ASSUME NEW r \in rows'
               PROVE  /\ \A q \in Of(r.tenant)' : q.index = r.index => q = r
                      /\ Follows(r)'
    BY DEF Linked, Follows, Of
  <2>1. \A q \in rows' : q.tenant = r.tenant /\ q.index = r.index => q = r
    BY <1>2, <1>3 DEF ChainInv, Linked, Of, Free
  <2>2. ASSUME r = new PROVE Follows(r)
    BY <1>1, <1>2, <2>2 DEF Follows
  <2>3. ASSUME r \in rows PROVE Follows(r)
    BY <2>3 DEF ChainInv, Linked, Follows
  <2>4. Follows(r)
    BY <1>3, <2>2, <2>3
  <2>5. Follows(r)'
    BY <1>7, <2>4
  <2>6. QED
    BY <2>1, <2>5 DEF Of
<1>10. QED
  BY <1>5, <1>6, <1>8, <1>9 DEF ChainInv

\* An edit of the payload leaves the links of the row as they were.
LEMMA EditStep ==
  ASSUME ChainInv, NEW r \in rows, Edit(r)
  PROVE  ChainInv'
<1> DEFINE new == [r EXCEPT !.payload = <<"not", r.payload>>]
<1>1. /\ SameLink(new, r)
      /\ new = [tenant |-> new.tenant, index |-> new.index, payload |-> new.payload,
                payloadHash |-> new.payloadHash, prevHash |-> new.prevHash,
                hash |-> new.hash]
  <2>1. r = [tenant |-> r.tenant, index |-> r.index, payload |-> r.payload,
             payloadHash |-> r.payloadHash, prevHash |-> r.prevHash, hash |-> r.hash]
    BY DEF ChainInv, WellFormed
  <2>2. new = [tenant |-> r.tenant, index |-> r.index, payload |-> <<"not", r.payload>>,
               payloadHash |-> r.payloadHash, prevHash |-> r.prevHash, hash |-> r.hash]
    BY <2>1
  <2> HIDE DEF new
  <2>3. QED
    BY <2>2 DEF SameLink
<1> HIDE DEF new
<1>2. /\ rows' = (rows \ {r}) \cup {new} /\ UNCHANGED <<done, kind, call>>
      /\ edited' = edited \cup {<<r.tenant, r.index>>}
  BY DEF Edit, new
<1>3. r.tenant \in Tenants /\ r.index \in Nat
  BY DEF ChainInv, TypeOK
<1>4. TypeOK'
  BY <1>1, <1>2, <1>3 DEF ChainInv, TypeOK, SameLink
<1>5. WellFormed'
  BY <1>1, <1>2 DEF ChainInv, WellFormed
<1>6. /\ \A q \in rows : \E p \in rows' : SameLink(p, q)
      /\ \A p \in rows' : \E q \in rows : SameLink(p, q)
  BY <1>1, <1>2 DEF SameLink
<1>7. Prepared'
  BY <1>2, <1>6 DEF ChainInv, Prepared, Follows, Of, SameLink
<1>8. Linked'
  <2> SUFFICES ASSUME NEW p \in rows'
               PROVE  /\ \A q \in Of(p.tenant)' : q.index = p.index => q = p
                      /\ Follows(p)'
    BY DEF Linked, Follows, Of
  <2>1. \A q \in rows' : q.tenant = p.tenant /\ q.index = p.index => q = p
    BY <1>1, <1>2 DEF ChainInv, Linked, Of, SameLink
  <2>2. PICK q \in rows : SameLink(p, q)
    BY <1>6
  <2>3. Follows(q)
    BY DEF ChainInv, Linked, Follows
  <2>4. Follows(p)'
    BY <1>6, <2>2, <2>3 DEF Follows, Of, SameLink
  <2>5. QED
    BY <2>1, <2>4 DEF Of
<1>9. QED
  BY <1>4, <1>5, <1>7, <1>8 DEF ChainInv

LEMMA ChainStep ==
  ASSUME ChainInv, [Next]_vars
  PROVE  ChainInv'
<1>1. CASE UNCHANGED vars
  BY <1>1 DEF vars, ChainInv, TypeOK, WellFormed, Prepared, Linked, Follows, Of
<1>2. CASE Next
  BY <1>2, AskStep, ReadStep, CommitStep, ConflictStep, CrashStep, EditStep
     DEF Next, Proceed
<1>3. QED
  BY <1>1, <1>2

LEMMA ChainInit == Init => ChainInv
BY DEF Init, ChainInv, TypeOK, WellFormed, Prepared, Linked, CallState, Idle

\* Rows and calls stay well formed, whatever appends overlap.
THEOREM ChainTypes == Spec => []TypeOK
<1>1. ChainInv => TypeOK
  BY DEF ChainInv
<1>2. QED
  BY <1>1, ChainInit, ChainStep, PTL DEF Spec

\* appendAudit keeps each tenant's rows one chain without gaps or forks, whatever
\* appends overlap, conflict or end midway, and also when payloads are edited.
THEOREM ChainLinked == Spec => []Linked
<1>1. ChainInv => Linked
  BY DEF ChainInv
<1>2. QED
  BY <1>1, ChainInit, ChainStep, PTL DEF Spec

-----------------------------------------------------------------------------
(* Every entry once *)

InFlight(c) == call[c].pc \in {"begin", "insert"}

Holds(r, e) == r.payloadHash = HashPayload(e)

\* A row is that of a piece of work that is done.
Earned(r) == \E e \in Entries : Holds(r, e) /\ e \in done /\ kind[e] # "new"

\* A call in flight alone appends its entry, which no row holds yet.
Owns(c) ==
  /\ kind[call[c].entry] # "new"
  /\ kind[call[c].entry] = "alone" => call[c].entry \in done
  /\ \A r \in rows : ~Holds(r, call[c].entry)
  /\ \A d \in Calls \ {c} : InFlight(d) => call[d].entry # call[c].entry

OnceInv ==
  /\ \A r \in rows : Earned(r)
  /\ \A q, r \in rows : q.payloadHash = r.payloadHash => q = r
  /\ \A c \in Calls : InFlight(c) => Owns(c)
  /\ \A e \in done : /\ kind[e] # "new"
                     /\ kind[e] = "joined" => \E r \in rows : Holds(r, e)

LEMMA HashInjective ==
  ASSUME NEW x, NEW y, HashPayload(x) = HashPayload(y)
  PROVE  x = y
BY DEF HashPayload

LEMMA OnceAsk ==
  ASSUME ChainInv, OnceInv, NEW c \in Calls, NEW t \in Tenants, NEW e \in Entries,
         NEW how \in {"alone", "joined"}, Ask(c, t, e, how)
  PROVE  OnceInv'
<1>1. /\ kind[e] = "new" /\ kind'[e] = how
      /\ \A f \in Entries \ {e} : kind'[f] = kind[f]
      /\ UNCHANGED rows
  BY DEF Ask, ChainInv, TypeOK
<1>2. /\ \A d \in Calls \ {c} : call'[d] = call[d]
      /\ call'[c].entry = e
      /\ ~InFlight(c)
  BY DEF Ask, ChainInv, WellFormed, InFlight, Idle
<1>3. done' = IF how = "alone" THEN done \cup {e} ELSE done
  BY DEF Ask
<1>4. e \notin done /\ \A r \in rows : ~Holds(r, e)
  BY <1>1, HashInjective DEF OnceInv, Earned, Holds
<1>5. \A r \in rows : Earned(r)'
  BY <1>1, <1>3 DEF OnceInv, Earned, Holds
<1>6. Owns(c)'
  BY <1>1, <1>2, <1>3, <1>4 DEF OnceInv, Owns, InFlight, Holds
<1>7. ASSUME NEW d \in Calls, d # c, InFlight(d)
      PROVE  Owns(d)'
  <2>1. call[d].entry \in Entries /\ call[d].entry # e
    BY <1>1, <1>7, BusyCall DEF OnceInv, Owns, InFlight, ChainInv
  <2>2. QED
    BY <1>1, <1>2, <1>3, <1>7, <2>1 DEF OnceInv, Owns, InFlight, Holds
<1>8. \A f \in done' : /\ kind'[f] # "new"
                       /\ kind'[f] = "joined" => \E r \in rows : Holds(r, f)
  BY <1>1, <1>3, <1>4 DEF OnceInv, ChainInv, TypeOK
<1>9. \A d \in Calls : InFlight(d)' => Owns(d)'
  BY <1>2, <1>6, <1>7 DEF InFlight
<1>10. QED
  BY <1>1, <1>5, <1>8, <1>9 DEF OnceInv, Holds

\* A step that writes nothing, and whose call keeps its entry if it goes on.
LEMMA OnceQuiet ==
  ASSUME ChainInv, OnceInv, UNCHANGED <<rows, done, kind>>,
         \A c \in Calls : InFlight(c)' => InFlight(c) /\ call'[c].entry = call[c].entry
  PROVE  OnceInv'
<1>1. \A c \in Calls : InFlight(c)' => Owns(c)'
  BY DEF OnceInv, Owns, Holds
<1>2. \A r \in rows : Earned(r)'
  BY DEF OnceInv, Earned, Holds
<1>3. QED
  BY <1>1, <1>2 DEF OnceInv, Holds

LEMMA OnceGoesOn ==
  ASSUME ChainInv, OnceInv, NEW c \in Calls,
         ReadLast(c) \/ Conflict(c) \/ Crash(c)
  PROVE  OnceInv'
<1>1. UNCHANGED <<rows, done, kind>>
  BY DEF ReadLast, Conflict, Crash
<1>2. \A d \in Calls \ {c} : call'[d] = call[d]
  BY DEF ReadLast, Conflict, Crash, ChainInv, WellFormed
<1>3. InFlight(c)' => InFlight(c) /\ call'[c].entry = call[c].entry
  <2>1. CASE ReadLast(c)
    BY <2>1 DEF ReadLast, Following, InFlight, ChainInv, WellFormed
  <2>2. CASE Conflict(c)
    BY <2>2 DEF Conflict, InFlight, Idle, ChainInv, WellFormed
  <2>3. CASE Crash(c)
    BY <2>3 DEF Crash, InFlight, Idle, ChainInv, WellFormed
  <2>4. QED
    BY <2>1, <2>2, <2>3
<1>4. QED
  BY <1>1, <1>2, <1>3, OnceQuiet DEF InFlight

LEMMA OnceCommit ==
  ASSUME ChainInv, OnceInv, NEW c \in Calls, Commit(c)
  PROVE  OnceInv'
<1> DEFINE e == call[c].entry
           new == Row(call[c])
<1>1. e \in Entries /\ InFlight(c) /\ Owns(c)
  BY BusyCall DEF Commit, ChainInv, OnceInv, InFlight
<1>2. /\ rows' = rows \cup {new} /\ done' = done \cup {e} /\ kind' = kind
      /\ call'[c] = Idle /\ \A d \in Calls \ {c} : call'[d] = call[d]
  BY DEF Commit, ChainInv, WellFormed
<1>3. Holds(new, e)
  BY DEF Holds, Row
<1> HIDE DEF e, new
<1>4. Owns(c) => /\ kind[e] # "new"
                 /\ \A r \in rows : ~Holds(r, e)
                 /\ \A d \in Calls \ {c} : InFlight(d) => call[d].entry # e
  BY DEF Owns, e
<1>5. \A r \in rows' : Earned(r)'
  BY <1>1, <1>2, <1>3, <1>4 DEF OnceInv, Earned, Holds
<1>6. \A q, r \in rows' : q.payloadHash = r.payloadHash => q = r
  BY <1>1, <1>2, <1>3, <1>4 DEF OnceInv, Holds
<1>7. ASSUME NEW d \in Calls, InFlight(d)'
      PROVE  Owns(d)'
  <2>1. d # c /\ InFlight(d) /\ call'[d] = call[d]
    BY <1>2, <1>7 DEF InFlight, Idle
  <2>2. Owns(d) /\ call[d].entry # e
    BY <1>1, <1>4, <2>1 DEF OnceInv
  <2>3. ~Holds(new, call[d].entry)
    BY <1>3, <2>2, HashInjective DEF Holds
  <2>4. \A b \in Calls : InFlight(b)' => InFlight(b) /\ call'[b] = call[b]
    BY <1>2 DEF InFlight, Idle
  <2>5. QED
    BY <1>2, <2>1, <2>2, <2>3, <2>4 DEF Owns, Holds
<1>8. \A f \in done' : /\ kind'[f] # "new"
                       /\ kind'[f] = "joined" => \E r \in rows' : Holds(r, f)
  BY <1>1, <1>2, <1>3, <1>4 DEF OnceInv
<1>9. QED
  BY <1>5, <1>6, <1>7, <1>8 DEF OnceInv, Holds

\* What an edit leaves of a row is a row in its place, with the hashes it had.
LEMMA EditedRow ==
  ASSUME ChainInv, NEW r \in rows, Edit(r)
  PROVE  \E new :
           /\ rows' = (rows \ {r}) \cup {new}
           /\ SameLink(new, r) /\ new.payloadHash = r.payloadHash
           /\ new.payload = <<"not", r.payload>>
<1> DEFINE new == [r EXCEPT !.payload = <<"not", r.payload>>]
<1>1. r = [tenant |-> r.tenant, index |-> r.index, payload |-> r.payload,
           payloadHash |-> r.payloadHash, prevHash |-> r.prevHash, hash |-> r.hash]
  BY DEF ChainInv, WellFormed
<1>2. new = [tenant |-> r.tenant, index |-> r.index, payload |-> <<"not", r.payload>>,
             payloadHash |-> r.payloadHash, prevHash |-> r.prevHash, hash |-> r.hash]
  BY <1>1
<1>3. rows' = (rows \ {r}) \cup {new}
  BY DEF Edit
<1> HIDE DEF new
<1>4. SameLink(new, r) /\ new.payloadHash = r.payloadHash
      /\ new.payload = <<"not", r.payload>>
  BY <1>2 DEF SameLink
<1>5. QED
  BY <1>3, <1>4

LEMMA OnceEdit ==
  ASSUME ChainInv, OnceInv, NEW r \in rows, Edit(r)
  PROVE  OnceInv'
<1>1. PICK new : rows' = (rows \ {r}) \cup {new} /\ new.payloadHash = r.payloadHash
  BY EditedRow
<1>2. UNCHANGED <<done, kind, call>>
  BY DEF Edit
<1>3. /\ \A q \in rows' : \E p \in rows : q.payloadHash = p.payloadHash
      /\ \A p \in rows : \E q \in rows' : q.payloadHash = p.payloadHash
  BY <1>1
<1>4. \A q \in rows' : Earned(q)'
  BY <1>2, <1>3 DEF OnceInv, Earned, Holds
<1>5. \A q, p \in rows' : q.payloadHash = p.payloadHash => q = p
  BY <1>1 DEF OnceInv
<1>6. \A c \in Calls : InFlight(c)' => Owns(c)'
  BY <1>2, <1>3 DEF OnceInv, Owns, InFlight, Holds
<1>7. \A e \in done' : /\ kind'[e] # "new"
                       /\ kind'[e] = "joined" => \E q \in rows' : Holds(q, e)
  BY <1>2, <1>3 DEF OnceInv, Holds
<1>8. QED
  BY <1>4, <1>5, <1>6, <1>7 DEF OnceInv, Holds

LEMMA OnceStep ==
  ASSUME ChainInv, OnceInv, [Next]_vars
  PROVE  OnceInv'
<1>1. CASE UNCHANGED vars
  BY <1>1, OnceQuiet DEF vars, InFlight
<1>2. CASE Next
  BY <1>2, OnceAsk, OnceGoesOn, OnceCommit, OnceEdit DEF Next, Proceed
<1>3. QED
  BY <1>1, <1>2

LEMMA OnceHolds == Spec => [](ChainInv /\ OnceInv)
<1>1. Init => OnceInv
  BY DEF Init, OnceInv, InFlight, Idle
<1>2. QED
  BY <1>1, ChainInit, ChainStep, OnceStep, PTL DEF Spec

\* appendAudit writes an entry once at most, though its transaction may run several
\* times; an entry that joins a transaction is there exactly when the work is.
THEOREM AuditRecordedOnce == Spec => []RecordedOnce
<1>1. ASSUME ChainInv, OnceInv, NEW e \in Entries
      PROVE  LET entries == {r \in rows : r.payloadHash = HashPayload(e)}
             IN /\ Cardinality(entries) <= 1
                /\ entries # {} => e \in done
                /\ kind[e] = "joined" /\ e \in done => entries # {}
  <2> DEFINE entries == {r \in rows : Holds(r, e)}
  <2>1. entries = {} \/ \E r : entries = {r}
    BY <1>1 DEF OnceInv, Holds
  <2>2. Cardinality(entries) <= 1
    <3> HIDE DEF entries
    <3>1. Cardinality(entries) \in {0, 1}
      BY <2>1, FS_EmptySet, FS_Singleton
    <3>2. QED
      BY <3>1
  <2>3. entries # {} => e \in done
    BY <1>1, HashInjective DEF OnceInv, Earned, Holds
  <2>4. kind[e] = "joined" /\ e \in done => entries # {}
    BY <1>1 DEF OnceInv
  <2>5. QED
    BY <2>2, <2>3, <2>4 DEF Holds
<1>2. ChainInv /\ OnceInv => RecordedOnce
  BY <1>1 DEF RecordedOnce
<1>3. QED
  BY <1>2, OnceHolds, PTL

-----------------------------------------------------------------------------
(* What verifyChain finds *)

Place(r) == <<r.tenant, r.index>>

\* A row has the hashes of what was recorded in it, and says so unless edited.
Truthful(r) ==
  /\ r.hash = BlockHash(r.index, r.payloadHash, r.prevHash)
  /\ \E e \in Entries :
       /\ Holds(r, e)
       /\ r.payload = IF Place(r) \in edited THEN <<"not", e>> ELSE e

VerifyInv ==
  /\ \A r \in rows : Truthful(r)
  /\ \A x \in edited : \E r \in rows : x = Place(r)

LEMMA VerifyCommit ==
  ASSUME ChainInv, VerifyInv, NEW c \in Calls, Commit(c)
  PROVE  VerifyInv'
<1> DEFINE k == call[c]
           new == Row(k)
<1>1. k.entry \in Entries
  BY BusyCall DEF Commit, ChainInv
<1>2. /\ Place(new) = <<k.tenant, k.index>>
      /\ new.tenant = k.tenant /\ new.index = k.index
      /\ Holds(new, k.entry) /\ new.payload = k.entry
      /\ new.hash = BlockHash(new.index, new.payloadHash, new.prevHash)
  BY DEF Place, Row, Holds
<1>3. /\ rows' = rows \cup {new} /\ edited' = edited
      /\ Free(k.tenant, k.index)
  BY DEF Commit
<1> HIDE DEF k, new
<1>4. Place(new) \notin edited
  BY <1>2, <1>3 DEF VerifyInv, Place, Free, Of
<1>5. Truthful(new)
  BY <1>1, <1>2, <1>4 DEF Truthful
<1>6. \A r : Truthful(r) => Truthful(r)'
  BY <1>3 DEF Truthful, Holds, Place
<1>7. QED
  BY <1>3, <1>5, <1>6 DEF VerifyInv, Place

LEMMA VerifyEdit ==
  ASSUME ChainInv, VerifyInv, NEW r \in rows, Place(r) \notin edited, Edit(r)
  PROVE  VerifyInv'
<1>1. PICK new :
        /\ rows' = (rows \ {r}) \cup {new}
        /\ SameLink(new, r) /\ new.payloadHash = r.payloadHash
        /\ new.payload = <<"not", r.payload>>
  BY EditedRow
<1>2. edited' = edited \cup {Place(r)} /\ Place(new) = Place(r)
  BY <1>1 DEF Edit, Place, SameLink
<1>3. Truthful(r)
  BY DEF VerifyInv
<1>4. PICK e \in Entries : Holds(r, e) /\ r.payload = e
  BY <1>3 DEF Truthful
<1>5. Truthful(new)'
  <2>1. Holds(new, e) /\ new.payload = <<"not", e>>
    BY <1>1, <1>4 DEF Holds
  <2>2. new.hash = BlockHash(new.index, new.payloadHash, new.prevHash)
    BY <1>1, <1>3 DEF Truthful, SameLink
  <2>3. Place(new) \in edited'
    BY <1>2
  <2>4. QED
    BY <2>1, <2>2, <2>3 DEF Truthful, Holds, Place
<1>6. ASSUME NEW q \in rows, q # r
      PROVE  Truthful(q)'
  <2>1. Place(q) # Place(r)
    BY <1>6 DEF ChainInv, Linked, Of, Place
  <2>2. Place(q) \in edited' <=> Place(q) \in edited
    BY <1>2, <2>1
  <2>3. Truthful(q)
    BY DEF VerifyInv
  <2>4. QED
    BY <2>2, <2>3 DEF Truthful, Holds, Place
<1>7. \A q \in rows' : Truthful(q)'
  BY <1>1, <1>5, <1>6
<1>8. \A x \in edited' : \E q \in rows' : x = Place(q)
  BY <1>1, <1>2 DEF VerifyInv
<1>9. QED
  BY <1>7, <1>8 DEF VerifyInv, Place

LEMMA VerifyStep ==
  ASSUME ChainInv, VerifyInv, [Next]_vars
  PROVE  VerifyInv'
<1>1. CASE UNCHANGED <<rows, edited>>
  BY <1>1 DEF VerifyInv, Truthful, Holds, Place
<1>2. ASSUME NEW c \in Calls, Commit(c)
      PROVE  VerifyInv'
  BY <1>2, VerifyCommit
<1>3. ASSUME NEW r \in rows, <<r.tenant, r.index>> \notin edited, Edit(r)
      PROVE  VerifyInv'
  BY <1>3, VerifyEdit DEF Place
<1>4. QED
  BY <1>1, <1>2, <1>3
     DEF Next, Proceed, Ask, ReadLast, Conflict, Crash, vars

\* The row before is the one whose hash is expected.
LEMMA PrevExpected ==
  ASSUME ChainInv, NEW r \in rows
  PROVE  r.prevHash = ExpectedPrev(r)
<1>1. \A q \in Of(r.tenant) : q.index \in Nat
  BY DEF ChainInv, TypeOK, Of
<1>2. r \in Of(r.tenant) /\ r.index \in Nat
  BY DEF ChainInv, TypeOK, Of
<1>3. CASE r.index = 0
  <2>1. Before(r) = {}
    BY <1>1, <1>3 DEF Before
  <2>2. QED
    BY <1>3, <2>1 DEF ExpectedPrev, ChainInv, Linked
<1>4. CASE r.index # 0
  <2>1. PICK q \in Of(r.tenant) : q.index = r.index - 1 /\ r.prevHash = q.hash
    BY <1>4 DEF ChainInv, Linked
  <2>2. q \in Before(r) /\ \A p \in Before(r) : p.index <= q.index
    BY <1>1, <1>2, <2>1 DEF Before
  <2>3. ASSUME NEW x \in Before(r), \A p \in Before(r) : p.index <= x.index
        PROVE  x = q
    <3>1. x \in Of(r.tenant) /\ x.index = q.index
      BY <1>1, <2>1, <2>2, <2>3 DEF Before
    <3>2. x \in rows /\ q \in Of(x.tenant)
      BY <2>1, <3>1 DEF Of
    <3>3. QED
      BY <3>1, <3>2 DEF ChainInv, Linked
  <2>4. q = CHOOSE x \in Before(r) : \A p \in Before(r) : p.index <= x.index
    BY <2>2, <2>3
  <2>5. QED
    BY <2>1, <2>2, <2>4 DEF ExpectedPrev
<1>5. QED
  BY <1>3, <1>4

\* A row passes the verification exactly when nobody edited it.
LEMMA IntactIffUnedited ==
  ASSUME ChainInv, VerifyInv, NEW r \in rows
  PROVE  Intact(r) <=> Place(r) \notin edited
<1>1. r.prevHash = ExpectedPrev(r)
  BY PrevExpected
<1>2. Truthful(r)
  BY DEF VerifyInv
<1>3. PICK e \in Entries :
        /\ r.payloadHash = HashPayload(e)
        /\ r.payload = IF Place(r) \in edited THEN <<"not", e>> ELSE e
  BY <1>2 DEF Truthful, Holds
<1>4. r.payloadHash = HashPayload(r.payload) <=> Place(r) \notin edited
  <2>1. <<"not", e>> # e
    BY EditAssumption
  <2>2. HashPayload(e) # HashPayload(<<"not", e>>)
    BY <2>1, HashInjective
  <2>3. QED
    BY <1>3, <2>2
<1>5. QED
  BY <1>1, <1>2, <1>4 DEF Intact, Truthful

\* verifyChain accepts the chain as long as nobody edited a row, and otherwise stops
\* at the first edited one, however the appends overlapped and went on since.
THEOREM AuditEditFound == Spec => []EditFound
<1>1. ASSUME ChainInv, VerifyInv, NEW t \in Tenants
      PROVE  LET touched == {r.index : r \in {q \in Of(t) : <<t, q.index>> \in edited}}
             IN BrokenAt(t) = {i \in touched : \A j \in touched : i <= j}
  <2> DEFINE Hit(r) == <<t, r.index>> \in edited
             touched == {r.index : r \in {q \in Of(t) : Hit(q)}}
             first == {b \in Of(t) : Hit(b) /\ \A q \in Of(t) : q.index < b.index => ~Hit(q)}
  <2>1. \A r \in Of(t) : r.index \in Nat /\ (Intact(r) <=> ~Hit(r))
    BY <1>1, IntactIffUnedited DEF Of, Place, ChainInv, TypeOK
  <2>2. \A b \in Of(t) : Before(b) = {q \in Of(t) : q.index < b.index}
    BY DEF Before, Of
  <2> HIDE DEF Hit
  <2>3. \A b \in Of(t) : (~Intact(b) /\ \A q \in Before(b) : Intact(q)) <=> b \in first
    BY <2>1, <2>2
  <2>4. BrokenAt(t) = {r.index : r \in first}
    BY <2>3 DEF BrokenAt
  <2>5. {r.index : r \in first} = {i \in touched : \A j \in touched : i <= j}
    <3>1. ASSUME NEW b \in first
          PROVE  b.index \in touched /\ \A j \in touched : b.index <= j
      BY <2>1
    <3>2. ASSUME NEW b \in Of(t), Hit(b), \A j \in touched : b.index <= j
          PROVE  b \in first
      BY <2>1, <3>2
    <3>3. QED
      BY <3>1, <3>2
  <2>6. QED
    BY <2>4, <2>5 DEF Hit
<1>2. Init => VerifyInv
  BY DEF Init, VerifyInv
<1>3. ChainInv /\ VerifyInv => EditFound
  BY <1>1 DEF EditFound
<1>4. QED
  BY <1>2, <1>3, ChainInit, ChainStep, VerifyStep, PTL DEF Spec

-----------------------------------------------------------------------------
(* The rows implement the logs *)

Indexes(t) == {r.index : r \in Of(t)}
Height(t) == Cardinality(Of(t))

\* A tenant has finitely many rows, numbered from 0 without a gap.
Numbered ==
  \A t \in Tenants : IsFiniteSet(Of(t)) /\ Indexes(t) = 0..Height(t) - 1

\* What the log of a tenant says at position i.
At(t, i) == {r.payloadHash : r \in {q \in Of(t) : q.index = i - 1}}

LEMMA HeightNat ==
  ASSUME Numbered, NEW t \in Tenants
  PROVE  Height(t) \in Nat
BY FS_CardinalityType DEF Numbered, Height

LEMMA AppendByIndex ==
  ASSUME NEW S, NEW n \in Nat, NEW s \in [1..n -> S], NEW x \in S,
         NEW w \in [1..n + 1 -> S],
         \A i \in 1..n : w[i] = s[i], w[n + 1] = x
  PROVE  w = Append(s, x)
<1>1. s \in Seq(S) /\ Len(s) = n /\ w \in Seq(S) /\ Len(w) = n + 1
  OBVIOUS
<1>2. /\ Append(s, x) \in Seq(S) /\ Len(Append(s, x)) = n + 1
      /\ \A i \in 1..n : Append(s, x)[i] = s[i]
      /\ Append(s, x)[n + 1] = x
  BY <1>1, AppendProperties
<1>3. \A i \in 1..Len(w) : w[i] = Append(s, x)[i]
  BY <1>1, <1>2
<1>4. QED
  BY <1>1, <1>2, <1>3, SeqEqual

\* A step that changes what is stored of one tenant at most, and of that one only
\* the payloads.
LEMMA SameLogs ==
  ASSUME Numbered,
         \A t \in Tenants : /\ IsFiniteSet(Of(t))' /\ Height(t)' = Height(t)
                            /\ Indexes(t)' = Indexes(t)
                            /\ \A i \in Nat : At(t, i)' = At(t, i)
  PROVE  Numbered' /\ \A t \in Tenants : LogOf(t)' = LogOf(t)
<1>1. Numbered'
  BY DEF Numbered
<1>2. ASSUME NEW t \in Tenants
      PROVE  LogOf(t)' = LogOf(t)
  <2>1. Height(t) \in Nat
    BY HeightNat
  <2>2. LogOf(t) = [i \in 1..Height(t) |-> At(t, i)]
    BY DEF LogOf, Height, At
  <2>3. LogOf(t)' = [i \in 1..Height(t)' |-> At(t, i)']
    BY DEF LogOf, Height, At
  <2>4. QED
    BY <2>1, <2>2, <2>3
<1>3. QED
  BY <1>1, <1>2

LEMMA EditKeepsLogs ==
  ASSUME ChainInv, Numbered, NEW r \in rows, Edit(r)
  PROVE  Numbered' /\ \A t \in Tenants : LogOf(t)' = LogOf(t)
<1>1. PICK new :
        /\ rows' = (rows \ {r}) \cup {new}
        /\ SameLink(new, r) /\ new.payloadHash = r.payloadHash
  BY EditedRow
<1>2. ASSUME NEW t \in Tenants
      PROVE  /\ IsFiniteSet(Of(t))' /\ Height(t)' = Height(t)
             /\ Indexes(t)' = Indexes(t)
             /\ \A i \in Nat : At(t, i)' = At(t, i)
  <2>1. IsFiniteSet(Of(t))
    BY DEF Numbered
  <2>2. CASE t # r.tenant
    <3>1. Of(t)' = Of(t)
      BY <1>1, <2>2 DEF Of, SameLink
    <3>2. QED
      BY <2>1, <3>1 DEF Height, Indexes, At
  <2>3. CASE t = r.tenant
    <3>1. /\ Of(t)' = (Of(t) \ {r}) \cup {new}
          /\ r \in Of(t) /\ new \notin Of(t) \ {r}
      BY <1>1, <2>3 DEF Of, SameLink, ChainInv, Linked
    <3>2. Indexes(t)' = Indexes(t) /\ \A i \in Nat : At(t, i)' = At(t, i)
      BY <1>1, <3>1 DEF Indexes, At, SameLink
    <3>3. /\ IsFiniteSet(Of(t) \ {r})
          /\ Cardinality(Of(t) \ {r}) = Cardinality(Of(t)) - 1
      BY <2>1, <3>1, FS_RemoveElement
    <3>4. /\ IsFiniteSet((Of(t) \ {r}) \cup {new})
          /\ Cardinality((Of(t) \ {r}) \cup {new}) = Cardinality(Of(t) \ {r}) + 1
      BY <3>1, <3>3, FS_AddElement
    <3>5. Cardinality(Of(t)) \in Nat
      BY <2>1, FS_CardinalityType
    <3>6. QED
      BY <3>1, <3>2, <3>3, <3>4, <3>5 DEF Height
  <2>4. QED
    BY <2>2, <2>3
<1>3. QED
  BY <1>2, SameLogs

\* A commit appends the entry to the log of its tenant, and to no other.
LEMMA CommitAppends ==
  ASSUME ChainInv, Numbered, NEW c \in Calls, Commit(c),
         NEW t, t = call[c].tenant, NEW e, e = call[c].entry
  PROVE  /\ Numbered'
         /\ LogOf(t)' = Append(LogOf(t), {HashPayload(e)})
         /\ \A u \in Tenants \ {t} : LogOf(u)' = LogOf(u)
<1> DEFINE k == call[c]
           h == HashPayload(e)
<1>1. /\ t \in Tenants /\ k.index \in Nat
      /\ k.index = 0 \/ \E q \in Of(t) : q.index = k.index - 1
  BY BusyCall DEF Commit, ChainInv, Prepared, Follows
<1>2. PICK new : /\ rows' = rows \cup {new} /\ Free(t, k.index)
                 /\ new.tenant = t /\ new.index = k.index
                 /\ new.payloadHash = h
  <2> DEFINE x == Row(k)
  <2>1. rows' = rows \cup {x} /\ Free(t, k.index)
    BY DEF Commit
  <2>2. x.tenant = t /\ x.index = k.index /\ x.payloadHash = h
    BY DEF Row
  <2> HIDE DEF x, k, h
  <2>3. QED
    BY <2>1, <2>2
<1>3. PICK n : n = Height(t)
  OBVIOUS
<1> HIDE DEF h
<1>4. Of(t)' = Of(t) \cup {new} /\ new \notin Of(t)
  BY <1>2 DEF Of, Free
<1>5. \A u \in Tenants \ {t} : Of(u)' = Of(u)
  BY <1>2 DEF Of
<1>6. n \in Nat /\ IsFiniteSet(Of(t)) /\ Indexes(t) = 0..n - 1
  BY <1>1, <1>3, HeightNat DEF Numbered
<1>7. IsFiniteSet(Of(t)') /\ Height(t)' = n + 1
  BY <1>3, <1>4, <1>6, FS_AddElement DEF Height
<1>8. k.index = n
  <2>1. k.index \notin 0..n - 1
    BY <1>2, <1>6 DEF Free, Indexes
  <2>2. k.index = 0 \/ k.index - 1 \in 0..n - 1
    BY <1>1, <1>6 DEF Indexes
  <2> HIDE DEF k
  <2>3. QED
    BY <1>1, <1>6, <2>1, <2>2
<1> HIDE DEF k
<1>9. Indexes(t)' = 0..n
  <2>1. Indexes(t)' = Indexes(t) \cup {k.index}
    BY <1>2, <1>4 DEF Indexes
  <2>2. QED
    BY <1>6, <1>8, <2>1
<1>10. Numbered'
  <2>1. ASSUME NEW u \in Tenants
        PROVE  (IsFiniteSet(Of(u)) /\ Indexes(u) = 0..Height(u) - 1)'
    <3>1. CASE u = t
      BY <1>6, <1>7, <1>9, <3>1
    <3>2. CASE u # t
      BY <1>5, <3>2 DEF Numbered, Indexes, Height
    <3>3. QED
      BY <3>1, <3>2
  <2>2. QED
    BY <2>1 DEF Numbered
<1>11. LogOf(t)' = Append(LogOf(t), {h})
  <2> DEFINE S == SUBSET {r.payloadHash : r \in rows \cup {new}}
  <2>1. LogOf(t) = [i \in 1..n |-> At(t, i)]
    BY <1>3 DEF LogOf, At, Height
  <2>2. LogOf(t)' = [i \in 1..n + 1 |-> At(t, i)']
    BY <1>7 DEF LogOf, At, Height
  <2>3. \A i \in 1..n : At(t, i)' = At(t, i)
    BY <1>2, <1>4, <1>6, <1>8 DEF At
  <2>4. At(t, n + 1)' = {h}
    <3>1. \A q \in Of(t) : q.index # n
      BY <1>2, <1>8 DEF Free
    <3>2. {q \in Of(t)' : q.index = n} = {new}
      BY <1>2, <1>4, <1>8, <3>1
    <3>3. QED
      BY <1>2, <1>6, <3>2 DEF At
  <2>5. \A i : At(t, i) \in S /\ At(t, i)' \in S
    BY <1>2 DEF At, Of
  <2> HIDE DEF S
  <2>6. LogOf(t) \in [1..n -> S] /\ LogOf(t)' \in [1..n + 1 -> S]
    BY <2>1, <2>2, <2>5
  <2>7. \A i \in 1..n : LogOf(t)'[i] = LogOf(t)[i]
    BY <1>6, <2>1, <2>2, <2>3
  <2>8. LogOf(t)'[n + 1] = {h}
    BY <1>6, <2>2, <2>4
  <2>9. {h} \in S
    BY <2>4, <2>5
  <2>10. QED
    BY <1>6, <2>6, <2>7, <2>8, <2>9, AppendByIndex
<1>12. \A u \in Tenants \ {t} : LogOf(u)' = LogOf(u)
  BY <1>5 DEF LogOf
<1>13. QED
  BY <1>10, <1>11, <1>12 DEF h

logs == [t \in Tenants |-> LogOf(t)]
LogStep == [Log!Next]_logs

LEMMA LogsMove ==
  ASSUME ChainInv, Numbered, [Next]_vars
  PROVE  Numbered' /\ LogStep
<1>1. ASSUME \A t \in Tenants : LogOf(t)' = LogOf(t)
      PROVE  LogStep
  BY <1>1 DEF LogStep, logs
<1>2. CASE UNCHANGED rows
  <2>1. \A t \in Tenants : LogOf(t)' = LogOf(t)
    BY <1>2 DEF LogOf, Of
  <2>2. Numbered'
    BY <1>2 DEF Numbered, Indexes, Height, Of
  <2>3. QED
    BY <1>1, <2>1, <2>2
<1>3. ASSUME NEW c \in Calls, Commit(c)
      PROVE  Numbered' /\ LogStep
  <2>1. PICK t \in Tenants, f \in Entries : t = call[c].tenant /\ f = call[c].entry
    BY <1>3, BusyCall DEF Commit, ChainInv
  <2>2. PICK e \in {{HashPayload(g)} : g \in Entries} : e = {HashPayload(f)}
    OBVIOUS
  <2>3. /\ Numbered' /\ LogOf(t)' = Append(LogOf(t), e)
        /\ \A u \in Tenants \ {t} : LogOf(u)' = LogOf(u)
    BY <1>3, <2>1, <2>2, CommitAppends
  <2>4. [u \in Tenants |-> LogOf(u)']
          = [[u \in Tenants |-> LogOf(u)] EXCEPT ![t] = Append(@, e)]
    BY <2>3
  <2>5. Log!Record(t, e)
    BY <2>4 DEF Log!Record
  <2>6. QED
    BY <2>1, <2>2, <2>3, <2>5 DEF LogStep, Log!Next
<1>4. ASSUME NEW r \in rows, Edit(r)
      PROVE  Numbered' /\ LogStep
  BY <1>1, <1>4, EditKeepsLogs
<1>5. QED
  BY <1>2, <1>3, <1>4 DEF Next, Proceed, Ask, ReadLast, Conflict, Crash, vars

LEMMA LogsInit ==
  ASSUME Init
  PROVE  Numbered /\ Log!Init
<1>1. \A t : Of(t) = {}
  BY DEF Init, Of
<1>2. \A t : IsFiniteSet(Of(t)) /\ Height(t) = 0 /\ Indexes(t) = {}
  BY <1>1, FS_EmptySet DEF Height, Indexes
<1>3. 0..0 - 1 = {} /\ 1..0 = {}
  OBVIOUS
<1>4. \A t : LogOf(t) = << >>
  BY <1>2, <1>3 DEF LogOf, Height
<1>5. QED
  BY <1>2, <1>3, <1>4 DEF Numbered, Log!Init

\* The rows, hashes and transactions of the audit trail implement one log for each
\* tenant that only ever grows at its end by one entry.
THEOREM AuditImplementsLog == Spec => ImplementsLog
<1>1. Init => Numbered /\ Log!Init
  BY LogsInit
<1>2. ChainInv /\ Numbered /\ [Next]_vars => Numbered' /\ LogStep
  BY LogsMove
<1>3. QED
  BY <1>1, <1>2, ChainInit, ChainStep, PTL
     DEF Spec, ImplementsLog, Log!Spec, LogStep, logs
=============================================================================
