--------------------------- MODULE AccountAccess ---------------------------
(***************************************************************************)
(* The accounts of one organization: an account is created by inviting its *)
(* user, opened with a link that is good once, given another link by an    *)
(* administrator, and edited or deactivated.  Inviting, issuing a link and *)
(* completing a setup are transactions.  Edits are not: they read the      *)
(* account, look whether another administrator remains, and write.         *)
(*                                                                         *)
(* Left out: who may manage which role, profile fields, passwords (whether *)
(* there is one is kept), signing in and its counter of failed attempts,   *)
(* and how a link is delivered.                                            *)
(*                                                                         *)
(* Definitions named Faulty... are slips somebody could make in the code.  *)
(* No specification uses them: each shows that a property would notice.    *)
(***************************************************************************)
EXTENDS Integers, Sequences, FiniteSets

CONSTANTS
  Users,     \* accounts there may be
  Founder,   \* the administrator the organization was provisioned with
  Calls,     \* edits in flight at the same time
  MaxLinks   \* bound: links issued to all users together

ASSUME AccessAssumption == Founder \in Users /\ MaxLinks \in Nat \ {0}

Roles == {"agent", "tenant_admin"}

VARIABLES
  users,   \* users[u]: the row; its role is "none" while there is no account
  links,   \* links[u]: the invitations issued to u, in order
  calls,   \* calls[c]: the edit in flight, Idle while there is none
  opened,  \* history: an administrator has been active
  raced    \* history: an edit was written after another write overtook it

vars == <<users, links, calls, opened, raced>>

User == [role: Roles \cup {"none"}, active: BOOLEAN, password: BOOLEAN]
Link == [purpose: {"activate", "reset"},
         state: {"pending", "accepted", "over"}]  \* over: revoked or expired
Patch == [role: Roles \cup {"keep"}, active: {"keep", "yes", "no"}]
Idle == [pc |-> "idle"]
Edit ==
  [pc: {"checking"}, op: {"update", "deactivate"}, user: Users, before: User,
   patch: Patch, overtaken: BOOLEAN]
    \cup [pc: {"writing"}, user: Users, patch: Patch, overtaken: BOOLEAN]

Nobody == [role |-> "none", active |-> FALSE, password |-> FALSE]
Invited(r) == [role |-> r, active |-> FALSE, password |-> FALSE]
Pending(purpose) == [purpose |-> purpose, state |-> "pending"]

IsAdmin(row) == row.role = "tenant_admin" /\ row.active
ActiveAdmins(table) == {u \in Users : IsAdmin(table[u])}

\* provisionOrganization: the organization, its administrator and a setup link.
Init ==
  /\ users = [u \in Users |-> IF u = Founder THEN Invited("tenant_admin") ELSE Nobody]
  /\ links = [u \in Users |-> IF u = Founder THEN <<Pending("activate")>> ELSE <<>>]
  /\ calls = [c \in Calls |-> Idle]
  /\ opened = FALSE /\ raced = FALSE

-----------------------------------------------------------------------------
(* Transactions on accounts and links *)

FaultyRevoked(s) == [i \in DOMAIN s |-> [s[i] EXCEPT !.state = "over"]]

Revoked(s) ==
  [i \in DOMAIN s |-> IF s[i].state = "pending" THEN [s[i] EXCEPT !.state = "over"]
                                                ELSE s[i]]

Issued(s, purpose) == Append(Revoked(s), Pending(purpose))

\* Link i is accepted, the others are revoked.
Accepted(s, i) == [Revoked(s) EXCEPT ![i] = [s[i] EXCEPT !.state = "accepted"]]

\* Bounds the links that are issued.
LinkIsLeft == Cardinality(UNION {{u} \X DOMAIN links[u] : u \in Users}) < MaxLinks

\* The edits in flight that a write to the accounts overtakes.
Overtaken(c) == IF calls[c] = Idle THEN Idle ELSE [calls[c] EXCEPT !.overtaken = TRUE]

InviteUser(u, r) ==
  /\ users[u] = Nobody
  /\ LinkIsLeft
  /\ users' = [users EXCEPT ![u] = Invited(r)]
  /\ links' = [links EXCEPT ![u] = Issued(@, "activate")]
  /\ UNCHANGED <<calls, opened, raced>>

GenerateUserAccessLink(u) ==
  /\ users[u].role # "none"
  /\ LinkIsLeft
  /\ links' = [links EXCEPT ![u] =
       Issued(@, IF users[u].active /\ users[u].password THEN "reset" ELSE "activate")]
  /\ UNCHANGED <<users, calls, opened, raced>>

\* A reset does not bring a deactivated account back; a setup link does.
CompleteAccountSetup(u, i) ==
  /\ links[u][i].state = "pending"
  /\ links[u][i].purpose = "reset" => users[u].active
  /\ users' = [users EXCEPT ![u].password = TRUE, ![u].active = TRUE]
  /\ links' = [links EXCEPT ![u] = Accepted(@, i)]
  /\ calls' = [c \in Calls |-> Overtaken(c)]
  /\ opened' = (opened \/ ActiveAdmins(users') # {})
  /\ UNCHANGED raced

\* Twenty-four hours pass.
LinkExpires(u, i) ==
  /\ links[u][i].state = "pending"
  /\ links' = [links EXCEPT ![u][i].state = "over"]
  /\ UNCHANGED <<users, calls, opened, raced>>

-----------------------------------------------------------------------------
(* updateUser and deactivateUser *)

\* A role that equals the one read counts as none.
Read(c, op, u, p) ==
  /\ calls[c] = Idle
  /\ users[u].role # "none"
  /\ calls' = [calls EXCEPT ![c] =
       [pc |-> "checking", op |-> op, user |-> u, before |-> users[u],
        patch |-> IF p.role = users[u].role THEN [p EXCEPT !.role = "keep"] ELSE p,
        overtaken |-> FALSE]]
  /\ UNCHANGED <<users, links, opened, raced>>

\* An edit that names neither a role nor the activity changes the profile only.
UpdateUser(c, u) ==
  \E p \in Patch \ {[role |-> "keep", active |-> "keep"]} : Read(c, "update", u, p)
DeactivateUser(c, u) == Read(c, "deactivate", u, [role |-> "keep", active |-> "no"])

FaultyRemovesAdmin(k) ==  \* looks at the role, and forgets deactivation by an edit
  /\ k.before.role = "tenant_admin"
  /\ IF k.op = "update" THEN k.patch.role = "agent" ELSE k.before.active

RemovesAdmin(k) ==
  /\ k.before.role = "tenant_admin"
  /\ IF k.op = "update" THEN k.patch.role = "agent" \/ k.patch.active = "no"
                        ELSE k.before.active

FaultyWithoutCredentials(k) == FALSE  \* activates whatever the account lacks

WithoutCredentials(k) ==
  k.patch.active = "yes" /\ ~k.before.active /\ ~k.before.password

\* The other administrators are listed now; the edit is refused, or will be written.
Check(c) ==
  /\ calls[c].pc = "checking"
  /\ LET k == calls[c]
         refused == \/ RemovesAdmin(k) /\ ActiveAdmins(users) \ {k.user} = {}
                    \/ WithoutCredentials(k)
     IN calls' = [calls EXCEPT ![c] =
          IF refused THEN Idle
          ELSE [pc |-> "writing", user |-> k.user, patch |-> k.patch,
                overtaken |-> k.overtaken]]
  /\ UNCHANGED <<users, links, opened, raced>>

Patched(row, p) ==
  [row EXCEPT !.role = IF p.role = "keep" THEN @ ELSE p.role,
              !.active = IF p.active = "keep" THEN @ ELSE p.active = "yes"]

Write(c) ==
  /\ calls[c].pc = "writing"
  /\ users' = [users EXCEPT ![calls[c].user] = Patched(@, calls[c].patch)]
  /\ raced' = (raced \/ calls[c].overtaken)
  /\ calls' = [d \in Calls |-> IF d = c THEN Idle ELSE Overtaken(d)]
  /\ opened' = (opened \/ ActiveAdmins(users') # {})
  /\ UNCHANGED links

-----------------------------------------------------------------------------

Next ==
  \/ \E u \in Users :
       \/ \E r \in Roles : InviteUser(u, r)
       \/ GenerateUserAccessLink(u)
       \/ \E i \in DOMAIN links[u] : CompleteAccountSetup(u, i) \/ LinkExpires(u, i)
       \/ \E c \in Calls : UpdateUser(c, u) \/ DeactivateUser(c, u)
  \/ \E c \in Calls : Check(c) \/ Write(c)

Spec == Init /\ [][Next]_vars

-----------------------------------------------------------------------------
(* Properties *)

\* The rows and the edits have the types they are declared with.
TypeOK ==
  /\ users \in [Users -> User]
  /\ links \in [Users -> Seq(Link)]
  /\ calls \in [Calls -> Edit \cup {Idle}]
  /\ opened \in BOOLEAN /\ raced \in BOOLEAN

\* Once an administrator is active, one remains: by no sequence of edits, role
\* changes, deactivations and setups does an organization lose its last one, unless
\* an edit was overtaken by another write between its check and its own write.
AdminRemains == opened => raced \/ ActiveAdmins(users) # {}

\* Nobody is active who has no means to sign in: whatever edits overlap, an account
\* becomes active only with the password its user set.
ActiveHasPassword == \A u \in Users : users[u].active => users[u].password

\* A link is good once: one that was accepted, revoked or has expired stays so, and
\* one is accepted only in the step that opens its user's account.
LinkSpent ==
  [][\A u \in Users : \A i \in DOMAIN links[u] :
       /\ links[u][i].state # "pending" => links'[u][i] = links[u][i]
       /\ links[u][i].state = "pending" /\ links'[u][i].state = "accepted" =>
            users'[u].active /\ users'[u].password]_vars
=============================================================================
