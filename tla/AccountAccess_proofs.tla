------------------------ MODULE AccountAccess_proofs ------------------------
(***************************************************************************)
(* An organization keeps an administrator, nobody is active without a      *)
(* password, and a link that was replaced, used or withdrawn never opens   *)
(* an account again, for every set of users, any number of edits in flight *)
(* and any number of links.                                                *)
(*                                                                         *)
(* The argument follows an edit: what it read is what is stored until a    *)
(* write overtakes it (Read), and an edit that passed its check and was    *)
(* not overtaken leaves an administrator (Checked).                        *)
(***************************************************************************)
EXTENDS AccountAccess, TLAPS

Busy(c) == calls[c].pc \in {"checking", "writing"}

\* The account an edit is about exists, and a deactivation asks for nothing else.
About ==
  \A c \in Calls : Busy(c) =>
    /\ users[calls[c].user].role # "none"
    /\ calls[c].pc = "checking" /\ calls[c].op = "deactivate" =>
         calls[c].patch = [role |-> "keep", active |-> "no"]

\* An edit knows the account it read; nobody loses a password.
Current ==
  \A c \in Calls : calls[c].pc = "checking" =>
    /\ ~calls[c].overtaken => calls[c].before = users[calls[c].user]
    /\ calls[c].before.active => calls[c].before.password
    /\ calls[c].before.password => users[calls[c].user].password

\* The edit k leaves an administrator where there is one.
Harmless(k) ==
  \/ ActiveAdmins(users) \ {k.user} # {}
  \/ IsAdmin(users[k.user]) => IsAdmin(Patched(users[k.user], k.patch))

\* An edit that was not refused is harmless until another write overtakes it, and
\* activates only who has a password.
Checked ==
  \A c \in Calls : calls[c].pc = "writing" =>
    /\ ~calls[c].overtaken => Harmless(calls[c])
    /\ calls[c].patch.active = "yes" => users[calls[c].user].password

AccessInv ==
  TypeOK /\ About /\ Current /\ Checked /\ ActiveHasPassword /\ AdminRemains

-----------------------------------------------------------------------------
(* Types *)

LEMMA RevokedType ==
  ASSUME NEW s \in Seq(Link)
  PROVE  Revoked(s) \in Seq(Link) /\ DOMAIN Revoked(s) = DOMAIN s
<1>1. DOMAIN s = 1..Len(s) /\ Len(s) \in Nat /\ \A i \in 1..Len(s) : s[i] \in Link
  OBVIOUS
<1>2. \A i \in 1..Len(s) :
        (IF s[i].state = "pending" THEN [s[i] EXCEPT !.state = "over"] ELSE s[i]) \in Link
  BY <1>1 DEF Link
<1>3. Revoked(s) \in [1..Len(s) -> Link]
  BY <1>1, <1>2 DEF Revoked
<1>4. QED
  BY <1>1, <1>3 DEF Revoked

LEMMA IssuedType ==
  ASSUME NEW s \in Seq(Link), NEW p \in {"activate", "reset"}
  PROVE  Issued(s, p) \in Seq(Link)
BY RevokedType DEF Issued, Pending, Link

LEMMA EditType ==
  ASSUME TypeOK, NEW c \in Calls, Busy(c)
  PROVE  /\ calls[c].user \in Users /\ calls[c].patch \in Patch
         /\ calls[c].overtaken \in BOOLEAN
         /\ calls[c].pc = "checking" =>
              calls[c].before \in User /\ calls[c].op \in {"update", "deactivate"}
BY DEF TypeOK, Edit, Idle, Busy

LEMMA OvertakenType ==
  ASSUME TypeOK, NEW c \in Calls
  PROVE  /\ Overtaken(c) \in Edit \cup {Idle}
         /\ Overtaken(c).pc = calls[c].pc
         /\ Busy(c) => /\ Overtaken(c).user = calls[c].user
                       /\ Overtaken(c).patch = calls[c].patch
                       /\ Overtaken(c).overtaken
         /\ calls[c].pc = "checking" => /\ Overtaken(c).before = calls[c].before
                                        /\ Overtaken(c).op = calls[c].op
<1>1. CASE calls[c] = Idle
  BY <1>1 DEF Overtaken, Idle, Busy
<1>2. CASE calls[c] # Idle
  <2>1. Overtaken(c) = [calls[c] EXCEPT !.overtaken = TRUE] /\ calls[c] \in Edit
    BY <1>2 DEF Overtaken, TypeOK
  <2>2. CASE calls[c].pc = "checking"
    <3>1. calls[c] \in [pc: {"checking"}, op: {"update", "deactivate"}, user: Users,
                        before: User, patch: Patch, overtaken: BOOLEAN]
      BY <2>1, <2>2 DEF Edit
    <3>2. QED
      BY <2>1, <2>2, <3>1 DEF Edit, Busy
  <2>3. CASE calls[c].pc # "checking"
    <3>1. calls[c] \in [pc: {"writing"}, user: Users, patch: Patch, overtaken: BOOLEAN]
      BY <2>1, <2>3 DEF Edit
    <3>2. QED
      BY <2>1, <3>1 DEF Edit, Busy
  <2>4. QED
    BY <2>2, <2>3
<1>3. QED
  BY <1>1, <1>2

LEMMA PatchedType ==
  ASSUME NEW row \in User, NEW p \in Patch
  PROVE  /\ Patched(row, p) \in User
         /\ Patched(row, p).password = row.password
         /\ Patched(row, p).role = IF p.role = "keep" THEN row.role ELSE p.role
         /\ Patched(row, p).active = IF p.active = "keep" THEN row.active
                                     ELSE p.active = "yes"
BY DEF Patched, User, Patch, Roles

-----------------------------------------------------------------------------
(* Steps *)

\* A new account is inactive: no administrator comes or goes.
LEMMA InviteStep ==
  ASSUME AccessInv, NEW u \in Users, NEW r \in Roles, InviteUser(u, r)
  PROVE  AccessInv'
<1>1. /\ users[u] = Nobody /\ users' = [users EXCEPT ![u] = Invited(r)]
      /\ UNCHANGED <<calls, opened, raced>>
  BY DEF InviteUser
<1>2. Invited(r) \in User /\ ~IsAdmin(Invited(r)) /\ ~IsAdmin(Nobody)
  BY DEF Invited, Nobody, IsAdmin, User, Roles
<1>3. links' \in [Users -> Seq(Link)]
  BY IssuedType DEF InviteUser, AccessInv, TypeOK
<1>4. TypeOK'
  BY <1>1, <1>2, <1>3 DEF AccessInv, TypeOK
<1>5. users'[u] = Invited(r) /\ \A v \in Users \ {u} : users'[v] = users[v]
  BY <1>1 DEF AccessInv, TypeOK
<1>6. \A c \in Calls : Busy(c) => calls[c].user \in Users \ {u}
  BY <1>1, EditType DEF AccessInv, About, Nobody
<1>7. ActiveAdmins(users') = ActiveAdmins(users)
  BY <1>1, <1>2, <1>5 DEF ActiveAdmins
<1>8. About'
  BY <1>1, <1>5, <1>6 DEF AccessInv, About, Busy
<1>9. Current'
  BY <1>1, <1>5, <1>6 DEF AccessInv, Current, Busy
<1>10. Checked'
  BY <1>1, <1>5, <1>6, <1>7 DEF AccessInv, Checked, Busy, Harmless
<1>11. ActiveHasPassword'
  BY <1>5 DEF AccessInv, ActiveHasPassword, Invited
<1>12. AdminRemains'
  BY <1>1, <1>7 DEF AccessInv, AdminRemains
<1>13. QED
  BY <1>4, <1>8, <1>9, <1>10, <1>11, <1>12 DEF AccessInv

\* Issuing a link or letting one expire concerns no account.
LEMMA LinkStep ==
  ASSUME AccessInv, UNCHANGED <<users, calls, opened, raced>>,
         links' \in [Users -> Seq(Link)]
  PROVE  AccessInv'
BY DEF AccessInv, TypeOK, About, Current, Checked, Harmless, Busy, ActiveHasPassword,
   AdminRemains

\* Opening an account adds an active user and a password, and overtakes every edit.
LEMMA CompleteStep ==
  ASSUME AccessInv, NEW u \in Users, NEW i \in DOMAIN links[u],
         CompleteAccountSetup(u, i)
  PROVE  AccessInv'
<1>1. /\ users' = [users EXCEPT ![u].password = TRUE, ![u].active = TRUE]
      /\ calls' = [c \in Calls |-> Overtaken(c)]
      /\ opened' = (opened \/ ActiveAdmins(users') # {}) /\ UNCHANGED raced
  BY DEF CompleteAccountSetup
<1>2. /\ users' \in [Users -> User]
      /\ users'[u].password /\ users'[u].active /\ users'[u].role = users[u].role
      /\ \A v \in Users \ {u} : users'[v] = users[v]
  BY <1>1 DEF AccessInv, TypeOK, User
<1>3. links' \in [Users -> Seq(Link)]
  <2>1. links[u] \in Seq(Link)
    BY DEF AccessInv, TypeOK
  <2>2. Revoked(links[u]) \in Seq(Link) /\ i \in DOMAIN Revoked(links[u])
    BY <2>1, RevokedType
  <2>3. [links[u][i] EXCEPT !.state = "accepted"] \in Link
    <3>1. links[u][i] \in Link
      BY <2>1
    <3>2. QED
      BY <3>1 DEF Link
  <2>4. Accepted(links[u], i) \in Seq(Link)
    BY <2>2, <2>3 DEF Accepted
  <2>5. QED
    BY <2>4 DEF CompleteAccountSetup, AccessInv, TypeOK
<1>4. \A c \in Calls : calls'[c] = Overtaken(c)
  BY <1>1
<1>5. TypeOK'
  BY <1>1, <1>2, <1>3, OvertakenType DEF AccessInv, TypeOK
<1>6. \A c \in Calls : Busy(c)' => Busy(c) /\ calls'[c].overtaken
  BY <1>4, OvertakenType DEF AccessInv, Busy
<1>7. About'
  BY <1>2, <1>4, <1>6, OvertakenType, EditType DEF AccessInv, About, Busy
<1>8. Current'
  BY <1>2, <1>4, <1>6, OvertakenType, EditType DEF AccessInv, Current, Busy
<1>9. Checked'
  BY <1>2, <1>4, <1>6, OvertakenType, EditType DEF AccessInv, Checked, Busy
<1>10. ActiveHasPassword'
  BY <1>2 DEF AccessInv, ActiveHasPassword
<1>11. ActiveAdmins(users) \subseteq ActiveAdmins(users')
  BY <1>2 DEF ActiveAdmins, IsAdmin
<1>12. AdminRemains'
  BY <1>1, <1>11 DEF AccessInv, AdminRemains
<1>13. QED
  BY <1>5, <1>7, <1>8, <1>9, <1>10, <1>12 DEF AccessInv

LEMMA ReadStep ==
  ASSUME AccessInv, NEW c \in Calls, NEW op \in {"update", "deactivate"},
         NEW u \in Users, NEW p \in Patch, Read(c, op, u, p),
         op = "deactivate" => p = [role |-> "keep", active |-> "no"]
  PROVE  AccessInv'
<1> DEFINE q == IF p.role = users[u].role THEN [p EXCEPT !.role = "keep"] ELSE p
           k == [pc |-> "checking", op |-> op, user |-> u, before |-> users[u],
                 patch |-> q, overtaken |-> FALSE]
<1>1. /\ calls' = [calls EXCEPT ![c] = k] /\ UNCHANGED <<users, links, opened, raced>>
      /\ users[u].role # "none"
  BY DEF Read
<1>2. q \in Patch /\ (op = "deactivate" => q = [role |-> "keep", active |-> "no"])
  BY DEF Patch
<1> HIDE DEF q
<1>3. k \in Edit /\ users[u] \in User
  BY <1>2 DEF Edit, AccessInv, TypeOK
<1>4. calls'[c] = k /\ \A d \in Calls \ {c} : calls'[d] = calls[d]
  BY <1>1 DEF AccessInv, TypeOK
<1>5. TypeOK'
  BY <1>1, <1>3 DEF AccessInv, TypeOK
<1>6. About'
  BY <1>1, <1>2, <1>4 DEF AccessInv, About, Busy
<1>7. Current'
  BY <1>1, <1>4 DEF AccessInv, Current, ActiveHasPassword
<1>8. Checked'
  BY <1>1, <1>4 DEF AccessInv, Checked, Harmless
<1>9. ActiveHasPassword' /\ AdminRemains'
  BY <1>1 DEF AccessInv, ActiveHasPassword, AdminRemains
<1>10. QED
  BY <1>5, <1>6, <1>7, <1>8, <1>9 DEF AccessInv

\* An edit that is not refused takes no administrator away, or leaves another.
LEMMA CheckStep ==
  ASSUME AccessInv, NEW c \in Calls, Check(c)
  PROVE  AccessInv'
<1> DEFINE k == calls[c]
           refused == \/ RemovesAdmin(k) /\ ActiveAdmins(users) \ {k.user} = {}
                      \/ WithoutCredentials(k)
           n == [pc |-> "writing", user |-> k.user, patch |-> k.patch,
                 overtaken |-> k.overtaken]
<1>1. /\ k.pc = "checking" /\ UNCHANGED <<users, links, opened, raced>>
      /\ calls' = [calls EXCEPT ![c] = IF refused THEN Idle ELSE n]
  BY DEF Check
<1>2. /\ k.user \in Users /\ k.patch \in Patch /\ k.overtaken \in BOOLEAN
      /\ k.before \in User /\ k.op \in {"update", "deactivate"}
  BY <1>1, EditType DEF AccessInv, Busy
<1>3. n \in Edit /\ Idle \in Edit \cup {Idle}
  BY <1>2 DEF Edit
<1>4. /\ calls'[c] = IF refused THEN Idle ELSE n
      /\ \A d \in Calls \ {c} : calls'[d] = calls[d]
  BY <1>1 DEF AccessInv, TypeOK
<1>5. TypeOK'
  BY <1>1, <1>3 DEF AccessInv, TypeOK
<1>6. About'
  BY <1>1, <1>4 DEF AccessInv, About, Busy, Idle
<1>7. Current'
  BY <1>1, <1>4 DEF AccessInv, Current, Idle
<1>8. ASSUME ~refused, ~k.overtaken PROVE Harmless(n)
  <2>1. k.before = users[k.user]
    BY <1>1, <1>8 DEF AccessInv, Current
  <2>2. CASE RemovesAdmin(k)
    BY <1>8, <2>2 DEF Harmless
  <2>3. CASE ~RemovesAdmin(k)
    <3>1. CASE k.op = "deactivate"
      <4>1. ~IsAdmin(users[k.user])
        BY <2>1, <2>3, <3>1 DEF RemovesAdmin, IsAdmin
      <4>2. QED
        BY <4>1 DEF Harmless
    <3>2. CASE k.op = "update"
      <4>1. CASE users[k.user].role # "tenant_admin"
        <5>1. ~IsAdmin(users[k.user])
          BY <4>1 DEF IsAdmin
        <5>2. QED
          BY <5>1 DEF Harmless
      <4>2. CASE users[k.user].role = "tenant_admin"
        <5>1. k.patch.role # "agent" /\ k.patch.active # "no"
          BY <2>1, <2>3, <3>2, <4>2 DEF RemovesAdmin
        <5>2. k.patch.role \in {"keep", "tenant_admin"} /\ k.patch.active \in {"keep", "yes"}
          BY <1>2, <5>1 DEF Patch, Roles
        <5>3. users[k.user] \in User
          BY <1>2 DEF AccessInv, TypeOK
        <5>4. /\ Patched(users[k.user], k.patch).role = "tenant_admin"
              /\ users[k.user].active => Patched(users[k.user], k.patch).active
          BY <1>2, <4>2, <5>2, <5>3, PatchedType
        <5>5. IsAdmin(users[k.user]) => IsAdmin(Patched(users[k.user], k.patch))
          BY <5>4 DEF IsAdmin
        <5>6. QED
          BY <5>5 DEF Harmless
      <4>3. QED
        BY <4>1, <4>2
    <3>3. QED
      BY <1>2, <3>1, <3>2
  <2>4. QED
    BY <2>2, <2>3
<1>9. ASSUME ~refused, k.patch.active = "yes" PROVE users[k.user].password
  BY <1>1, <1>9 DEF WithoutCredentials, AccessInv, Current
<1>10. Checked'
  <2>1. \A e : Harmless(e) => Harmless(e)'
    BY <1>1 DEF Harmless
  <2> HIDE DEF refused
  <2>2. QED
    BY <1>1, <1>4, <1>8, <1>9, <2>1 DEF AccessInv, Checked, Idle
<1>11. ActiveHasPassword' /\ AdminRemains'
  BY <1>1 DEF AccessInv, ActiveHasPassword, AdminRemains
<1>12. QED
  BY <1>5, <1>6, <1>7, <1>10, <1>11 DEF AccessInv

\* The write of an edit that nothing overtook is the one that was checked.
LEMMA WriteStep ==
  ASSUME AccessInv, NEW c \in Calls, Write(c)
  PROVE  AccessInv'
<1> DEFINE k == calls[c]
           u == k.user
<1>1. /\ k.pc = "writing" /\ users' = [users EXCEPT ![u] = Patched(users[u], k.patch)]
      /\ raced' = (raced \/ k.overtaken)
      /\ calls' = [d \in Calls |-> IF d = c THEN Idle ELSE Overtaken(d)]
      /\ opened' = (opened \/ ActiveAdmins(users') # {}) /\ UNCHANGED links
  BY DEF Write
<1>2. u \in Users /\ k.patch \in Patch /\ k.overtaken \in BOOLEAN /\ users[u] \in User
  BY <1>1, EditType DEF AccessInv, Busy, TypeOK
<1>3. /\ users' \in [Users -> User] /\ users'[u] = Patched(users[u], k.patch)
      /\ users'[u].password = users[u].password
      /\ users[u].role # "none" => users'[u].role # "none"
      /\ \A v \in Users \ {u} : users'[v] = users[v]
  <2>1. users'[u] = Patched(users[u], k.patch) /\ \A v \in Users \ {u} : users'[v] = users[v]
    BY <1>1, <1>2 DEF AccessInv, TypeOK
  <2>2. users' \in [Users -> User]
    BY <1>1, <1>2, PatchedType DEF AccessInv, TypeOK
  <2>3. users[u].role # "none" => users'[u].role # "none"
    BY <1>2, <2>1, PatchedType DEF Patch, Roles
  <2>4. users'[u].password = users[u].password
    BY <1>2, <2>1, PatchedType
  <2>5. QED
    BY <2>1, <2>2, <2>3, <2>4
<1>4. calls'[c] = Idle /\ \A d \in Calls \ {c} : calls'[d] = Overtaken(d)
  BY <1>1
<1>5. TypeOK'
  BY <1>1, <1>2, <1>3, OvertakenType DEF AccessInv, TypeOK
<1>6. \A d \in Calls : Busy(d)' => Busy(d) /\ calls'[d] = Overtaken(d) /\ calls'[d].overtaken
  BY <1>4, OvertakenType DEF AccessInv, Busy, Idle
<1>7. \A v \in Users : /\ users[v].password => users'[v].password
                       /\ users[v].role # "none" => users'[v].role # "none"
  BY <1>3
<1>8. About'
  BY <1>6, <1>7, OvertakenType, EditType DEF AccessInv, About, Busy
<1>9. Current'
  BY <1>6, <1>7, OvertakenType, EditType DEF AccessInv, Current, Busy
<1>10. Checked'
  BY <1>6, <1>7, OvertakenType, EditType DEF AccessInv, Checked, Busy
<1>11. ActiveHasPassword'
  <2>1. users'[u].active => users'[u].password
    BY <1>1, <1>2, <1>3, PatchedType DEF AccessInv, Checked, ActiveHasPassword, Patch
  <2>2. QED
    BY <1>3, <2>1 DEF AccessInv, ActiveHasPassword
<1>12. AdminRemains'
  <2> SUFFICES ASSUME opened, ~raced, ~k.overtaken
               PROVE  ActiveAdmins(users') # {}
    BY <1>1 DEF AdminRemains
  <2>1. PICK a \in Users : IsAdmin(users[a])
    BY DEF AccessInv, AdminRemains, ActiveAdmins
  <2>2. Harmless(k)
    BY <1>1 DEF AccessInv, Checked
  <2>3. CASE ActiveAdmins(users) \ {u} # {}
    <3>1. PICK b \in Users \ {u} : IsAdmin(users[b])
      BY <2>3 DEF ActiveAdmins
    <3>2. QED
      BY <1>3, <3>1 DEF ActiveAdmins
  <2>4. CASE ActiveAdmins(users) \ {u} = {}
    <3>1. a = u
      BY <2>1, <2>4 DEF ActiveAdmins
    <3>2. IsAdmin(users'[u])
      BY <1>3, <2>1, <2>2, <2>4, <3>1 DEF Harmless
    <3>3. QED
      BY <1>2, <3>2 DEF ActiveAdmins
  <2>5. QED
    BY <2>3, <2>4
<1>13. QED
  BY <1>5, <1>8, <1>9, <1>10, <1>11, <1>12 DEF AccessInv

LEMMA AccessStep ==
  ASSUME AccessInv, [Next]_vars
  PROVE  AccessInv'
<1>1. CASE UNCHANGED vars
  BY <1>1, LinkStep DEF vars, AccessInv, TypeOK
<1>2. ASSUME NEW u \in Users, NEW r \in Roles, InviteUser(u, r) PROVE AccessInv'
  BY <1>2, InviteStep
<1>3. ASSUME NEW u \in Users, GenerateUserAccessLink(u) PROVE AccessInv'
  <2>1. PICK p \in {"activate", "reset"} : links' = [links EXCEPT ![u] = Issued(@, p)]
    BY <1>3 DEF GenerateUserAccessLink
  <2>2. links' \in [Users -> Seq(Link)]
    BY <2>1, IssuedType DEF AccessInv, TypeOK
  <2>3. QED
    BY <1>3, <2>2, LinkStep DEF GenerateUserAccessLink
<1>4. ASSUME NEW u \in Users, NEW i \in DOMAIN links[u],
             CompleteAccountSetup(u, i) \/ LinkExpires(u, i)
      PROVE  AccessInv'
  <2>1. CASE CompleteAccountSetup(u, i)
    BY <2>1, CompleteStep
  <2>2. CASE LinkExpires(u, i)
    <3>1. links[u] \in Seq(Link) /\ links[u][i] \in Link
      BY DEF AccessInv, TypeOK
    <3>2. [links[u][i] EXCEPT !.state = "over"] \in Link
      BY <3>1 DEF Link
    <3>3. [links[u] EXCEPT ![i] = [links[u][i] EXCEPT !.state = "over"]] \in Seq(Link)
      BY <3>1, <3>2
    <3>4. links' \in [Users -> Seq(Link)]
      BY <2>2, <3>3 DEF LinkExpires, AccessInv, TypeOK
    <3>5. QED
      BY <2>2, <3>4, LinkStep DEF LinkExpires
  <2>3. QED
    BY <1>4, <2>1, <2>2
<1>5. ASSUME NEW u \in Users, NEW c \in Calls, UpdateUser(c, u) \/ DeactivateUser(c, u)
      PROVE  AccessInv'
  <2>1. [role |-> "keep", active |-> "no"] \in Patch
    BY DEF Patch
  <2>2. QED
    BY <1>5, <2>1, ReadStep DEF UpdateUser, DeactivateUser
<1>6. ASSUME NEW c \in Calls, Check(c) \/ Write(c) PROVE AccessInv'
  BY <1>6, CheckStep, WriteStep
<1>7. QED
  BY <1>1, <1>2, <1>3, <1>4, <1>5, <1>6 DEF Next

LEMMA AccessInit == Init => AccessInv
<1> SUFFICES ASSUME Init PROVE AccessInv
  OBVIOUS
<1>1. users \in [Users -> User] /\ \A u \in Users : ~users[u].active
  BY DEF Init, Invited, Nobody, User, Roles
<1>2. Pending("activate") \in Link
  BY DEF Pending, Link
<1>3. links \in [Users -> Seq(Link)]
  BY <1>2 DEF Init
<1>4. QED
  BY <1>1, <1>3 DEF Init, AccessInv, TypeOK, About, Current, Checked, Busy, Idle,
     ActiveHasPassword, AdminRemains

\* Accounts, links and edits stay well formed.
THEOREM AccessTypes == Spec => []TypeOK
<1>1. AccessInv => TypeOK
  BY DEF AccessInv
<1>2. QED
  BY <1>1, AccessInit, AccessStep, PTL DEF Spec

\* By updateUser, deactivateUser and the links, an organization loses its last
\* administrator only if two writes race.
THEOREM NoLockout == Spec => []AdminRemains
<1>1. AccessInv => AdminRemains
  BY DEF AccessInv
<1>2. QED
  BY <1>1, AccessInit, AccessStep, PTL DEF Spec

\* No operation, however they overlap, activates an account that has no password.
THEOREM NobodyWithoutPassword == Spec => []ActiveHasPassword
<1>1. AccessInv => ActiveHasPassword
  BY DEF AccessInv
<1>2. QED
  BY <1>1, AccessInit, AccessStep, PTL DEF Spec

-----------------------------------------------------------------------------
(* Links *)

\* What a step may do to link i of a user, whose row it leaves as it says.
SpentOnce(u, i) ==
  /\ links[u][i].state # "pending" => links'[u][i] = links[u][i]
  /\ links[u][i].state = "pending" /\ links'[u][i].state = "accepted" =>
       users'[u].active /\ users'[u].password

\* Revoking accepts nothing and touches no link that is spent.
LEMMA RevokedLink ==
  ASSUME NEW s \in Seq(Link), NEW i \in DOMAIN s
  PROVE  /\ s[i].state # "pending" => Revoked(s)[i] = s[i]
         /\ s[i].state = "pending" => Revoked(s)[i].state = "over"
<1>1. s[i] \in Link
  OBVIOUS
<1>2. s[i].state = "pending" => [s[i] EXCEPT !.state = "over"].state = "over"
  BY <1>1 DEF Link
<1>3. QED
  BY <1>2 DEF Revoked

LEMMA IssuedLink ==
  ASSUME NEW s \in Seq(Link), NEW i \in DOMAIN s, NEW p
  PROVE  Issued(s, p)[i] = Revoked(s)[i]
<1>1. Revoked(s) \in Seq(Link) /\ i \in DOMAIN Revoked(s)
  BY RevokedType
<1>2. i \in 1..Len(Revoked(s))
  BY <1>1
<1>3. QED
  BY <1>1, <1>2 DEF Issued

\* Who issues a link revokes the others.
LEMMA IssueSpends ==
  ASSUME TypeOK, NEW u \in Users, NEW p, links' = [links EXCEPT ![u] = Issued(@, p)],
         NEW v \in Users, NEW i \in DOMAIN links[v]
  PROVE  SpentOnce(v, i)
<1>1. links[v] \in Seq(Link)
  BY DEF TypeOK
<1>2. CASE v = u
  <2>1. links'[v][i] = Revoked(links[v])[i]
    BY <1>1, <1>2, IssuedLink DEF TypeOK
  <2>2. QED
    BY <1>1, <2>1, RevokedLink DEF SpentOnce
<1>3. CASE v # u
  BY <1>3 DEF SpentOnce, TypeOK
<1>4. QED
  BY <1>2, <1>3

LEMMA CompleteSpends ==
  ASSUME TypeOK, NEW u \in Users, NEW j \in DOMAIN links[u],
         CompleteAccountSetup(u, j), NEW v \in Users, NEW i \in DOMAIN links[v]
  PROVE  SpentOnce(v, i)
<1>1. /\ links' = [links EXCEPT ![u] = Accepted(links[u], j)]
      /\ links[u][j].state = "pending"
      /\ links[v] \in Seq(Link)
  BY DEF CompleteAccountSetup, TypeOK
<1>2. CASE v = u
  <2>1. users'[v].active /\ users'[v].password
    BY <1>2 DEF CompleteAccountSetup, TypeOK, User
  <2>2. ASSUME links[v][i].state # "pending"
        PROVE  links'[v][i] = links[v][i]
    <3>1. i # j /\ i \in DOMAIN Revoked(links[v])
      BY <1>1, <1>2, <2>2, RevokedType
    <3>2. links'[v][i] = Revoked(links[v])[i]
      BY <1>1, <1>2, <3>1 DEF Accepted, TypeOK
    <3>3. QED
      BY <1>1, <2>2, <3>2, RevokedLink
  <2>3. QED
    BY <2>1, <2>2 DEF SpentOnce
<1>3. CASE v # u
  BY <1>1, <1>3 DEF SpentOnce, TypeOK
<1>4. QED
  BY <1>2, <1>3

LEMMA ExpirySpends ==
  ASSUME TypeOK, NEW u \in Users, NEW j \in DOMAIN links[u], LinkExpires(u, j),
         NEW v \in Users, NEW i \in DOMAIN links[v]
  PROVE  SpentOnce(v, i)
<1>1. /\ links' = [links EXCEPT ![u] =
                     [links[u] EXCEPT ![j] = [links[u][j] EXCEPT !.state = "over"]]]
      /\ links[u][j].state = "pending"
      /\ links[u] \in Seq(Link) /\ links[u][j] \in Link
  BY DEF LinkExpires, TypeOK
<1>2. [links[u][j] EXCEPT !.state = "over"].state = "over"
  BY <1>1 DEF Link
<1>3. CASE v = u /\ i = j
  <2>1. links'[v][i].state = "over"
    BY <1>1, <1>2, <1>3 DEF TypeOK
  <2>2. QED
    BY <1>1, <1>3, <2>1 DEF SpentOnce
<1>4. CASE ~(v = u /\ i = j)
  <2>1. links'[v][i] = links[v][i]
    BY <1>1, <1>4 DEF TypeOK
  <2>2. QED
    BY <2>1 DEF SpentOnce
<1>5. QED
  BY <1>3, <1>4

\* A link to set up an account or to reset a password is good once
\* (completeAccountSetup): whatever is issued, accepted or expires afterwards.
THEOREM LinksGoodOnce == Spec => LinkSpent
<1>1. ASSUME TypeOK, [Next]_vars, NEW v \in Users, NEW i \in DOMAIN links[v]
      PROVE  SpentOnce(v, i)
  <2>1. CASE UNCHANGED links
    BY <2>1 DEF SpentOnce
  <2>2. ASSUME NEW u \in Users, NEW r \in Roles, InviteUser(u, r)
        PROVE  SpentOnce(v, i)
    BY <1>1, <2>2, IssueSpends DEF InviteUser
  <2>3. ASSUME NEW u \in Users, GenerateUserAccessLink(u)
        PROVE  SpentOnce(v, i)
    BY <1>1, <2>3, IssueSpends DEF GenerateUserAccessLink
  <2>4. ASSUME NEW u \in Users, NEW j \in DOMAIN links[u],
               CompleteAccountSetup(u, j) \/ LinkExpires(u, j)
        PROVE  SpentOnce(v, i)
    BY <1>1, <2>4, CompleteSpends, ExpirySpends
  <2>5. ASSUME NEW c \in Calls, NEW u \in Users, UpdateUser(c, u) \/ DeactivateUser(c, u)
        PROVE  UNCHANGED links
    BY <2>5 DEF UpdateUser, DeactivateUser, Read
  <2>6. ASSUME NEW c \in Calls, Check(c) \/ Write(c)
        PROVE  UNCHANGED links
    BY <2>6 DEF Check, Write
  <2>7. UNCHANGED vars => UNCHANGED links
    BY DEF vars
  <2>8. QED
    BY <1>1, <2>1, <2>2, <2>3, <2>4, <2>5, <2>6, <2>7 DEF Next
<1>2. TypeOK /\ [Next]_vars =>
        [\A u \in Users : \A i \in DOMAIN links[u] :
           /\ links[u][i].state # "pending" => links'[u][i] = links[u][i]
           /\ links[u][i].state = "pending" /\ links'[u][i].state = "accepted" =>
                users'[u].active /\ users'[u].password]_vars
  BY <1>1 DEF SpentOnce
<1>3. QED
  BY <1>2, AccessTypes, PTL DEF Spec, LinkSpent
=============================================================================
