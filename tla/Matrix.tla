------------------------------- MODULE Matrix -------------------------------
(***************************************************************************)
(* The permission matrix of the admin pages (src/src/core/dx/clients and    *)
(* permissions/admin-crud.module.ts).  A click on a checkbox becomes one to *)
(* three requests that go by the matrix the page has loaded: make a policy, *)
(* attach it to the role, add the permission; or delete the permission.     *)
(* Policies are global and their names unique; roles belong to a tenant,    *)
(* and the server goes by the session's active organization, which other    *)
(* pages switch.  Roles and policies are also made, attached, renamed and   *)
(* deleted by hand on pages of their own.  One cell of the matrix per role: *)
(* cells share nothing but the policies.                                    *)
(***************************************************************************)
EXTENDS Integers, FiniteSets

CONSTANTS
  Orgs,       \* tenants
  Roles,
  HomeOf,     \* the tenant of a role
  Names,      \* of roles; the matrix gives a policy it makes that of the role
  Policies,   \* bound: policies at a time
  Pages,      \* open matrix pages of one session
  MaxRows,    \* bound: how often a permission is added to a policy
  MaxMishaps, \* bound: requests that fail, and changes by hand
  NoPolicy,
  NoName,     \* of a role or a policy that is not made yet
  Gone        \* of one that is deleted: ids are not used again

ASSUME MatrixAssumption ==
  /\ HomeOf \in [Roles -> Orgs]
  /\ {NoName, Gone} \cap Names = {} /\ NoName # Gone
  /\ NoPolicy \notin Policies
  /\ MaxRows \in Nat /\ MaxMishaps \in Nat

VARIABLES
  active,     \* session.activeOrganizationId
  title,      \* the name of each role
  policy,     \* the name of each policy
  attached,   \* role_policies
  row,        \* the permission of each policy: 0, or which of those it has had
  added,      \* how many it has had
  view,       \* what a page has loaded: per role its name, permission and first policy
  toggle,     \* the click in progress
  astray,     \* history: pages whose click goes by a policy taken from the role since
  spoilt,     \* history: policies made by hand, made and not attached, or taken from
              \* a role by hand, and not attached since
  mishaps

matrixVars ==
  <<active, title, policy, attached, row, added, view, toggle, astray, spoilt, mishaps>>

NoGrant == [policy |-> NoPolicy, id |-> 0]
Grant == [policy : Policies, id : 1..MaxRows]

\* A column of the matrix; roles of other tenants have none.
Hidden == [shown |-> FALSE]
Column ==
  [shown : {TRUE}, name : Names, grant : Grant \cup {NoGrant}, first : Policies \cup {NoPolicy}]

Settled == [at |-> "rest"]
Toggle ==
  [at : {"policy"}, role : Roles, name : Names, policy : {NoPolicy}, id : {0}]
    \cup [at : {"attach", "permit"}, role : Roles, name : Names, policy : Policies, id : {0}]
    \cup [at : {"revoke"}, role : Roles, name : Names, policy : Policies, id : 1..MaxRows]

\* Type invariant of the pages and the tables.
MatrixTypeOK ==
  /\ active \in Orgs
  /\ title \in [Roles -> Names \cup {NoName, Gone}]
  /\ policy \in [Policies -> Names \cup {NoName, Gone}]
  /\ attached \subseteq Roles \X Policies
  /\ row \in [Policies -> 0..MaxRows]
  /\ added \in [Policies -> 0..MaxRows]
  /\ \A g \in Pages, r \in Roles : view[g][r] = Hidden \/ view[g][r] \in Column
  /\ \A g \in Pages : toggle[g] = Settled \/ toggle[g] \in Toggle
  /\ astray \subseteq Pages
  /\ spoilt \subseteq Policies
  /\ mishaps \in 0..MaxMishaps

\* The unique index over the names of a tenant's roles.
TitleFree(r, n) == \A s \in Roles : HomeOf[s] = HomeOf[r] => title[s] # n

MatrixInit ==
  /\ active \in Orgs
  /\ title \in [Roles -> Names \cup {NoName}]
  /\ \A r, s \in Roles :
       r # s /\ HomeOf[r] = HomeOf[s] => title[r] = NoName \/ title[r] # title[s]
  /\ policy = [p \in Policies |-> NoName]
  /\ attached = {}
  /\ row = [p \in Policies |-> 0]
  /\ added = [p \in Policies |-> 0]
  /\ view = [g \in Pages |-> [r \in Roles |-> Hidden]]
  /\ toggle = [g \in Pages |-> Settled]
  /\ astray = {}
  /\ spoilt = {}
  /\ mishaps = 0

-----------------------------------------------------------------------------
PoliciesOf(r) == {p \in Policies : <<r, p>> \in attached}

\* bootstrapHubOperatorSession() of a page, useTenantRoleNames() of another
SetActive(t) ==
  /\ active' = t
  /\ UNCHANGED <<title, policy, attached, row, added, view, toggle, astray, spoilt, mishaps>>

\* buildMatrix(): the joined rows come in no order; the first policy of a role
\* is its primary one, the last permission of a cell stays in it.
Columns(r) ==
  IF HomeOf[r] # active \/ title[r] \notin Names THEN {Hidden} ELSE
    {[shown |-> TRUE, name |-> title[r], grant |-> g, first |-> p] :
       g \in IF \A q \in PoliciesOf(r) : row[q] = 0 THEN {NoGrant}
             ELSE {[policy |-> q, id |-> row[q]] : q \in {x \in PoliciesOf(r) : row[x] # 0}},
       p \in IF PoliciesOf(r) = {} THEN {NoPolicy} ELSE PoliciesOf(r)}

\* The matrix query, first or after invalidateQueries().
Load(g) ==
  /\ \E v \in [Roles -> UNION {Columns(r) : r \in Roles}] :
       /\ \A r \in Roles : v[r] \in Columns(r)
       /\ view' = [view EXCEPT ![g] = v]
  /\ UNCHANGED <<active, title, policy, attached, row, added, toggle, astray, spoilt, mishaps>>

-----------------------------------------------------------------------------
\* onCheckedChange(): no checkbox takes a click while one is in progress.
Click(g, r) ==
  LET c == view[g][r]
  IN  /\ toggle[g] = Settled
      /\ c # Hidden
      /\ toggle' = [toggle EXCEPT ![g] =
           IF c.grant # NoGrant
           THEN [at |-> "revoke", role |-> r, name |-> c.name,
                 policy |-> c.grant.policy, id |-> c.grant.id]
           ELSE [at |-> IF c.first = NoPolicy THEN "policy" ELSE "permit",
                 role |-> r, name |-> c.name, policy |-> c.first, id |-> 0]]
      /\ astray' = IF c.grant = NoGrant /\ c.first # NoPolicy /\ c.first \notin PoliciesOf(r)
                   THEN astray \cup {g} ELSE astray \ {g}
      /\ UNCHANGED <<active, title, policy, attached, row, added, view, spoilt, mishaps>>

Ends(g) == toggle' = [toggle EXCEPT ![g] = Settled]

\* The unique index over the names of the policies, of all tenants.
NameTaken(name) == \E p \in Policies : policy[p] = name

\* POST /hub/admin/policies; a name that is taken is an error.
MakePolicy(g) ==
  LET name == toggle[g].name
  IN  /\ toggle[g].at = "policy"
      /\ IF NameTaken(name)
         THEN Ends(g) /\ UNCHANGED policy
         ELSE \E p \in Policies :
                /\ policy[p] = NoName
                /\ policy' = [policy EXCEPT ![p] = name]
                /\ toggle' = [toggle EXCEPT ![g] = [@ EXCEPT !.at = "attach", !.policy = p]]
      /\ UNCHANGED <<active, title, attached, row, added, view, astray, spoilt, mishaps>>

\* Variant of Attach: a refusal is not noticed.
AttachUnchecked(g) ==
  LET t == toggle[g]
  IN  /\ t.at = "attach"
      /\ attached' = IF HomeOf[t.role] = active THEN attached \cup {<<t.role, t.policy>>} ELSE attached
      /\ toggle' = [toggle EXCEPT ![g].at = "permit"]
      /\ UNCHANGED <<active, title, policy, row, added, view, astray, spoilt, mishaps>>

\* attachToRole(): the role must be there in the active tenant, the link new.
Attachable(r, p) ==
  /\ HomeOf[r] = active /\ title[r] \in Names
  /\ policy[p] # Gone
  /\ <<r, p>> \notin attached

\* POST /hub/admin/permissions/attach; a refusal ends the click.
Attach(g) ==
  LET t == toggle[g]
  IN  /\ t.at = "attach"
      /\ IF Attachable(t.role, t.policy)
         THEN /\ attached' = attached \cup {<<t.role, t.policy>>}
              /\ toggle' = [toggle EXCEPT ![g].at = "permit"]
              /\ spoilt' = spoilt \ {t.policy}
         ELSE /\ Ends(g)
              /\ spoilt' = spoilt \cup {t.policy}
              /\ UNCHANGED attached
      /\ UNCHANGED <<active, title, policy, row, added, view, astray, mishaps>>

\* The foreign key to the policy and the unique index over its permissions.
Creatable(p) == policy[p] # Gone /\ row[p] = 0

\* POST /hub/admin/permissions
Permit(g) ==
  LET p == toggle[g].policy
  IN  /\ toggle[g].at = "permit"
      /\ Ends(g)
      /\ IF Creatable(p)
         THEN /\ added[p] < MaxRows
              /\ row' = [row EXCEPT ![p] = added[p] + 1]
              /\ added' = [added EXCEPT ![p] = @ + 1]
         ELSE UNCHANGED <<row, added>>
      /\ UNCHANGED <<active, title, policy, attached, view, astray, spoilt, mishaps>>

\* DELETE /hub/admin/permissions/<id>: an id that is gone is an error.
RevokeGrant(g) ==
  LET t == toggle[g]
  IN  /\ t.at = "revoke"
      /\ Ends(g)
      /\ row' = IF row[t.policy] = t.id THEN [row EXCEPT ![t.policy] = 0] ELSE row
      /\ UNCHANGED <<active, title, policy, attached, added, view, astray, spoilt, mishaps>>

\* A request of the click fails: toast.error(), and the matrix is not loaded again.
Fail(g) ==
  /\ mishaps < MaxMishaps
  /\ mishaps' = mishaps + 1
  /\ toggle[g] # Settled
  /\ Ends(g)
  /\ spoilt' = IF toggle[g].at = "attach" THEN spoilt \cup {toggle[g].policy} ELSE spoilt
  /\ UNCHANGED <<active, title, policy, attached, row, added, view, astray>>

\* The clicks that add to policy p for a role of R.
GoingBy(p, R) ==
  {g \in Pages : toggle[g] # Settled /\ toggle[g].at # "revoke"
                   /\ toggle[g].policy = p /\ toggle[g].role \in R}

\* The page of the roles: a new role.
CreateRole(r, n) ==
  /\ title[r] = NoName
  /\ HomeOf[r] = active
  /\ TitleFree(r, n)
  /\ title' = [title EXCEPT ![r] = n]
  /\ UNCHANGED <<active, policy, attached, row, added, view, toggle, astray, spoilt, mishaps>>

\* A change by hand.
ByHand ==
  /\ mishaps < MaxMishaps
  /\ mishaps' = mishaps + 1

\* PATCH /hub/admin/roles/<id>: the role has another name, its policies do not.
RenameRole(r, n) ==
  /\ ByHand
  /\ HomeOf[r] = active /\ title[r] \in Names
  /\ TitleFree(r, n)
  /\ title' = [title EXCEPT ![r] = n]
  /\ UNCHANGED <<active, policy, attached, row, added, view, toggle, astray, spoilt>>

\* The page of the roles: delete, with the links to policies and not the policies.
DeleteRole(r) ==
  /\ ByHand
  /\ HomeOf[r] = active /\ title[r] \in Names
  /\ title' = [title EXCEPT ![r] = Gone]
  /\ attached' = {a \in attached : a[1] # r}
  /\ astray' = astray \cup UNION {GoingBy(p, {r}) : p \in PoliciesOf(r)}
  /\ spoilt' = spoilt \cup PoliciesOf(r)
  /\ UNCHANGED <<active, policy, row, added, view, toggle>>

\* The page of the roles: attach.
AttachByHand(r, p) ==
  /\ ByHand
  /\ policy[p] \in Names
  /\ Attachable(r, p)
  /\ attached' = attached \cup {<<r, p>>}
  /\ spoilt' = spoilt \ {p}
  /\ UNCHANGED <<active, title, policy, row, added, view, toggle, astray>>

\* The page of the roles: detach.
Detach(r, p) ==
  /\ ByHand
  /\ HomeOf[r] = active
  /\ <<r, p>> \in attached
  /\ attached' = attached \ {<<r, p>>}
  /\ astray' = astray \cup GoingBy(p, {r})
  /\ spoilt' = spoilt \cup {p}
  /\ UNCHANGED <<active, title, policy, row, added, view, toggle>>

\* The page of the policies: a new policy, under a name the matrix may want.
CreatePolicy(p, n) ==
  /\ ByHand
  /\ policy[p] = NoName
  /\ ~ NameTaken(n)
  /\ policy' = [policy EXCEPT ![p] = n]
  /\ spoilt' = spoilt \cup {p}
  /\ UNCHANGED <<active, title, attached, row, added, view, toggle, astray>>

\* The page of the policies: delete, with what refers to the policy.
DeletePolicy(p) ==
  /\ ByHand
  /\ policy[p] \in Names
  /\ policy' = [policy EXCEPT ![p] = Gone]
  /\ attached' = {a \in attached : a[2] # p}
  /\ row' = [row EXCEPT ![p] = 0]
  /\ astray' = astray \cup GoingBy(p, Roles)
  /\ UNCHANGED <<active, title, added, view, toggle, spoilt>>

-----------------------------------------------------------------------------
MatrixNext ==
  \/ \E t \in Orgs : SetActive(t)
  \/ \E g \in Pages :
       \/ Load(g) \/ MakePolicy(g) \/ Attach(g) \/ Permit(g) \/ RevokeGrant(g) \/ Fail(g)
       \/ \E r \in Roles : Click(g, r)
  \/ \E r \in Roles, p \in Policies : AttachByHand(r, p) \/ Detach(r, p)
  \/ \E r \in Roles : DeleteRole(r) \/ \E n \in Names : CreateRole(r, n) \/ RenameRole(r, n)
  \/ \E p \in Policies : DeletePolicy(p) \/ \E n \in Names : CreatePolicy(p, n)

MatrixSpec == MatrixInit /\ [][MatrixNext]_matrixVars

-----------------------------------------------------------------------------
\* The matrix never adds a permission to a policy its role does not have: the
\* requests of a click go by what the page loaded and by the active organization,
\* which others switch between them.  Only when the policy was taken from the role
\* by hand since the load, or the role deleted, does the permission go to whoever
\* has that policy.
GrantReachesRole ==
  \A g \in Pages \ astray : toggle[g] # Settled /\ toggle[g].at = "permit"
    => <<toggle[g].role, toggle[g].policy>> \in attached

\* Clicks leave no policy behind that no role has: its name would be taken, in every
\* tenant, and the matrix could give no role of that name a first permission again.
\* A policy is attached to a role, or a page is about to attach it, unless its attach
\* failed or was refused, it was taken from its role or made by hand, or its role was
\* deleted.  A role may still be refused its name, which is another tenant's.
PoliciesHaveRoles ==
  \A p \in Policies \ spoilt : policy[p] \in Names =>
    \E r \in Roles :
      <<r, p>> \in attached \/ \E g \in GoingBy(p, {r}) : toggle[g].at = "attach"

\* Clicks of overlapping pages put permissions where they belong and leave no policy
\* without a role, while roles and policies are changed by hand.
GrantsAreSound == GrantReachesRole /\ PoliciesHaveRoles
=============================================================================
