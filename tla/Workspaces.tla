------------------------------ MODULE Workspaces ------------------------------
(***************************************************************************)
(* Users, workspaces and their members, and the rows kept in a workspace:  *)
(* src/apps/identity and the term base and knowledge views of              *)
(* src/apps/knowledge.                                                     *)
(*                                                                         *)
(* A request is let in (the middleware), is checked, and writes: each is a *)
(* step, since statements run in autocommit.  The database refuses a row   *)
(* that refers to one that is gone, and deletes with a row what refers to  *)
(* it.  A user is the identity of its row, which no other row ever has; an *)
(* address and a name are one user's.  Tokens and codes are left out: who  *)
(* is active can sign in at any time, and any address can be sent a code.  *)
(***************************************************************************)
CONSTANTS
  User,       \* users
  First,      \* the administrator of the first day
  Workspace,  \* workspaces
  Base,       \* knowledge bases and term bases
  Term,       \* terms of term bases
  Request     \* requests in flight

ASSUME WorkspaceAssumption == First \in User

VARIABLES
  user,     \* user rows
  ws,       \* workspace rows: their owner
  member,   \* the members of a workspace and their roles
  base,     \* rows of bases, their kind, workspace and maker
  term,     \* the base of a term
  req,      \* where a request is
  torn      \* workspaces whose creation failed in the middle

spaces == <<ws, member, torn>>
content == <<base, term>>
vars == <<user, spaces, content, req>>

Role == {"ADMIN", "WORKSPACE_MANAGE", "USER"}
Never == [is |-> "never"]
Gone == [is |-> "gone"]
Is(row) == row \notin {Never, Gone}

\* ROLE_PERMISSIONS, of what the requests below ask for.
Permissions == [
  ADMIN |-> {"user.manage", "workspace.manage", "knowledge.write"},
  WORKSPACE_MANAGE |-> {"user.manage", "knowledge.write"},
  USER |-> {}]

Idle == [at |-> "idle"]
Ready(q, what) == req[q].at = what
May(q, permission) == permission \in Permissions[req[q].role]
Go(q, row) == req' = [req EXCEPT ![q] = row]
Finish(q) == Go(q, Idle)
By(q) == req[q].user

Account(role) == [is |-> "row", role |-> role, active |-> TRUE]

Init ==
  /\ user = [u \in User |-> IF u = First THEN Account("ADMIN") ELSE Never]
  /\ ws = [w \in Workspace |-> Never] /\ member = [w \in Workspace |-> [u \in {} |-> "USER"]]
  /\ base = [b \in Base |-> Never] /\ term = [t \in Term |-> Never]
  /\ req = [q \in Request |-> Idle] /\ torn = {}

-----------------------------------------------------------------------------
(* Users.                                                                  *)

Active(u) == Is(user[u]) /\ user[u].active

\* The middleware: the user behind an access token, as it is now.
Enter(q, u) ==
  /\ req[q] = Idle /\ Active(u)
  /\ Go(q, [at |-> "in", user |-> u, role |-> user[u].role])
  /\ UNCHANGED <<user, spaces, content>>

\* With the code that was sent to its address.
Register(u) ==
  /\ user[u] = Never
  /\ user' = [user EXCEPT ![u] = Account("USER")]
  /\ UNCHANGED <<spaces, content, req>>

\* Whoever is signed in.
PostUser(q, u, role) ==
  /\ Ready(q, "in") /\ user[u] = Never
  /\ user' = [user EXCEPT ![u] = Account(role)]
  /\ Finish(q) /\ UNCHANGED <<spaces, content>>

ReadUser(q, u) ==
  /\ Ready(q, "in") /\ May(q, "user.manage") /\ Is(user[u])
  /\ Go(q, [at |-> "put user", of |-> u, row |-> user[u]])
  /\ UNCHANGED <<user, spaces, content>>

\* The whole row is written, and inserted when it is gone.
SaveUser(q) == LET u == req[q].of IN
  /\ Ready(q, "put user")
  /\ \E role \in Role, active \in BOOLEAN :
       user' = [user EXCEPT ![u] = [req[q].row EXCEPT !.role = role, !.active = active]]
  /\ Finish(q) /\ UNCHANGED <<spaces, content>>

\* Users, their workspaces and memberships, and the bases of either.
DeleteUsers(us) ==
  LET spaceless == {w \in Workspace : Is(ws[w]) /\ ws[w].owner \in us}
      lost == {b \in Base : Is(base[b]) /\ (base[b].user \in us \/ base[b].ws \in spaceless)}
  IN
  /\ user' = [u \in User |-> IF u \in us THEN Gone ELSE user[u]]
  /\ ws' = [w \in Workspace |-> IF w \in spaceless THEN Gone ELSE ws[w]]
  /\ member' = [w \in Workspace |->
       [u \in IF w \in spaceless THEN {} ELSE DOMAIN member[w] \ us |-> member[w][u]]]
  /\ base' = [b \in Base |-> IF b \in lost THEN Gone ELSE base[b]]
  /\ term' = [t \in Term |-> IF Is(term[t]) /\ term[t].base \in lost THEN Gone ELSE term[t]]

BatchDelete(q, us) ==
  /\ Ready(q, "in") /\ May(q, "user.manage") /\ us \subseteq {u \in User : Is(user[u])}
  /\ DeleteUsers(us)
  /\ Finish(q) /\ UNCHANGED <<torn>>

ManageUsers ==
  \/ \E u \in User : Register(u) \/ \E q \in Request : Enter(q, u)
  \/ \E q \in Request :
       \/ SaveUser(q)
       \/ \E u \in User : ReadUser(q, u) \/ \E role \in Role : PostUser(q, u, role)
       \/ \E us \in SUBSET User : us # {} /\ BatchDelete(q, us)

-----------------------------------------------------------------------------
(* Workspaces and members.                                                 *)

Members(w) == DOMAIN member[w]
Join(w, u, role) == member' = [member EXCEPT ![w] =
  [v \in DOMAIN @ \cup {u} |-> IF v = u THEN role ELSE @[v]]]

EnsureMember(w, u) == Is(ws[w]) /\ u \in Members(w)

\* The workspace, and then the membership of its owner.
CreateWorkspace(q, w) ==
  /\ Ready(q, "in") /\ May(q, "workspace.manage") /\ ws[w] = Never
  /\ IF Is(user[By(q)])
     THEN /\ ws' = [ws EXCEPT ![w] = [is |-> "row", owner |-> By(q)]]
          /\ Go(q, [at |-> "own", user |-> By(q), ws |-> w])
     ELSE Finish(q) /\ UNCHANGED ws
  /\ UNCHANGED <<user, member, content, torn>>

\* Variant: the owner is no member yet.
OwnNothing(q) ==
  /\ Ready(q, "own") /\ Finish(q)
  /\ UNCHANGED <<user, ws, member, torn, content>>

Own(q) == LET w == req[q].ws IN
  /\ Ready(q, "own") /\ Finish(q)
  /\ \/ Is(ws[w]) /\ Is(user[By(q)]) /\ Join(w, By(q), "WORKSPACE_MANAGE") /\ UNCHANGED torn
     \/ torn' = torn \cup {w} /\ UNCHANGED member
  /\ UNCHANGED <<user, ws, content>>

CheckManager(q, w) ==
  /\ Ready(q, "in") /\ May(q, "workspace.manage")
  /\ EnsureMember(w, By(q)) /\ member[w][By(q)] \in {"WORKSPACE_MANAGE", "ADMIN"}
  /\ Go(q, [at |-> "member", user |-> By(q), ws |-> w])
  /\ UNCHANGED <<user, spaces, content>>

\* The member that is written is the one that asks, not the one it names.
PostMember(q, role) == LET w == req[q].ws IN
  /\ Ready(q, "member") /\ Finish(q)
  /\ IF Is(ws[w]) /\ Is(user[By(q)]) THEN Join(w, By(q), role) ELSE UNCHANGED member
  /\ UNCHANGED <<user, ws, torn, content>>

ManageSpaces == \E q \in Request :
  \/ \E w \in Workspace : CreateWorkspace(q, w) \/ CheckManager(q, w)
  \/ Own(q) \/ \E role \in Role : PostMember(q, role)

-----------------------------------------------------------------------------
(* Bases and terms.                                                        *)

\* Variant: whoever may write knowledge may write it here.
CheckNoMember(q, w, kind) ==
  /\ Ready(q, "in") /\ May(q, "knowledge.write") /\ Is(ws[w])
  /\ Go(q, [at |-> "base", user |-> By(q), ws |-> w, kind |-> kind])
  /\ UNCHANGED <<user, spaces, content>>

CheckSpace(q, w, kind) ==
  /\ Ready(q, "in") /\ May(q, "knowledge.write") /\ EnsureMember(w, By(q))
  /\ Go(q, [at |-> "base", user |-> By(q), ws |-> w, kind |-> kind])
  /\ UNCHANGED <<user, spaces, content>>

\* A knowledge base is kept also when its index cannot be made.
PostBase(q, b) == LET w == req[q].ws IN
  /\ Ready(q, "base") /\ base[b] = Never /\ Finish(q)
  /\ base' = IF Is(ws[w]) /\ Is(user[By(q)])
             THEN [base EXCEPT ![b] = [is |-> req[q].kind, ws |-> w, user |-> By(q)]]
             ELSE base
  /\ UNCHANGED <<user, spaces, term>>

CheckBase(q, b, next) ==
  /\ Ready(q, "in") /\ May(q, "knowledge.write") /\ Is(base[b])
  /\ EnsureMember(base[b].ws, By(q))
  /\ base[b].is = IF next = "term" THEN "termbase" ELSE "knowledge"
  /\ Go(q, [at |-> next, user |-> By(q), base |-> b, row |-> base[b]])
  /\ UNCHANGED <<user, spaces, content>>

\* A knowledge base is written as a whole, and inserted when it is gone.
SaveBase(q) == LET b == req[q].base row == req[q].row IN
  /\ Ready(q, "put base") /\ Finish(q)
  /\ base' = IF Is(ws[row.ws]) /\ Is(user[row.user]) THEN [base EXCEPT ![b] = row] ELSE base
  /\ UNCHANGED <<user, spaces, term>>

\* A term base is deleted by whoever may write; a knowledge base cannot be.
DeleteTermbase(q, b) ==
  /\ Ready(q, "in") /\ May(q, "knowledge.write")
  /\ Is(base[b]) /\ base[b].is = "termbase"
  /\ base' = [base EXCEPT ![b] = Gone]
  /\ term' = [t \in Term |-> IF Is(term[t]) /\ term[t].base = b THEN Gone ELSE term[t]]
  /\ Finish(q) /\ UNCHANGED <<user, spaces>>

PostTerm(q, t) == LET b == req[q].base IN
  /\ Ready(q, "term") /\ term[t] = Never /\ Finish(q)
  /\ term' = IF Is(base[b]) THEN [term EXCEPT ![t] = [is |-> "term", base |-> b]] ELSE term
  /\ UNCHANGED <<user, spaces, base>>

DeleteTerm(q, t) ==
  /\ Ready(q, "in") /\ May(q, "knowledge.write") /\ Is(term[t])
  /\ term' = [term EXCEPT ![t] = Gone]
  /\ Finish(q) /\ UNCHANGED <<user, spaces, base>>

ManageContent == \E q \in Request :
  \/ \E w \in Workspace, kind \in {"knowledge", "termbase"} : CheckSpace(q, w, kind)
  \/ \E b \in Base : \/ PostBase(q, b) \/ DeleteTermbase(q, b)
                     \/ \E next \in {"term", "put base"} : CheckBase(q, b, next)
  \/ \E t \in Term : PostTerm(q, t) \/ DeleteTerm(q, t)
  \/ SaveBase(q)

\* A request ends without an effect: refused, or only reading.
Leave(q) ==
  /\ req[q] # Idle /\ ~Ready(q, "own") /\ Finish(q)
  /\ UNCHANGED <<user, spaces, content>>

Next == ManageUsers \/ ManageSpaces \/ ManageContent \/ \E q \in Request : Leave(q)

Spec == Init /\ [][Next]_vars

-----------------------------------------------------------------------------
(* Properties.                                                             *)

(***************************************************************************)
(* A workspace that was created completely has its owner as a member,      *)
(* whoever was deleted meanwhile (identity/services.py, WorkspaceService). *)
(***************************************************************************)
OwnerIsMember == \A w \in Workspace :
  Is(ws[w]) /\ w \notin torn /\ ~(\E q \in Request : Ready(q, "own") /\ req[q].ws = w)
    => ws[w].owner \in Members(w)

(***************************************************************************)
(* Who made a base is a member of its workspace, although the membership   *)
(* was looked up before the base was written, and users are deleted and    *)
(* written again in between (knowledge/views.py, KnowledgeListView,        *)
(* TermbaseListView).                                                      *)
(***************************************************************************)
MakerIsMember == \A b \in Base :
  Is(base[b]) => Is(ws[base[b].ws]) /\ base[b].user \in Members(base[b].ws)
===============================================================================
