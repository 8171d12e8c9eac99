------------------------------ MODULE Accounts ------------------------------
(***************************************************************************)
(* The user table and the units of work that race on it: registration      *)
(* with a captcha (app/user), binding and signing in from the WeChat       *)
(* mini-app (app/auth), profile edits, and the operator's script that      *)
(* creates a user and then attaches a phone and an identity.               *)
(*                                                                         *)
(* A request checks with reads of their own sessions, which see committed  *)
(* rows, and writes in the scoped session's transaction.  Between two      *)
(* awaits of one request any other may move.  The database (PostgreSQL,    *)
(* READ COMMITTED, reader and writer the same) keeps the unique            *)
(* constraints: a flush waits for the transaction that holds one of its    *)
(* keys, and fails when the key is committed.                              *)
(*                                                                         *)
(* A user is named by the email it was created with, which is unique and   *)
(* which nothing changes; a user of the mini-app has the email             *)
(* wx_<openid>@miniapp.local, so it is named by its openid.                *)
(***************************************************************************)
EXTENDS Naturals, FiniteSets, FiniteSetsExt

CONSTANTS Requests,  \* requests served at the same time
          Emails,    \* emails that web users and the script's users have
          OpenIds,   \* identities WeChat reports, one provider
          Unions,    \* unionids
          Phones, Nicks, Codes,
          UnionOf,   \* the unionid behind an openid
          NickOf,    \* wx_ and the first 12 characters of an openid
          Calls,     \* the calls the requests of an instance may be
          None       \* Python's None

Users == Emails \cup OpenIds

ASSUME ConstantsAssumption ==
  /\ UnionOf \in [OpenIds -> Unions]
  /\ NickOf \in [OpenIds -> Nicks]
  /\ None \notin Users \cup Unions \cup Phones \cup Nicks \cup Codes
  /\ Emails \cap OpenIds = {}

VARIABLES user,   \* committed rows of user and user_linked_account
          dirty,  \* what a request's open transaction has flushed
          code,   \* the captcha Redis keeps for an email
          ask,    \* what a request was called with
          at,     \* the await a request is suspended at
          who,    \* the user a request has settled on
          found,  \* a mini-app request found its openid linked
          copy,   \* the aggregate a request has loaded and changed
          seen    \* the row that save() has selected to write it to

vars == <<user, dirty, code, ask, at, who, found, copy, seen>>

-----------------------------------------------------------------------------
(* Rows, and what a unit of work does to them. *)

NoRow == [nick |-> None, phone |-> None, links |-> {}]
NoCode == [value |-> None, fresh |-> FALSE]
Clean == [user |-> None, base |-> NoRow, row |-> NoRow]

Link == [openid : OpenIds, union : Unions \cup {None}]
Row == [nick : Nicks, phone : Phones \cup {None}, links : SUBSET Link]

IdsOf(row) == {l.openid : l \in row.links}
PhoneOwners(p) == {u \in Users : user[u].phone = p}
IdOwners(w) == {u \in Users : w \in IdsOf(user[u])}
UnionOwners(n) == {u \in Users : \E l \in user[u].links : l.union = n}

\* A flush writes the columns in which the aggregate differs from the row that
\* save() has selected, inserts its further links and deletes the links it
\* lacks; the rest of the row is whatever it has become since.
Column(now, base, mine) == IF mine = base THEN now ELSE mine
Merge(now, base, row) ==
  [nick  |-> Column(now.nick, base.nick, row.nick),
   phone |-> Column(now.phone, base.phone, row.phone),
   links |-> (now.links \cup (row.links \ base.links)) \ (base.links \ row.links)]

\* The table as a request's own transaction sees it.
View(r) ==
  IF dirty[r] = Clean THEN user
  ELSE [user EXCEPT ![dirty[r].user] = Merge(@, dirty[r].base, dirty[r].row)]

\* Keys and rows that writing `row` over `base` locks until the commit.
Touched(u, base, row) ==
  LET nicks  == SymDiff({base.nick}, {row.nick}) \ {None}
      phones == SymDiff({base.phone}, {row.phone}) \ {None}
  IN  {<<"nick", n>> : n \in nicks} \cup {<<"phone", p>> : p \in phones}
      \cup {<<"user", u>> : x \in nicks \cup phones}
      \cup {<<"openid", l.openid>> : l \in SymDiff(row.links, base.links)}

Blocked(r, u, base, row) ==
  \E q \in Requests \ {r} :
    /\ dirty[q] # Clean
    /\ Touched(u, base, row) \cap Touched(dirty[q].user, dirty[q].base, dirty[q].row) # {}

\* No constraint on the phone column: the service's own check must do.
ConflictsButPhone(u, base, row) ==
  \/ base = NoRow /\ user[u] # NoRow
  \/ row.nick # base.nick /\ \E v \in Users \ {u} : user[v].nick = row.nick
  \/ \E l \in row.links \ base.links : IdOwners(l.openid) # {}

\* A unique constraint refuses the flush: the email, the nickname, the phone,
\* or (provider, provider_account_id).
Conflicts(u, base, row) ==
  \/ base = NoRow /\ user[u] # NoRow
  \/ row.nick # base.nick /\ \E v \in Users \ {u} : user[v].nick = row.nick
  \/ row.phone \notin {base.phone, None} /\ PhoneOwners(row.phone) \ {u} # {}
  \/ \E l \in row.links \ base.links : IdOwners(l.openid) # {}

-----------------------------------------------------------------------------
(* Requests. *)

\* WeChat may or may not report the unionid of an openid.
UnionsGiven(w) == IF w = None THEN {None} ELSE {UnionOf[w], None}

\* What the script accepts, from its arguments or its prompts: a unionid only
\* with an openid.
ScriptInputs ==
  {a \in [kind : {"script"}, email : Emails, nick : Nicks, phone : Phones \cup {None},
          openid : OpenIds \cup {None}, union : Unions \cup {None}] :
     a.union \in UnionsGiven(a.openid)}

MiniAppInputs ==
  {a \in [kind : {"bind"}, openid : OpenIds, phone : Phones, union : Unions \cup {None}]
          \cup [kind : {"signin"}, openid : OpenIds, phone : {None}, union : Unions \cup {None}] :
     a.union \in UnionsGiven(a.openid)}

\* What the endpoints, the script and the avatar activity are called with.
\* A profile call that changes no nickname stands for update_profile,
\* assign_roles and set_avatar on columns that are not modelled.
Asks ==
  [kind : {"captcha"}, email : Emails]
  \cup [kind : {"register"}, email : Emails, nick : Nicks, code : Codes]
  \cup [kind : {"profile"}, email : Users, nick : Nicks \cup {None}]
  \cup ScriptInputs \cup MiniAppInputs

ASSUME CallsAssumption == Calls \subseteq Asks

NoAsk == [kind |-> "none"]
MiniApp(r) == ask[r].kind \in {"bind", "signin"}

\* The first await of each use case.
Entry(kind) ==
  CASE kind = "captcha" -> "ttl"
    [] kind = "register" -> "verify"
    [] kind = "script" -> "ensure"
    [] kind \in {"bind", "signin"} -> "byUnion"
    [] kind = "profile" -> "load"

Places == {"idle", "ttl", "store", "verify", "ensure", "insert", "created", "spend", "byUnion",
           "byOpenid", "byPhone", "owner", "linked", "load", "reread", "flush", "commit"}

Begin(r) ==
  /\ at[r] = "idle"
  /\ \E a \in Calls :
       /\ ask' = [ask EXCEPT ![r] = a]
       /\ at' = [at EXCEPT ![r] = Entry(a.kind)]
       /\ who' = [who EXCEPT ![r] = IF a.kind = "profile" THEN a.email ELSE None]
  /\ UNCHANGED <<user, dirty, code, found, copy, seen>>

\* The call is over and its session removed; what it has flushed and not
\* committed is gone.
End(r) ==
  /\ ask' = [ask EXCEPT ![r] = NoAsk]
  /\ at' = [at EXCEPT ![r] = "idle"]
  /\ who' = [who EXCEPT ![r] = None]
  /\ found' = [found EXCEPT ![r] = FALSE]
  /\ copy' = [copy EXCEPT ![r] = NoRow]
  /\ seen' = [seen EXCEPT ![r] = NoRow]
  /\ dirty' = [dirty EXCEPT ![r] = Clean]

\* The use case raises.
Refuse(r) == End(r) /\ UNCHANGED <<user, code>>

\* Its task or its process ends, or a store it depends on fails.
Die(r) == at[r] # "idle" /\ Refuse(r)

Go(r, place) == at' = [at EXCEPT ![r] = place]

\* A read, and a check that lets the request pass.
Pass(r, place) == Go(r, place) /\ UNCHANGED <<user, dirty, code, ask, who, found, copy, seen>>

Settle(r, u, place) ==
  /\ who' = [who EXCEPT ![r] = u]
  /\ Go(r, place)
  /\ UNCHANGED <<user, dirty, code, ask, copy, seen>>

-----------------------------------------------------------------------------
(* Captcha. *)

\* Too frequent while more than 240 seconds are left; a Redis that does not
\* answer counts as no code.
Ttl(r) ==
  /\ at[r] = "ttl"
  /\ \/ code[ask[r].email].fresh /\ Refuse(r)
     \/ Pass(r, "store")

Store(r) ==
  /\ at[r] = "store"
  /\ \E c \in Codes : code' = [code EXCEPT ![ask[r].email] = [value |-> c, fresh |-> TRUE]]
  /\ End(r)
  /\ UNCHANGED user

\* More than 240 of the 300 seconds have been left until now.
Age(e) ==
  /\ code[e].fresh
  /\ code' = [code EXCEPT ![e].fresh = FALSE]
  /\ UNCHANGED <<user, dirty, ask, at, who, found, copy, seen>>

Expire(e) ==
  /\ code[e] # NoCode /\ ~code[e].fresh
  /\ code' = [code EXCEPT ![e] = NoCode]
  /\ UNCHANGED <<user, dirty, ask, at, who, found, copy, seen>>

\* verify_code's default takes the code away as soon as it has matched.
VerifyDeleting(r) ==
  /\ at[r] = "verify"
  /\ IF code[ask[r].email].value = ask[r].code
     THEN /\ code' = [code EXCEPT ![ask[r].email] = NoCode]
          /\ Go(r, "ensure")
          /\ UNCHANGED <<user, dirty, ask, who, found, copy, seen>>
     ELSE Refuse(r)

Verify(r) ==
  /\ at[r] = "verify"
  /\ IF code[ask[r].email].value = ask[r].code THEN Pass(r, "ensure") ELSE Refuse(r)

\* delete_code after the account is committed; a Redis that cannot be reached
\* is logged and the request succeeds.
SpendCode(r) ==
  /\ at[r] = "spend"
  /\ code' \in {code, [code EXCEPT ![ask[r].email] = NoCode]}
  /\ End(r)
  /\ UNCHANGED user

-----------------------------------------------------------------------------
(* Creating a user. *)

Ensure(r) ==
  /\ at[r] = "ensure"
  /\ IF user[ask[r].email] # NoRow \/ \E u \in Users : user[u].nick = ask[r].nick
     THEN Refuse(r)
     ELSE Pass(r, "insert")

NewName(r) == IF MiniApp(r) THEN ask[r].openid ELSE ask[r].email
NewNick(r) == IF MiniApp(r) THEN NickOf[ask[r].openid] ELSE ask[r].nick

\* The auth context calls the transactional create_user of the user context,
\* which commits the row before the identity is linked.
InsertCommitted(r) ==
  LET u == NewName(r)
      row == [NoRow EXCEPT !.nick = NewNick(r)]
  IN  /\ at[r] = "insert"
      /\ ~Blocked(r, u, NoRow, row)
      /\ IF Conflicts(u, NoRow, row)
         THEN Refuse(r)
         ELSE /\ user' = [user EXCEPT ![u] = row]
              /\ who' = [who EXCEPT ![r] = u]
              /\ Go(r, IF MiniApp(r) THEN "load" ELSE "created")
              /\ UNCHANGED <<dirty, code, ask, found, copy, seen>>

\* repository.save of a new aggregate.
Insert(r) ==
  LET u == NewName(r)
      row == [NoRow EXCEPT !.nick = NewNick(r)]
  IN  /\ at[r] = "insert"
      /\ ~Blocked(r, u, NoRow, row)
      /\ IF Conflicts(u, NoRow, row)
         THEN Refuse(r)
         ELSE /\ dirty' = [dirty EXCEPT ![r] = [user |-> u, base |-> NoRow, row |-> row]]
              /\ who' = [who EXCEPT ![r] = u]
              /\ Go(r, IF MiniApp(r) THEN "load" ELSE "created")
              /\ UNCHANGED <<user, code, ask, found, copy, seen>>

Commit(r) == user' = View(r) /\ End(r) /\ UNCHANGED code

\* create_user_from_input attaches what it was given, the phone first.
AfterCreate(r) ==
  CASE ask[r].kind = "register" -> "spend"
    [] ask[r].kind = "script" /\ ask[r].phone # None -> "owner"
    [] ask[r].kind = "script" /\ ask[r].phone = None /\ ask[r].openid # None -> "linked"
    [] OTHER -> "idle"

\* create_user is a unit of work of its own: it commits inside
\* register_with_captcha, and before the script attaches anything.
CommitUser(r) ==
  /\ at[r] = "created"
  /\ IF AfterCreate(r) = "idle"
     THEN Commit(r)
     ELSE /\ user' = View(r)
          /\ dirty' = [dirty EXCEPT ![r] = Clean]
          /\ Go(r, AfterCreate(r))
          /\ UNCHANGED <<code, ask, who, found, copy, seen>>

-----------------------------------------------------------------------------
(* Finding the user behind a WeChat identity. *)

ByUnion(r) ==
  /\ at[r] = "byUnion"
  /\ \/ \E u \in UnionOwners(ask[r].union) :
          ask[r].union # None /\ Settle(r, u, "byOpenid") /\ UNCHANGED found
     \/ /\ ask[r].union = None \/ UnionOwners(ask[r].union) = {}
        /\ Pass(r, "byOpenid")

ByOpenid(r) ==
  LET owners == IdOwners(ask[r].openid)
      next == IF ask[r].kind = "bind" THEN "owner" ELSE "load"
  IN  /\ at[r] = "byOpenid"
      /\ \/ \E u \in owners :
              IF who[r] \in {u, None}
              THEN Settle(r, u, next) /\ found' = [found EXCEPT ![r] = TRUE]
              ELSE Refuse(r)
         \/ /\ owners = {}
            /\ found' = [found EXCEPT ![r] = FALSE]
            /\ Settle(r, who[r], IF who[r] # None THEN next
                                 ELSE IF ask[r].kind = "bind" THEN "byPhone" ELSE "insert")

ByPhone(r) ==
  /\ at[r] = "byPhone"
  /\ \/ PhoneOwners(ask[r].phone) = {} /\ Pass(r, "insert")
     \/ \E u \in PhoneOwners(ask[r].phone) : Settle(r, u, "owner") /\ UNCHANGED found

\* The phone must not be another user's.
Owner(r) ==
  /\ at[r] = "owner"
  /\ IF PhoneOwners(ask[r].phone) \ {who[r]} # {}
     THEN Refuse(r)
     ELSE Pass(r, IF found[r] \/ ask[r].openid = None THEN "load" ELSE "linked")

\* bind_and_login: the user must not be linked to another openid.  The script:
\* the openid must not be another user's.
Linked(r) ==
  /\ at[r] = "linked"
  /\ IF ask[r].kind = "script"
     THEN IF IdOwners(ask[r].openid) \ {who[r]} = {} THEN Pass(r, "load") ELSE Refuse(r)
     ELSE \/ /\ IdsOf(user[who[r]]) = {}
             /\ Pass(r, "load")
          \/ /\ IdsOf(user[who[r]]) \ {ask[r].openid} # {}
             /\ Refuse(r)
          \/ /\ ask[r].openid \in IdsOf(user[who[r]])
             /\ Pass(r, "load")

-----------------------------------------------------------------------------
(* Loading, changing and saving an aggregate. *)

\* Whoever was not found by an openid is linked to the one given, if any is.
LinkingUngiven(r) == ~found[r]

Linking(r) == ask[r].openid # None /\ ~found[r]

SetPhone(row, phone) == IF phone = None THEN row ELSE [row EXCEPT !.phone = phone]

LinkAccount(row, openid, union) ==
  IF openid \in IdsOf(row) THEN row
  ELSE [row EXCEPT !.links = @ \cup {[openid |-> openid, union |-> union]}]

Edited(r, row) ==
  IF ask[r].kind = "profile"
  THEN [row EXCEPT !.nick = IF ask[r].nick = None THEN @ ELSE ask[r].nick]
  ELSE LET phoned == SetPhone(row, ask[r].phone)
       IN  IF Linking(r) THEN LinkAccount(phoned, ask[r].openid, ask[r].union) ELSE phoned

\* get_user_by_id in the scoped session, then the aggregate's methods.
Load(r) ==
  /\ at[r] = "load"
  /\ IF View(r)[who[r]] = NoRow
     THEN Refuse(r)
     ELSE /\ copy' = [copy EXCEPT ![r] = Edited(r, View(r)[who[r]])]
          /\ Go(r, "reread")
          /\ UNCHANGED <<user, dirty, code, ask, who, found, seen>>

\* save() selects the row anew: nothing has kept the loaded one alive in the
\* session, whose identity map is weak.
Reread(r) ==
  /\ at[r] = "reread"
  /\ seen' = [seen EXCEPT ![r] = View(r)[who[r]]]
  /\ Go(r, "flush")
  /\ UNCHANGED <<user, dirty, code, ask, who, found, copy>>

\* save() has copied the whole aggregate over that row and flushes: the flush
\* waits for keys others hold, then succeeds or raises RepositoryIntegrityError.
Flush(r) ==
  /\ at[r] = "flush"
  /\ ~Blocked(r, who[r], seen[r], copy[r])
  /\ IF Conflicts(who[r], seen[r], copy[r])
     THEN Refuse(r)
     ELSE /\ dirty' = [dirty EXCEPT ![r] =
               IF @ = Clean THEN [user |-> who[r], base |-> seen[r], row |-> copy[r]]
               ELSE [@ EXCEPT !.row = copy[r]]]
          /\ Go(r, "commit")
          /\ UNCHANGED <<user, code, ask, who, found, copy, seen>>

CommitUnit(r) == at[r] = "commit" /\ Commit(r)

-----------------------------------------------------------------------------
Init ==
  /\ user = [u \in Users |-> NoRow]
  /\ dirty = [r \in Requests |-> Clean]
  /\ code = [e \in Emails |-> NoCode]
  /\ ask = [r \in Requests |-> NoAsk]
  /\ at = [r \in Requests |-> "idle"]
  /\ who = [r \in Requests |-> None]
  /\ found = [r \in Requests |-> FALSE]
  /\ copy = [r \in Requests |-> NoRow]
  /\ seen = [r \in Requests |-> NoRow]

Next ==
  \/ \E r \in Requests :
       \/ Begin(r) \/ Die(r)
       \/ Ttl(r) \/ Store(r) \/ Verify(r) \/ SpendCode(r)
       \/ Ensure(r) \/ Insert(r) \/ CommitUser(r)
       \/ ByUnion(r) \/ ByOpenid(r) \/ ByPhone(r) \/ Owner(r) \/ Linked(r)
       \/ Load(r) \/ Reread(r) \/ Flush(r) \/ CommitUnit(r)
  \/ \E e \in Emails : Age(e) \/ Expire(e)

Spec == Init /\ [][Next]_vars

-----------------------------------------------------------------------------
(* Properties. *)

\* Every variable holds what the code could put there; a row that exists has a
\* nickname and links only to identities.
TypeOK ==
  /\ user \in [Users -> Row \cup {NoRow}]
  /\ dirty \in [Requests -> [user : Users, base : Row \cup {NoRow}, row : Row] \cup {Clean}]
  /\ code \in [Emails -> [value : Codes \cup {None}, fresh : BOOLEAN]]
  /\ at \in [Requests -> Places]
  /\ ask \in [Requests -> Calls \cup {NoAsk}]
  /\ who \in [Requests -> Users \cup {None}]
  /\ found \in [Requests -> BOOLEAN]
  /\ copy \in [Requests -> Row \cup {NoRow}]
  /\ seen \in [Requests -> Row \cup {NoRow}]

\* However checks and flushes interleave, no two users come to share a
\* nickname, a phone or a WeChat identity (the races behind
\* ensure_user_can_be_created, find_by_phone and find_by_oauth).
NothingShared ==
  \A u, v \in Users : u # v =>
    /\ user[u].nick # None => user[u].nick # user[v].nick
    /\ user[u].phone # None => user[u].phone # user[v].phone
    /\ IdsOf(user[u]) \cap IdsOf(user[v]) = {}

\* A user the mini-app created is never seen without the identity it was
\* created for: bind_and_login and login_or_register create and link in one
\* transaction, although the user context's own create_user commits at once.
NoHalfAccount == \A w \in OpenIds : user[w] # NoRow => w \in IdsOf(user[w])

\* What the comment on bind_phone_and_link_oauth wants ("one load-mutate-save,
\* so that nothing is overwritten"): an identity, once linked, stays linked.
LinksStay == [][\A u \in Users : user[u].links \subseteq user'[u].links]_vars

\* Unless it expires, a captcha is only taken away when its email has an
\* account: a registration that fails late leaves the code for another try.
CodeSpentOnAccount ==
  [][\A e \in Emails :
       code[e] # NoCode /\ code'[e] = NoCode /\ ~Expire(e) => user[e] # NoRow]_vars
=============================================================================
