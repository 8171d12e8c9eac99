---------------------------- MODULE AccountsProofs ----------------------------
(***************************************************************************)
(* Proofs about Accounts, for any requests, users and calls. The argument  *)
(* is in three parts: what a request remembers of its own progress (Local),*)
(* how that agrees with the committed table (Backed), and that no two open *)
(* transactions hold a key in common (Disjoint).                           *)
(***************************************************************************)
EXTENDS Accounts, TLAPS

Kind(r) == ask[r].kind
Open(r) == dirty[r] # Clean
Creating(r) == Open(r) /\ dirty[r].base = NoRow
Held(r) == Touched(dirty[r].user, dirty[r].base, dirty[r].row)

\* Which calls come to which await, and where a user has been settled on.
AskedFor(r) ==
  /\ at[r] # "idle" => ask[r] \in Calls
  /\ at[r] \in {"ttl", "store"} => Kind(r) = "captcha"
  /\ at[r] \in {"verify", "spend"} => Kind(r) = "register"
  /\ at[r] \in {"ensure", "created"} => Kind(r) \in {"register", "script"}
  /\ at[r] \in {"byUnion", "byOpenid"} => MiniApp(r)
  /\ at[r] = "byPhone" => Kind(r) = "bind"
  /\ at[r] = "insert" => Kind(r) \in {"register", "script", "bind", "signin"}
  /\ at[r] \in {"owner", "linked"} => Kind(r) \in {"bind", "script"}
  /\ at[r] \in {"load", "reread", "flush", "commit"} => Kind(r) \in {"script", "profile", "bind", "signin"}
  /\ at[r] \in {"created", "owner", "linked", "load", "reread", "flush", "commit"} => who[r] \in Users

\* A transaction is open from the insert or the flush to its commit. One that
\* creates a user names it after the call, which had found no identity.
Transaction(r) ==
  /\ Open(r) => /\ at[r] \in {"created", "load", "reread", "flush", "commit"}
                /\ dirty[r].user = who[r]
                /\ at[r] # "commit" => Creating(r)
  /\ at[r] \in {"created", "commit"} => Open(r)
  /\ Creating(r) => who[r] = NewName(r) /\ Kind(r) # "profile"
  /\ MiniApp(r) /\ (Creating(r) \/ at[r] \in {"byPhone", "insert"}) => ~found[r]

\* An aggregate links an identity once.
OneLinkEach(row) == \A l, m \in row.links : l.openid = m.openid => l = m

Copies(r) ==
  /\ at[r] \in {"reread", "flush"} => copy[r] \in Row /\ OneLinkEach(copy[r])
  /\ at[r] = "flush" => IF Open(r) THEN seen[r] = dirty[r].row ELSE seen[r] \in Row
  /\ OneLinkEach(dirty[r].row)

Local(r) == AskedFor(r) /\ Transaction(r) /\ Copies(r)

\* What the transaction of r claims is no other user's.
Free(r) ==
  LET d == dirty[r]
  IN  /\ d.row.nick # d.base.nick => \A v \in Users \ {d.user} : user[v].nick # d.row.nick
      /\ d.row.phone \notin {d.base.phone, None} => \A v \in Users \ {d.user} : user[v].phone # d.row.phone
      /\ \A l \in d.row.links \ d.base.links : \A v \in Users : l.openid \notin IdsOf(user[v])

\* The row carries the link by which user w is named, as the table has it.
KeepsOwn(row, w) == \E l \in row.links \cap user[w].links : l.openid = w

Named(r) ==
  /\ at[r] \in {"reread", "flush"} /\ who[r] \in OpenIds =>
       IF Open(r) THEN who[r] \in IdsOf(copy[r]) ELSE KeepsOwn(copy[r], who[r])
  /\ at[r] = "commit" /\ who[r] \in OpenIds =>
       IF Creating(r) THEN who[r] \in IdsOf(dirty[r].row) ELSE KeepsOwn(dirty[r].row, who[r])

Backed(r) ==
  /\ Open(r) => (Creating(r) <=> user[dirty[r].user] = NoRow) /\ Free(r)
  /\ at[r] \in {"reread", "flush"} /\ ~Open(r) => user[who[r]] # NoRow
  /\ at[r] = "spend" => user[ask[r].email] # NoRow
  /\ Named(r)

Disjoint == \A q, r \in Requests : q # r /\ Open(q) /\ Open(r) => Held(q) \cap Held(r) = {}

LinkedOnce == \A u \in Users : OneLinkEach(user[u])

\* A code that is fresh is one.
CodesAreCodes == \A e \in Emails : code[e].fresh => code[e].value \in Codes

Inv ==
  /\ TypeOK /\ CodesAreCodes
  /\ \A r \in Requests : Local(r) /\ Backed(r)
  /\ Disjoint /\ LinkedOnce /\ NothingShared /\ NoHalfAccount
-----------------------------------------------------------------------------
(* Rows, calls and locks. *)

LEMMA RowsAreTyped ==
  /\ \A row \in Row : /\ row.nick \in Nicks /\ row.nick # None /\ row.phone \in Phones \cup {None}
                      /\ row.links \subseteq Link /\ row # NoRow
  /\ NoRow.nick = None /\ NoRow.phone = None /\ NoRow.links = {}
  BY ConstantsAssumption DEF Row, NoRow

LEMMA MergeIsTyped ==
  ASSUME NEW now \in Row \cup {NoRow}, NEW base \in Row \cup {NoRow}, NEW row \in Row,
         base = NoRow <=> now = NoRow
  PROVE  Merge(now, base, row) \in Row
  <1>1. Column(now.nick, base.nick, row.nick) \in Nicks
    BY RowsAreTyped DEF Column
  <1>2. Column(now.phone, base.phone, row.phone) \in Phones \cup {None}
    BY RowsAreTyped DEF Column
  <1>3. (now.links \cup (row.links \ base.links)) \ (base.links \ row.links) \in SUBSET Link
    BY RowsAreTyped
  <1> QED
    BY <1>1, <1>2, <1>3 DEF Merge, Row

LEMMA MergeOverNothing == ASSUME NEW row \in Row PROVE Merge(NoRow, NoRow, row) = row
  <1>1. Column(NoRow.nick, NoRow.nick, row.nick) = row.nick
    BY DEF Column
  <1>2. Column(NoRow.phone, NoRow.phone, row.phone) = row.phone
    BY DEF Column
  <1>3. (NoRow.links \cup (row.links \ NoRow.links)) \ (NoRow.links \ row.links) = row.links
    BY RowsAreTyped
  <1> QED
    BY <1>1, <1>2, <1>3 DEF Merge, Row

LEMMA CallsAreTyped ==
  ASSUME NEW a \in Calls
  PROVE  /\ a.kind \in {"captcha", "register", "profile", "script", "bind", "signin"}
         /\ a.kind \in {"captcha", "register", "script"} => a.email \in Emails
         /\ a.kind = "profile" => a.email \in Users /\ a.nick \in Nicks \cup {None}
         /\ a.kind \in {"register", "script"} => a.nick \in Nicks
         /\ a.kind = "script" => a.openid \in OpenIds \cup {None}
         /\ a.kind \in {"bind", "signin"} => a.openid \in OpenIds
         /\ a.kind \in {"script", "bind", "signin"} =>
              a.phone \in Phones \cup {None} /\ a.union \in Unions \cup {None}
  <1>1. a \in Asks
    BY CallsAssumption
  <1> QED
    BY <1>1 DEF Asks, ScriptInputs, MiniAppInputs

\* What a user is created with.
LEMMA NewIsTyped ==
  ASSUME NEW r \in Requests, ask[r] \in Calls, Kind(r) \in {"register", "script", "bind", "signin"}
  PROVE  /\ NewName(r) \in Users /\ NewNick(r) \in Nicks
         /\ NewName(r) \in OpenIds <=> MiniApp(r)
         /\ [NoRow EXCEPT !.nick = NewNick(r)] \in Row
         /\ [NoRow EXCEPT !.nick = NewNick(r)].links = {}
  <1>1. NewName(r) \in Users /\ NewNick(r) \in Nicks /\ (NewName(r) \in OpenIds <=> MiniApp(r))
    BY CallsAreTyped, ConstantsAssumption DEF Kind, NewName, NewNick, MiniApp, Users
  <1>2. [NoRow EXCEPT !.nick = NewNick(r)] = [nick |-> NewNick(r), phone |-> None, links |-> {}]
    BY DEF NoRow
  <1> QED
    BY <1>1, <1>2 DEF Row

\* An edit keeps the links of the row, and adds the one of a call that links.
LEMMA EditedIsTyped ==
  ASSUME NEW r \in Requests, ask[r] \in Calls, Kind(r) \in {"script", "profile", "bind", "signin"},
         NEW row \in Row
  PROVE  /\ Edited(r, row) \in Row /\ (OneLinkEach(row) => OneLinkEach(Edited(r, row)))
         /\ row.links \subseteq Edited(r, row).links
         /\ MiniApp(r) /\ ~found[r] => ask[r].openid \in IdsOf(Edited(r, row))
  <1>1. CASE Kind(r) = "profile"
    <2>1. Edited(r, row) = [row EXCEPT !.nick = IF ask[r].nick = None THEN @ ELSE ask[r].nick]
      BY <1>1 DEF Edited, Kind
    <2>2. Edited(r, row) \in Row /\ Edited(r, row).links = row.links
      BY <1>1, <2>1, CallsAreTyped DEF Row, Kind
    <2> QED
      BY <1>1, <2>2 DEF OneLinkEach, MiniApp, Kind
  <1>2. CASE Kind(r) # "profile"
    <2> DEFINE phoned == SetPhone(row, ask[r].phone)
               linked == LinkAccount(phoned, ask[r].openid, ask[r].union)
    <2>1. Edited(r, row) = IF Linking(r) THEN linked ELSE phoned
      BY <1>2 DEF Edited, Kind
    <2>2. phoned \in Row /\ phoned.links = row.links
      BY <1>2, CallsAreTyped DEF SetPhone, Row, Kind
    <2>3. CASE Linking(r) /\ ask[r].openid \notin IdsOf(phoned)
      <3> DEFINE new == [openid |-> ask[r].openid, union |-> ask[r].union]
      <3>1. linked = [phoned EXCEPT !.links = @ \cup {new}]
        BY <2>3 DEF LinkAccount
      <3>2. new \in Link
        BY <1>2, <2>3, CallsAreTyped DEF Link, Kind, Linking
      <3>3. linked \in Row /\ linked.links = row.links \cup {new}
        BY <2>2, <3>1, <3>2 DEF Row
      <3>4. \A l \in row.links : l.openid # new.openid
        BY <2>2, <2>3 DEF IdsOf
      <3>5. OneLinkEach(row) => OneLinkEach(linked)
        BY <3>3, <3>4 DEF OneLinkEach
      <3>6. ask[r].openid \in IdsOf(linked)
        BY <3>3 DEF IdsOf
      <3> QED
        BY <2>1, <2>3, <3>3, <3>5, <3>6
    <2>4. CASE Linking(r) /\ ask[r].openid \in IdsOf(phoned)
      BY <2>1, <2>2, <2>4 DEF LinkAccount, OneLinkEach
    <2>5. CASE ~Linking(r)
      <3>1. ~(MiniApp(r) /\ ~found[r])
        BY <2>5, CallsAreTyped, ConstantsAssumption DEF Linking, MiniApp, Users
      <3> QED
        BY <2>1, <2>2, <2>5, <3>1 DEF OneLinkEach
    <2> QED
      BY <2>3, <2>4, <2>5
  <1> QED
    BY <1>1, <1>2

\* What a write claims, it holds a key for.
LEMMA TouchedKeys ==
  ASSUME NEW u, NEW base \in Row \cup {NoRow}, NEW row \in Row
  PROVE  /\ row.nick # base.nick => <<"nick", row.nick>> \in Touched(u, base, row)
         /\ row.phone \notin {base.phone, None} => <<"phone", row.phone>> \in Touched(u, base, row)
         /\ \A l \in row.links \ base.links : <<"openid", l.openid>> \in Touched(u, base, row)
         /\ base = NoRow => <<"user", u>> \in Touched(u, base, row)
  BY RowsAreTyped DEF Touched, SymDiff

\* Writing again over what is not committed yet needs no key that was not held
\* or asked for.
LEMMA TouchedGrows ==
  ASSUME NEW u, NEW mid \in Row, NEW row \in Row
  PROVE  Touched(u, NoRow, row) \subseteq Touched(u, NoRow, mid) \cup Touched(u, mid, row)
  <1> SUFFICES ASSUME NEW k \in Touched(u, NoRow, row)
               PROVE  k \in Touched(u, NoRow, mid) \cup Touched(u, mid, row)
    OBVIOUS
  <1>1. CASE k = <<"nick", row.nick>>
    BY <1>1, RowsAreTyped DEF Touched, SymDiff
  <1>2. CASE k = <<"phone", row.phone>> /\ row.phone # None
    BY <1>2, RowsAreTyped DEF Touched, SymDiff
  <1>3. CASE k = <<"user", u>>
    BY <1>3, TouchedKeys
  <1>4. CASE \E l \in row.links : k = <<"openid", l.openid>>
    BY <1>4, RowsAreTyped DEF Touched, SymDiff
  <1> QED
    BY <1>1, <1>2, <1>3, <1>4, RowsAreTyped DEF Touched, SymDiff

-----------------------------------------------------------------------------
(* A step of one request, and what it leaves alone. *)

StepOf(r) ==
  \/ Begin(r) \/ Die(r)
  \/ Ttl(r) \/ Store(r) \/ Verify(r) \/ SpendCode(r)
  \/ Ensure(r) \/ Insert(r) \/ CommitUser(r)
  \/ ByUnion(r) \/ ByOpenid(r) \/ ByPhone(r) \/ Owner(r) \/ Linked(r)
  \/ Load(r) \/ Reread(r) \/ Flush(r) \/ CommitUnit(r)

LEMMA NextIsAStep ==
  Next <=> (\E r \in Requests : StepOf(r)) \/ (\E e \in Emails : Age(e) \/ Expire(e))
  BY DEF Next, StepOf

\* The variables of one request.
Mine(r) == <<dirty[r], ask[r], at[r], who[r], found[r], copy[r], seen[r]>>

LEMMA OthersStay ==
  ASSUME TypeOK, NEW r \in Requests, StepOf(r), NEW q \in Requests \ {r}
  PROVE  Mine(q)' = Mine(q)
  <1> USE DEF TypeOK, Mine
  <1>1. End(r) => Mine(q)' = Mine(q)
    BY DEF End
  <1>2. Begin(r) \/ Die(r) \/ Ttl(r) \/ Store(r) \/ Verify(r) \/ SpendCode(r) \/ Ensure(r) => Mine(q)' = Mine(q)
    BY <1>1 DEF Begin, Die, Refuse, Ttl, Store, Verify, SpendCode, Ensure, Pass, Go
  <1>3. Insert(r) \/ CommitUser(r) \/ CommitUnit(r) => Mine(q)' = Mine(q)
    BY <1>1 DEF Insert, CommitUser, CommitUnit, Commit, Refuse, Go
  <1>4. ByUnion(r) \/ ByOpenid(r) \/ ByPhone(r) \/ Owner(r) \/ Linked(r) => Mine(q)' = Mine(q)
    BY <1>1 DEF ByUnion, ByOpenid, ByPhone, Owner, Linked, Settle, Pass, Go, Refuse
  <1>5. Load(r) \/ Reread(r) \/ Flush(r) => Mine(q)' = Mine(q)
    BY <1>1 DEF Load, Reread, Flush, Refuse, Go
  <1> QED
    BY <1>2, <1>3, <1>4, <1>5 DEF StepOf

\* Only a commit writes the table.
LEMMA OnlyCommitsWrite ==
  ASSUME NEW r \in Requests, StepOf(r)
  PROVE  \/ user' = user
         \/ (CommitUser(r) \/ CommitUnit(r)) /\ user' = View(r)
  BY DEF StepOf, Begin, Die, Refuse, Ttl, Store, Verify, SpendCode, Ensure, Pass, Insert, CommitUser,
     CommitUnit, Commit, ByUnion, ByOpenid, ByPhone, Owner, Linked, Settle, Load, Reread, Flush

\* What r holds does not depend on the others, and neither does what it recalls.
LEMMA MineIsMine ==
  ASSUME NEW r \in Requests, Mine(r)' = Mine(r)
  PROVE  /\ Open(r)' = Open(r) /\ Creating(r)' = Creating(r) /\ Held(r)' = Held(r)
         /\ Local(r) => Local(r)'
  BY DEF Mine, Open, Creating, Held, Local, AskedFor, Transaction, Copies, Kind, MiniApp, NewName, OneLinkEach

LEMMA EndSettles ==
  ASSUME TypeOK, NEW r \in Requests, End(r)
  PROVE  /\ Local(r)' /\ Backed(r)' /\ ~Open(r)' /\ at'[r] = "idle"
         /\ dirty' = [dirty EXCEPT ![r] = Clean]
  BY DEF End, TypeOK, Local, AskedFor, Transaction, Copies, Backed, Named, Open, Creating, OneLinkEach,
     Clean, NoRow

-----------------------------------------------------------------------------
(* The view of a request, and types. *)

\* A transaction creates the row of its user, or writes over one.
Grounded(r) == Open(r) => (Creating(r) <=> user[dirty[r].user] = NoRow)

LEMMA ViewIsTyped ==
  ASSUME TypeOK, NEW r \in Requests, Grounded(r)
  PROVE  /\ View(r) \in [Users -> Row \cup {NoRow}]
         /\ \A u \in Users : View(r)[u] = IF Open(r) /\ u = dirty[r].user
                                          THEN Merge(user[u], dirty[r].base, dirty[r].row) ELSE user[u]
         /\ \A u \in Users : user[u] # NoRow => View(r)[u] # NoRow
         /\ Creating(r) => View(r)[dirty[r].user] = dirty[r].row
  <1>1. CASE ~Open(r)
    BY <1>1 DEF View, Open, Creating, TypeOK
  <1>2. CASE Open(r)
    <2> DEFINE d == dirty[r]
    <2>1. d \in [user : Users, base : Row \cup {NoRow}, row : Row]
      BY <1>2 DEF TypeOK, Open
    <2>2. Merge(user[d.user], d.base, d.row) \in Row
      BY <1>2, <2>1, MergeIsTyped DEF TypeOK, Grounded, Creating
    <2>3. View(r) = [user EXCEPT ![d.user] = Merge(user[d.user], d.base, d.row)]
      BY <1>2 DEF View, Open
    <2>4. Creating(r) => Merge(user[d.user], d.base, d.row) = d.row
      BY <1>2, <2>1, MergeOverNothing DEF Grounded, Creating
    <2> QED
      BY <1>2, <2>1, <2>2, <2>3, <2>4, RowsAreTyped DEF TypeOK
  <1> QED
    BY <1>1, <1>2

LEMMA EndIsTyped == ASSUME TypeOK, NEW r \in Requests, End(r), UNCHANGED <<user, code>> PROVE TypeOK'
  BY DEF End, TypeOK, Places

LEMMA PassIsTyped ==
  ASSUME TypeOK, NEW r \in Requests, NEW place \in Places, Pass(r, place) PROVE TypeOK'
  BY DEF Pass, Go, TypeOK

LEMMA SettleIsTyped ==
  ASSUME TypeOK, NEW r \in Requests, NEW u \in Users \cup {None}, NEW place \in Places,
         Settle(r, u, place), found' \in [Requests -> BOOLEAN]
  PROVE  TypeOK'
  BY DEF Settle, Go, TypeOK

LEMMA StepIsTyped ==
  ASSUME TypeOK, NEW r \in Requests, Local(r), Grounded(r), StepOf(r) PROVE TypeOK'
  <1>0. Refuse(r) => TypeOK'
    BY EndIsTyped DEF Refuse
  <1>1. CASE Begin(r)
    <2>1. PICK a \in Calls :
            /\ ask' = [ask EXCEPT ![r] = a]
            /\ at' = [at EXCEPT ![r] = Entry(a.kind)]
            /\ who' = [who EXCEPT ![r] = IF a.kind = "profile" THEN a.email ELSE None]
      BY <1>1 DEF Begin
    <2>2. Entry(a.kind) \in Places
      BY CallsAreTyped DEF Entry, Places
    <2>3. (IF a.kind = "profile" THEN a.email ELSE None) \in Users \cup {None}
      BY CallsAreTyped
    <2> QED
      BY <1>1, <2>1, <2>2, <2>3 DEF Begin, TypeOK
  <1>2. CASE Die(r)
    BY <1>0, <1>2 DEF Die
  <1>3. CASE Ttl(r) \/ Verify(r) \/ Ensure(r) \/ Owner(r) \/ Linked(r)
    BY <1>0, <1>3, PassIsTyped DEF Ttl, Verify, Ensure, Owner, Linked, Places
  <1>4. CASE Store(r) \/ SpendCode(r)
    <2>1. ASSUME NEW c \in [value : Codes \cup {None}, fresh : BOOLEAN]
          PROVE  [code EXCEPT ![ask[r].email] = c] \in [Emails -> [value : Codes \cup {None}, fresh : BOOLEAN]]
      <3>1. ask[r].email \in Emails
        BY <1>4, CallsAreTyped DEF Store, SpendCode, Local, AskedFor, Kind
      <3> QED
        BY <3>1 DEF TypeOK
    <2>2. NoCode \in [value : Codes \cup {None}, fresh : BOOLEAN]
      BY DEF NoCode
    <2>3. \A c \in Codes : [value |-> c, fresh |-> TRUE] \in [value : Codes \cup {None}, fresh : BOOLEAN]
      OBVIOUS
    <2>4. code' \in [Emails -> [value : Codes \cup {None}, fresh : BOOLEAN]]
      <3>1. CASE Store(r)
        <4>1. PICK c \in Codes : code' = [code EXCEPT ![ask[r].email] = [value |-> c, fresh |-> TRUE]]
          BY <3>1 DEF Store
        <4> QED
          BY <2>1, <2>3, <4>1
      <3>2. CASE SpendCode(r)
        BY <3>2, <2>1, <2>2 DEF SpendCode, TypeOK
      <3> QED
        BY <1>4, <3>1, <3>2
    <2> QED
      BY <1>4, <2>4 DEF Store, SpendCode, End, TypeOK, Places
  <1>5. CASE Insert(r)
    <2> DEFINE u == NewName(r)
               row == [NoRow EXCEPT !.nick = NewNick(r)]
    <2>1. u \in Users /\ row \in Row
      BY <1>5, NewIsTyped DEF Insert, Local, AskedFor
    <2>2. [user |-> u, base |-> NoRow, row |-> row] \in [user : Users, base : Row \cup {NoRow}, row : Row]
      BY <2>1
    <2>3. CASE ~Refuse(r)
      <3>1. /\ dirty' = [dirty EXCEPT ![r] = [user |-> u, base |-> NoRow, row |-> row]]
            /\ who' = [who EXCEPT ![r] = u]
            /\ \E place \in {"load", "created"} : at' = [at EXCEPT ![r] = place]
            /\ UNCHANGED <<user, code, ask, found, copy, seen>>
        BY <1>5, <2>3 DEF Insert, Go
      <3> HIDE DEF u, row
      <3> QED
        BY <2>1, <2>2, <3>1 DEF TypeOK, Places
    <2> QED
      BY <1>0, <2>3
  <1>6. CASE CommitUser(r) \/ CommitUnit(r)
    <2>1. user' \in [Users -> Row \cup {NoRow}]
      BY <1>6, ViewIsTyped DEF CommitUser, CommitUnit, Commit
    <2>2. AfterCreate(r) \in Places
      BY DEF AfterCreate, Places
    <2> QED
      BY <1>6, <2>1, <2>2 DEF CommitUser, CommitUnit, Commit, End, Go, TypeOK, Places
  <1>7. CASE ByUnion(r)
    BY <1>7, PassIsTyped, SettleIsTyped DEF ByUnion, UnionOwners, Places, TypeOK
  <1>8. CASE ByOpenid(r)
    <2>1. who[r] \in Users \cup {None} /\ IdOwners(ask[r].openid) \subseteq Users
      BY DEF TypeOK, IdOwners
    <2>2. \A b \in BOOLEAN : [found EXCEPT ![r] = b] \in [Requests -> BOOLEAN]
      BY DEF TypeOK
    <2>3. {"owner", "load", "byPhone", "insert"} \subseteq Places
      BY DEF Places
    <2> QED
      BY <1>0, <1>8, <2>1, <2>2, <2>3, SettleIsTyped DEF ByOpenid
  <1>9. CASE ByPhone(r)
    BY <1>9, PassIsTyped, SettleIsTyped DEF ByPhone, PhoneOwners, Places, TypeOK
  <1>10. CASE Load(r) \/ Reread(r) \/ Flush(r)
    <2>1. who[r] \in Users /\ ask[r] \in Calls /\ Kind(r) \in {"script", "profile", "bind", "signin"}
      BY <1>10 DEF Load, Reread, Flush, Local, AskedFor
    <2>2. View(r)[who[r]] \in Row \cup {NoRow}
      BY <2>1, ViewIsTyped
    <2>3. CASE Load(r) /\ ~Refuse(r)
      <3>1. Edited(r, View(r)[who[r]]) \in Row
        BY <2>1, <2>2, <2>3, EditedIsTyped DEF Load
      <3> QED
        BY <2>3, <3>1 DEF Load, Go, TypeOK, Places
    <2>4. CASE Reread(r)
      BY <2>2, <2>4 DEF Reread, Go, TypeOK, Places
    <2>5. CASE Flush(r) /\ ~Refuse(r)
      <3>1. copy[r] \in Row /\ seen[r] \in Row \cup {NoRow}
        BY <2>5 DEF Flush, Local, Copies, TypeOK
      <3> DEFINE written == IF dirty[r] = Clean THEN [user |-> who[r], base |-> seen[r], row |-> copy[r]]
                            ELSE [dirty[r] EXCEPT !.row = copy[r]]
      <3>2. written \in [user : Users, base : Row \cup {NoRow}, row : Row]
        BY <2>1, <3>1 DEF TypeOK
      <3>3. /\ dirty' = [dirty EXCEPT ![r] = written]
            /\ at' = [at EXCEPT ![r] = "commit"]
            /\ UNCHANGED <<user, code, ask, who, found, copy, seen>>
        BY <2>5 DEF Flush, Go
      <3> HIDE DEF written
      <3> QED
        BY <3>2, <3>3 DEF TypeOK, Places
    <2> QED
      BY <1>0, <1>10, <2>3, <2>4, <2>5
  <1> QED
    BY <1>1, <1>2, <1>3, <1>4, <1>5, <1>6, <1>7, <1>8, <1>9, <1>10 DEF StepOf

-----------------------------------------------------------------------------
(* Local: what the request of the step recalls. *)

\* Where a request may pass to without a transaction, by what it is asked.
LEMMA PassIsLocal ==
  ASSUME TypeOK, NEW r \in Requests, Local(r), ~Open(r), at[r] \notin {"idle", "reread", "flush"},
         NEW place \in Places, Go(r, place), dirty'[r] = dirty[r], ask'[r] = ask[r], copy'[r] = copy[r],
         place \in {"store"} => Kind(r) = "captcha",
         place \in {"spend"} => Kind(r) = "register",
         place \in {"ensure"} => Kind(r) \in {"register", "script"},
         place \in {"byUnion", "byOpenid"} => MiniApp(r),
         place = "byPhone" => Kind(r) = "bind" /\ ~found'[r],
         place = "insert" => Kind(r) \in {"register", "script"} \/ (MiniApp(r) /\ ~found'[r]),
         place \in {"owner", "linked"} => Kind(r) \in {"bind", "script"} /\ who'[r] \in Users,
         place = "load" => Kind(r) \in {"script", "profile", "bind", "signin"} /\ who'[r] \in Users,
         place \notin {"idle", "ttl", "verify", "created", "reread", "flush", "commit"}
  PROVE  Local(r)'
  <1>1. at'[r] = place
    BY DEF Go, TypeOK
  <1>2. ask[r] \in Calls
    BY DEF Local, AskedFor
  <1> QED
    BY <1>1, <1>2 DEF Local, AskedFor, Transaction, Copies, Open, Creating, Kind, MiniApp, OneLinkEach, NewName

LEMMA StepIsLocal ==
  ASSUME TypeOK, LinkedOnce, NEW r \in Requests, Local(r), Backed(r), StepOf(r)
  PROVE  Local(r)'
  <1> USE DEF Kind
  <1>0. Refuse(r) \/ End(r) => Local(r)'
    BY EndSettles DEF Refuse
  <1>1. CASE Begin(r)
    <2>1. PICK a \in Calls :
            /\ ask'[r] = a /\ at'[r] = Entry(a.kind)
            /\ who'[r] = IF a.kind = "profile" THEN a.email ELSE None
      BY <1>1 DEF Begin, TypeOK
    <2>2. dirty'[r] = Clean
      BY <1>1 DEF Begin, Local, Transaction, Open
    <2>3. AskedFor(r)'
      BY <2>1, CallsAreTyped DEF AskedFor, Entry, MiniApp
    <2>4. Transaction(r)' /\ Copies(r)'
      BY <2>1, <2>2, CallsAreTyped DEF Transaction, Copies, Entry, Open, Creating, Clean, NoRow, OneLinkEach
    <2> QED
      BY <2>3, <2>4 DEF Local
  <1>2. CASE Die(r) \/ Store(r) \/ SpendCode(r) \/ CommitUnit(r)
    BY <1>0, <1>2 DEF Die, Store, SpendCode, CommitUnit, Commit
  <1>3. CASE Ttl(r) \/ Verify(r) \/ Ensure(r)
    <2>1. ~Open(r)
      BY <1>3 DEF Ttl, Verify, Ensure, Local, Transaction
    <2> QED
      <3>1. CASE Ttl(r) /\ ~Refuse(r)
        BY <2>1, <3>1, PassIsLocal DEF Ttl, Pass, Places, Local, AskedFor
      <3>2. CASE Verify(r) /\ ~Refuse(r)
        BY <2>1, <3>2, PassIsLocal DEF Verify, Pass, Places, Local, AskedFor
      <3>3. CASE Ensure(r) /\ ~Refuse(r)
        <4>1. at[r] = "ensure" /\ Pass(r, "insert")
          BY <3>3 DEF Ensure
        <4>2. at'[r] = "insert" /\ Kind(r) \in {"register", "script"}
          BY <4>1 DEF Pass, Go, TypeOK, Local, AskedFor
        <4> QED
          BY <2>1, <4>1, <4>2 DEF Pass, Local, AskedFor, Transaction, Copies, Open, Creating, MiniApp,
             OneLinkEach, NewName
      <3> QED
        BY <1>0, <1>3, <3>1, <3>2, <3>3
  <1>4. CASE Insert(r) /\ ~Refuse(r)
    <2> DEFINE u == NewName(r)
               row == [NoRow EXCEPT !.nick = NewNick(r)]
    <2>1. at[r] = "insert" /\ ask[r] \in Calls /\ Kind(r) \in {"register", "script", "bind", "signin"}
      BY <1>4 DEF Insert, Local, AskedFor
    <2>2. u \in Users /\ row \in Row /\ row.links = {}
      BY <2>1, NewIsTyped
    <2>3. /\ dirty' = [dirty EXCEPT ![r] = [user |-> u, base |-> NoRow, row |-> row]]
          /\ who' = [who EXCEPT ![r] = u]
          /\ at' = [at EXCEPT ![r] = IF MiniApp(r) THEN "load" ELSE "created"]
          /\ UNCHANGED <<ask, found, copy, seen>>
      BY <1>4 DEF Insert, Go
    <2>4. /\ dirty'[r] = [user |-> u, base |-> NoRow, row |-> row] /\ who'[r] = u
          /\ at'[r] = (IF MiniApp(r) THEN "load" ELSE "created")
      BY <2>3 DEF TypeOK
    <2>5. Open(r)' /\ Creating(r)'
      BY <2>2, <2>4, RowsAreTyped DEF Open, Creating, Clean
    <2>6. AskedFor(r)'
      BY <2>1, <2>2, <2>3, <2>4 DEF AskedFor, MiniApp
    <2>7. Transaction(r)'
      BY <1>4, <2>1, <2>3, <2>4, <2>5 DEF Transaction, Local, MiniApp, NewName
    <2>8. Copies(r)'
      <3> HIDE DEF u, row
      <3>1. at'[r] \in {"load", "created"} /\ dirty'[r].row.links = {}
        BY <2>2, <2>4
      <3> QED
        BY <3>1 DEF Copies, OneLinkEach
    <2> QED
      BY <2>6, <2>7, <2>8 DEF Local
  <1>5. CASE CommitUser(r) /\ ~End(r)
    <2>1. /\ at[r] = "created" /\ Go(r, AfterCreate(r)) /\ dirty'[r] = Clean
          /\ UNCHANGED <<ask, who, found, copy, seen>>
          /\ ask[r] \in Calls /\ Kind(r) \in {"register", "script"} /\ who[r] \in Users
          /\ AfterCreate(r) # "idle"
      BY <1>5 DEF CommitUser, Commit, TypeOK, Local, AskedFor
    <2>2. at'[r] = AfterCreate(r)
      BY <2>1 DEF Go, TypeOK
    <2>3. AfterCreate(r) \in {"spend", "owner", "linked"} /\ (AfterCreate(r) = "spend" <=> Kind(r) = "register")
      BY <2>1 DEF AfterCreate
    <2> QED
      BY <2>1, <2>2, <2>3 DEF Local, AskedFor, Transaction, Copies, Open, Creating, Clean, NoRow, OneLinkEach, MiniApp
  <1>6. CASE ByUnion(r) \/ ByPhone(r)
    <2>1. ~Open(r)
      BY <1>6 DEF ByUnion, ByPhone, Local, Transaction
    <2> QED
      BY <1>6, <2>1, PassIsLocal DEF ByUnion, ByPhone, Pass, Settle, Places, Local, AskedFor, Transaction,
         MiniApp, UnionOwners, PhoneOwners, TypeOK
  <1>7. CASE ByOpenid(r) /\ ~Refuse(r)
    <2>1. ~Open(r) /\ MiniApp(r)
      BY <1>7 DEF ByOpenid, Local, Transaction, AskedFor
    <2>2. PICK u \in Users \cup {None}, place \in {"owner", "load", "byPhone", "insert"} :
            /\ Settle(r, u, place)
            /\ u = None => found'[r] = FALSE /\ place \in {"byPhone", "insert"}
            /\ u # None => place \in {"owner", "load"}
            /\ place \in {"owner", "byPhone"} => Kind(r) = "bind"
      BY <1>7, ConstantsAssumption DEF ByOpenid, TypeOK, IdOwners
    <2>3. who'[r] = u
      BY <2>2 DEF Settle, TypeOK
    <2> QED
      BY <1>7, <2>1, <2>2, <2>3, PassIsLocal DEF ByOpenid, Settle, Places, MiniApp
  <1>8. CASE (Owner(r) \/ Linked(r)) /\ ~Refuse(r)
    <2>1. ~Open(r)
      BY <1>8 DEF Owner, Linked, Local, Transaction
    <2>2. PICK place \in {"linked", "load"} : Pass(r, place)
      BY <1>8 DEF Owner, Linked
    <2> QED
      BY <1>8, <2>1, <2>2, PassIsLocal DEF Owner, Linked, Pass, Places, Local, AskedFor
  <1>9. CASE (Load(r) \/ Reread(r) \/ Flush(r)) /\ ~Refuse(r)
    <2>1. /\ ask[r] \in Calls /\ Kind(r) \in {"script", "profile", "bind", "signin"} /\ who[r] \in Users
          /\ UNCHANGED <<ask, who, found>>
      BY <1>9 DEF Load, Reread, Flush, Local, AskedFor
    <2>2. /\ View(r)[who[r]] \in Row \cup {NoRow}
          /\ ~Open(r) => View(r)[who[r]] = user[who[r]]
          /\ at[r] # "commit" /\ Open(r) => View(r)[who[r]] = dirty[r].row /\ dirty[r].row \in Row
      BY <2>1, ViewIsTyped DEF Local, Transaction, Backed, Grounded, TypeOK, Open
    <2>3. CASE Load(r)
      <3> DEFINE V == View(r)[who[r]]
      <3>1. V \in Row /\ OneLinkEach(V)
        BY <1>9, <2>1, <2>2, <2>3 DEF Load, Local, Copies, LinkedOnce
      <3>2. copy'[r] = Edited(r, V) /\ at'[r] = "reread" /\ dirty' = dirty
        BY <1>9, <2>3 DEF Load, Go, TypeOK
      <3>3. copy'[r] \in Row /\ OneLinkEach(copy[r])'
        BY <2>1, <3>1, <3>2, EditedIsTyped DEF OneLinkEach
      <3> QED
        BY <2>1, <2>3, <3>2, <3>3 DEF Load, Local, AskedFor, Transaction, Copies, Open, Creating, MiniApp,
           NewName, OneLinkEach
    <2>4. CASE Reread(r)
      <3>1. seen'[r] = View(r)[who[r]] /\ at'[r] = "flush" /\ UNCHANGED <<dirty, copy>>
        BY <2>4 DEF Reread, Go, TypeOK
      <3>2. ~Open(r) => user[who[r]] \in Row
        BY <2>1, <2>4 DEF Reread, Backed, TypeOK
      <3> QED
        BY <2>1, <2>2, <2>4, <3>1, <3>2 DEF Reread, Local, AskedFor, Transaction, Copies, Open, Creating, MiniApp,
           NewName, OneLinkEach
    <2>5. CASE Flush(r)
      <3>1. /\ dirty'[r] = IF dirty[r] = Clean THEN [user |-> who[r], base |-> seen[r], row |-> copy[r]]
                           ELSE [dirty[r] EXCEPT !.row = copy[r]]
            /\ at[r] = "flush" /\ at'[r] = "commit" /\ UNCHANGED <<copy, seen>>
        BY <1>9, <2>5 DEF Flush, Go, TypeOK
      <3>2. copy[r] \in Row /\ OneLinkEach(copy[r])
        BY <3>1 DEF Local, Copies
      <3>3. CASE Open(r)
        <4>1. dirty'[r].user = dirty[r].user /\ dirty'[r].base = dirty[r].base /\ dirty'[r].row = copy[r]
          BY <3>1, <3>3 DEF Open, TypeOK
        <4>2. Open(r)' /\ Creating(r)'
          BY <3>1, <3>2, <3>3, <4>1, RowsAreTyped DEF Local, Transaction, Open, Creating, Clean
        <4> QED
          BY <2>1, <3>1, <3>2, <3>3, <4>1, <4>2 DEF Local, AskedFor, Transaction, Copies, MiniApp, NewName, OneLinkEach
      <3>4. CASE ~Open(r)
        <4>1. dirty'[r].user = who[r] /\ dirty'[r].base = seen[r] /\ dirty'[r].row = copy[r]
          BY <3>1, <3>4 DEF Open
        <4>2. Open(r)' /\ ~Creating(r)'
          BY <3>1, <3>2, <3>4, <4>1, RowsAreTyped DEF Local, Copies, Open, Creating, Clean
        <4> QED
          BY <2>1, <3>1, <3>2, <4>1, <4>2 DEF Local, AskedFor, Transaction, Copies, MiniApp, NewName, OneLinkEach
      <3> QED
        BY <3>3, <3>4
    <2> QED
      BY <1>9, <2>3, <2>4, <2>5
  <1> QED
    BY <1>0, <1>1, <1>2, <1>3, <1>4, <1>5, <1>6, <1>7, <1>8, <1>9 DEF StepOf

-----------------------------------------------------------------------------
(* Backed: what a request recalls of the table, while the table stays. *)

LEMMA BackedStays ==
  ASSUME NEW r \in Requests, Mine(r)' = Mine(r), user' = user, Backed(r) PROVE Backed(r)'
  BY DEF Mine, Backed, Free, Named, KeepsOwn, Open, Creating

\* Without a transaction, and away from save() and spend, nothing is recalled.
LEMMA PassIsBacked ==
  ASSUME NEW r \in Requests, ~Open(r)', at'[r] \notin {"reread", "flush", "commit", "spend"}
  PROVE  Backed(r)'
  BY DEF Backed, Named

LEMMA InsertIsBacked ==
  ASSUME TypeOK, NEW r \in Requests, Local(r), Insert(r), ~Refuse(r) PROVE Backed(r)'
  <1> DEFINE u == NewName(r)
             row == [NoRow EXCEPT !.nick = NewNick(r)]
  <1>1. ask[r] \in Calls /\ Kind(r) \in {"register", "script", "bind", "signin"}
    BY DEF Insert, Local, AskedFor
  <1>2. u \in Users /\ row \in Row /\ row.links = {} /\ row.phone = None
    BY <1>1, NewIsTyped DEF NoRow
  <1>3. /\ user' = user /\ ~Conflicts(u, NoRow, row)
        /\ dirty'[r] = [user |-> u, base |-> NoRow, row |-> row]
        /\ at'[r] \in {"load", "created"}
    BY DEF Insert, Go, TypeOK
  <1> HIDE DEF u, row
  <1>4. Creating(r)' /\ user[u] = NoRow
    BY <1>2, <1>3, RowsAreTyped DEF Open, Creating, Clean, Conflicts
  <1>5. Free(r)'
    <2>1. \A v \in Users \ {u} : user[v].nick # row.nick
      BY <1>2, <1>3, RowsAreTyped DEF Conflicts
    <2> QED
      BY <1>2, <1>3, <2>1 DEF Free
  <1> QED
    BY <1>3, <1>4, <1>5 DEF Backed, Named, Creating

LEMMA LoadIsBacked ==
  ASSUME TypeOK, LinkedOnce, NoHalfAccount, NEW r \in Requests, Local(r), Backed(r), Load(r), ~Refuse(r)
  PROVE  Backed(r)'
  <1> DEFINE V == View(r)[who[r]]
             row == Edited(r, V)
  <1>1. /\ ask[r] \in Calls /\ Kind(r) \in {"script", "profile", "bind", "signin"} /\ who[r] \in Users
        /\ at[r] = "load" /\ V # NoRow
    BY DEF Load, Local, AskedFor
  <1>2. V \in Row /\ (~Open(r) => V = user[who[r]]) /\ (Open(r) => Creating(r))
    BY <1>1, ViewIsTyped DEF Backed, Grounded, Local, Transaction
  <1>3. /\ user' = user /\ dirty' = dirty /\ who' = who /\ at'[r] = "reread" /\ copy'[r] = row
    BY DEF Load, Go, TypeOK
  <1>4. V.links \subseteq row.links /\ (MiniApp(r) /\ ~found[r] => ask[r].openid \in IdsOf(row))
    BY <1>1, <1>2, EditedIsTyped
  <1> HIDE DEF V, row
  <1>5. who[r] \in OpenIds /\ Open(r) => who[r] \in IdsOf(row)
    <2>1. SUFFICES ASSUME who[r] \in OpenIds, Open(r) PROVE who[r] \in IdsOf(row)
      OBVIOUS
    <2>2. Creating(r) /\ who[r] = NewName(r) /\ Kind(r) # "profile"
      BY <1>2, <2>1 DEF Local, Transaction
    <2>3. MiniApp(r)
      BY <1>1, <2>1, <2>2, NewIsTyped
    <2> QED
      BY <1>4, <2>2, <2>3 DEF Local, Transaction, NewName
  <1>6. who[r] \in OpenIds /\ ~Open(r) => KeepsOwn(row, who[r])
    <2>1. SUFFICES ASSUME who[r] \in OpenIds, ~Open(r) PROVE KeepsOwn(row, who[r])
      OBVIOUS
    <2>2. who[r] \in IdsOf(user[who[r]])
      BY <1>1, <1>2, <2>1, RowsAreTyped DEF NoHalfAccount
    <2> QED
      BY <1>2, <1>4, <2>1, <2>2 DEF KeepsOwn, IdsOf
  <1> QED
    BY <1>1, <1>2, <1>3, <1>5, <1>6 DEF Backed, Free, Named, KeepsOwn, Open, Creating

LEMMA FlushIsBacked ==
  ASSUME TypeOK, NEW r \in Requests, Local(r), Backed(r), Flush(r), ~Refuse(r)
  PROVE  Backed(r)'
  <1>1. /\ user' = user /\ who' = who /\ at[r] = "flush" /\ at'[r] = "commit"
        /\ ~Conflicts(who[r], seen[r], copy[r])
        /\ dirty'[r] = IF dirty[r] = Clean THEN [user |-> who[r], base |-> seen[r], row |-> copy[r]]
                       ELSE [dirty[r] EXCEPT !.row = copy[r]]
    BY DEF Flush, Go, TypeOK
  <1>2. copy[r] \in Row /\ who[r] \in Users /\ IF Open(r) THEN seen[r] = dirty[r].row ELSE seen[r] \in Row
    BY <1>1 DEF Local, Copies, AskedFor
  <1>3. CASE ~Open(r)
    <2>1. /\ dirty'[r].user = who[r] /\ dirty'[r].base = seen[r] /\ dirty'[r].row = copy[r]
          /\ Open(r)' /\ ~Creating(r)' /\ user[who[r]] # NoRow
      BY <1>1, <1>2, <1>3, RowsAreTyped DEF Open, Creating, Clean, Backed
    <2>2. Free(r)'
      BY <1>1, <1>2, <2>1 DEF Free, Conflicts, PhoneOwners, IdOwners
    <2> QED
      BY <1>1, <1>3, <2>1, <2>2 DEF Backed, Named, KeepsOwn
  <1>4. CASE Open(r)
    <2>1. /\ dirty[r].base = NoRow /\ dirty[r].user = who[r] /\ dirty[r].row \in Row
          /\ user[who[r]] = NoRow /\ Free(r)
      BY <1>1, <1>4 DEF Local, Transaction, Creating, Open, Backed, TypeOK
    <2>2. /\ dirty'[r].user = who[r] /\ dirty'[r].base = NoRow /\ dirty'[r].row = copy[r]
          /\ Open(r)' /\ Creating(r)'
      BY <1>1, <1>2, <1>4, <2>1, RowsAreTyped DEF Open, Creating, Clean, TypeOK
    <2>3. \A v \in Users \ {who[r]} : user[v].nick # copy[r].nick
      BY <1>1, <1>2, <1>4, <2>1, RowsAreTyped DEF Free, Conflicts
    <2>4. copy[r].phone # None => \A v \in Users \ {who[r]} : user[v].phone # copy[r].phone
      BY <1>1, <1>2, <1>4, <2>1, RowsAreTyped DEF Free, Conflicts, PhoneOwners
    <2>5. \A l \in copy[r].links : \A v \in Users : l.openid \notin IdsOf(user[v])
      BY <1>1, <1>2, <1>4, <2>1, RowsAreTyped DEF Free, Conflicts, IdOwners
    <2>6. Free(r)'
      BY <1>1, <2>2, <2>3, <2>4, <2>5, RowsAreTyped DEF Free
    <2> QED
      BY <1>1, <1>4, <2>1, <2>2, <2>6 DEF Backed, Named
  <1> QED
    BY <1>3, <1>4

LEMMA QuietStepIsBacked ==
  ASSUME TypeOK, LinkedOnce, NoHalfAccount, NEW r \in Requests, Local(r), Backed(r), StepOf(r),
         ~(CommitUser(r) \/ CommitUnit(r))
  PROVE  Backed(r)'
  <1>0. End(r) \/ Refuse(r) => Backed(r)'
    BY EndSettles DEF Refuse
  <1>1. CASE Begin(r)
    <2>1. ~Open(r)' /\ at'[r] \in {"ttl", "verify", "ensure", "byUnion", "load"}
      <3>1. PICK a \in Calls : at'[r] = Entry(a.kind)
        BY <1>1 DEF Begin, TypeOK
      <3>2. Entry(a.kind) \in {"ttl", "verify", "ensure", "byUnion", "load"}
        BY CallsAreTyped DEF Entry
      <3> QED
        BY <1>1, <3>1, <3>2 DEF Begin, Local, Transaction, Open
    <2> QED
      BY <2>1, PassIsBacked
  <1>2. CASE Die(r) \/ Store(r) \/ SpendCode(r)
    BY <1>0, <1>2 DEF Die, Store, SpendCode
  <1>3. CASE (Ttl(r) \/ Verify(r) \/ Ensure(r) \/ Owner(r) \/ Linked(r)) /\ ~Refuse(r)
    <2>1. PICK place \in {"store", "ensure", "insert", "load", "linked"} : Pass(r, place)
      BY <1>3 DEF Ttl, Verify, Ensure, Owner, Linked
    <2>2. ~Open(r)
      BY <1>3 DEF Ttl, Verify, Ensure, Owner, Linked, Local, Transaction
    <2> QED
      BY <2>1, <2>2, PassIsBacked DEF Pass, Go, TypeOK, Open
  <1>4. CASE (ByUnion(r) \/ ByPhone(r) \/ ByOpenid(r)) /\ ~Refuse(r)
    <2>1. dirty' = dirty /\ \E place \in {"byOpenid", "insert", "owner", "load", "byPhone"} : Go(r, place)
      BY <1>4 DEF ByUnion, ByPhone, ByOpenid, Pass, Settle
    <2>2. ~Open(r)
      BY <1>4 DEF ByUnion, ByPhone, ByOpenid, Local, Transaction
    <2> QED
      BY <2>1, <2>2, PassIsBacked DEF Go, TypeOK, Open
  <1>5. CASE Reread(r)
    BY <1>5 DEF Reread, Go, TypeOK, Backed, Free, Named, KeepsOwn, Open, Creating
  <1> QED
    BY <1>0, <1>1, <1>2, <1>3, <1>4, <1>5, InsertIsBacked, LoadIsBacked, FlushIsBacked DEF StepOf

-----------------------------------------------------------------------------
(* A commit, and what the others recall of the table. *)

Commits(r) == (CommitUser(r) \/ CommitUnit(r)) /\ user' = View(r)

\* What the commit of r writes: a new value of a column, or a new link, is one
\* that it held the key of and that was nobody's.
LEMMA WhatCommits ==
  ASSUME TypeOK, NEW r \in Requests, Local(r), Backed(r), Commits(r)
  PROVE  LET d == dirty[r]
         IN  /\ Open(r) /\ d \in [user : Users, base : Row \cup {NoRow}, row : Row] /\ d.user = who[r]
             /\ \A u \in Users \ {d.user} : user'[u] = user[u]
             /\ user'[d.user] = Merge(user[d.user], d.base, d.row)
             /\ user'[d.user] \in Row
             /\ user'[d.user].nick \in {user[d.user].nick, d.row.nick}
             /\ user'[d.user].nick # user[d.user].nick => d.row.nick # d.base.nick
             /\ user'[d.user].phone \in {user[d.user].phone, d.row.phone}
             /\ user'[d.user].phone # user[d.user].phone => d.row.phone # d.base.phone
             /\ user'[d.user].links =
                  (user[d.user].links \cup (d.row.links \ d.base.links)) \ (d.base.links \ d.row.links)
  <1> DEFINE d == dirty[r]
  <1>1. Open(r) /\ d.user = who[r]
    BY DEF Commits, CommitUser, CommitUnit, Local, Transaction
  <1>2. d \in [user : Users, base : Row \cup {NoRow}, row : Row]
    BY <1>1 DEF Open, TypeOK
  <1>3. Grounded(r)
    BY DEF Backed, Grounded
  <1>4. /\ \A u \in Users \ {d.user} : user'[u] = user[u]
        /\ user'[d.user] = Merge(user[d.user], d.base, d.row)
    BY <1>1, <1>2, <1>3, ViewIsTyped DEF Commits
  <1>5. user'[d.user] \in Row
    <2>1. d.user \in Users /\ d.row \in Row /\ d.base \in Row \cup {NoRow}
      BY <1>2
    <2>2. user[d.user] \in Row \cup {NoRow} /\ (d.base = NoRow <=> user[d.user] = NoRow)
      BY <1>1, <1>3, <2>1 DEF Grounded, Creating, TypeOK
    <2> HIDE DEF d
    <2> QED
      BY <1>4, <2>1, <2>2, MergeIsTyped
  <1> QED
    BY <1>1, <1>2, <1>4, <1>5 DEF Merge, Column

LEMMA CommitKeepsRows ==
  ASSUME TypeOK, NEW r \in Requests, Local(r), Backed(r), Commits(r), NEW u \in Users, user[u] # NoRow
  PROVE  user'[u] # NoRow
  BY ViewIsTyped DEF Commits, Backed, Grounded

\* The link by which a user is named stays.
LEMMA OwnLinkStays ==
  ASSUME TypeOK, LinkedOnce, NEW r \in Requests, Local(r), Backed(r), Commits(r),
         NEW w \in OpenIds, NEW l \in user[w].links, l.openid = w
  PROVE  l \in user'[w].links
  <1> DEFINE d == dirty[r]
  <1>1. CASE w # d.user
    BY <1>1, WhatCommits DEF Users
  <1>2. CASE w = d.user
    <2>1. who[r] = w /\ w \in Users
      BY <1>2, WhatCommits DEF Users
    <2>2. user[w] # NoRow
      BY RowsAreTyped
    <2>3. ~Creating(r)
      BY <1>2, <2>2, WhatCommits DEF Backed
    <2>4. at[r] = "commit"
      BY <2>3, WhatCommits DEF Commits, CommitUser, CommitUnit, Local, Transaction
    <2>5. KeepsOwn(d.row, w)
      BY <2>1, <2>3, <2>4 DEF Backed, Named
    <2>6. l \in d.row.links
      BY <2>1, <2>5 DEF KeepsOwn, LinkedOnce, OneLinkEach
    <2> QED
      BY <1>2, <2>6, WhatCommits
  <1> QED
    BY <1>1, <1>2

LEMMA CommitKeepsBacked ==
  ASSUME TypeOK, LinkedOnce, Disjoint, NEW r \in Requests, Local(r), Backed(r), Commits(r),
         NEW q \in Requests \ {r}, Local(q), Backed(q), Mine(q)' = Mine(q)
  PROVE  Backed(q)'
  <1> DEFINE d == dirty[r]
             b == dirty[q]
  <1>1. Open(r) /\ d.user \in Users /\ d.row \in Row /\ d.base \in Row \cup {NoRow}
    BY WhatCommits
  <1>2. Open(q)' = Open(q) /\ Creating(q)' = Creating(q) /\ dirty'[q] = b /\ at'[q] = at[q] /\ who'[q] = who[q]
    BY DEF Mine, Open, Creating
  <1>3. ASSUME Open(q) PROVE (Creating(q) <=> user'[b.user] = NoRow) /\ Free(q)'
    <2>1. /\ b.user \in Users /\ b.row \in Row /\ b.base \in Row \cup {NoRow}
          /\ Held(q) \cap Held(r) = {}
      BY <1>1, <1>3 DEF TypeOK, Open, Disjoint
    <2>2. b.row.nick # b.base.nick /\ d.row.nick # d.base.nick => b.row.nick # d.row.nick
      <3>1. SUFFICES ASSUME b.row.nick # b.base.nick, d.row.nick # d.base.nick PROVE b.row.nick # d.row.nick
        OBVIOUS
      <3>2. <<"nick", b.row.nick>> \in Held(q) /\ <<"nick", d.row.nick>> \in Held(r)
        BY <1>1, <2>1, <3>1, TouchedKeys DEF Held
      <3> QED
        BY <2>1, <3>2
    <2>3. b.row.phone \notin {b.base.phone, None} /\ d.row.phone # d.base.phone => b.row.phone # d.row.phone
      <3>1. SUFFICES ASSUME b.row.phone \notin {b.base.phone, None}, d.row.phone # d.base.phone,
                            d.row.phone = b.row.phone
                     PROVE  FALSE
        OBVIOUS
      <3>2. <<"phone", b.row.phone>> \in Held(q) /\ <<"phone", d.row.phone>> \in Held(r)
        BY <1>1, <2>1, <3>1, TouchedKeys DEF Held
      <3> QED
        BY <2>1, <3>1, <3>2
    <2>4. \A l \in b.row.links \ b.base.links, m \in d.row.links \ d.base.links : l.openid # m.openid
      <3>1. TAKE l \in b.row.links \ b.base.links, m \in d.row.links \ d.base.links
      <3>2. <<"openid", l.openid>> \in Held(q) /\ <<"openid", m.openid>> \in Held(r)
        BY <1>1, <2>1, TouchedKeys DEF Held
      <3> QED
        BY <2>1, <3>2
    <2>5. Creating(q) /\ Creating(r) => b.user # d.user
      <3>1. SUFFICES ASSUME Creating(q), Creating(r), b.user = d.user PROVE FALSE
        OBVIOUS
      <3>2. <<"user", b.user>> \in Held(q) /\ <<"user", d.user>> \in Held(r)
        BY <1>1, <2>1, <3>1, TouchedKeys DEF Held, Creating
      <3> QED
        BY <2>1, <3>1, <3>2
    <2>6. Creating(q) <=> user'[b.user] = NoRow
      BY <1>1, <1>3, <2>1, <2>5, WhatCommits, RowsAreTyped DEF Backed
    <2>7. b.row.nick # b.base.nick => \A v \in Users \ {b.user} : user'[v].nick # b.row.nick
      BY <1>3, <2>2, WhatCommits DEF Backed, Free
    <2>8. b.row.phone \notin {b.base.phone, None} => \A v \in Users \ {b.user} : user'[v].phone # b.row.phone
      BY <1>3, <2>3, WhatCommits DEF Backed, Free
    <2>9. \A l \in b.row.links \ b.base.links : \A v \in Users : l.openid \notin IdsOf(user'[v])
      <3>1. TAKE l \in b.row.links \ b.base.links
      <3>2. TAKE v \in Users
      <3>3. \A m \in user'[v].links : m \in user[v].links \/ m \in d.row.links \ d.base.links
        BY WhatCommits
      <3>4. l.openid \notin IdsOf(user[v])
        BY <1>3 DEF Backed, Free
      <3> QED
        BY <2>4, <3>3, <3>4 DEF IdsOf
    <2> QED
      BY <1>2, <2>6, <2>7, <2>8, <2>9 DEF Free, IdsOf
  <1>4. at[q] \in {"reread", "flush"} /\ ~Open(q) => user'[who[q]] # NoRow
    BY CommitKeepsRows DEF Backed, Local, AskedFor
  <1>5. at[q] = "spend" => user'[ask[q].email] # NoRow
    <2>1. at[q] = "spend" => ask[q].email \in Users
      BY CallsAreTyped DEF Local, AskedFor, Kind, Users
    <2> QED
      BY <2>1, CommitKeepsRows DEF Backed
  <1>6. \A w \in OpenIds, row \in {copy[q], b.row} : KeepsOwn(row, w) => KeepsOwn(row, w)'
    BY <1>2, OwnLinkStays DEF KeepsOwn, Mine
  <1>7. Named(q)'
    BY <1>2, <1>6 DEF Mine, Backed, Named, KeepsOwn
  <1> QED
    BY <1>2, <1>3, <1>4, <1>5, <1>7 DEF Backed, Mine

LEMMA CommitIsBacked ==
  ASSUME TypeOK, NEW r \in Requests, Local(r), Backed(r), Commits(r) PROVE Backed(r)'
  <1>1. CASE End(r)
    BY <1>1, EndSettles
  <1>2. CASE ~End(r)
    <2>1. /\ at[r] = "created" /\ dirty'[r] = Clean /\ at'[r] = AfterCreate(r) /\ ask' = ask
          /\ AfterCreate(r) # "idle"
      BY <1>2 DEF Commits, CommitUser, CommitUnit, Commit, Go, TypeOK
    <2>2. ask[r] \in Calls /\ Kind(r) \in {"register", "script"} /\ who[r] \in Users /\ who[r] = NewName(r)
      BY <2>1 DEF Local, AskedFor, Transaction
    <2>3. AfterCreate(r) \in {"spend", "owner", "linked"}
      BY <2>1 DEF AfterCreate
    <2>4. user'[ask[r].email] # NoRow
      <3>1. ask[r].email = who[r]
        BY <2>2 DEF NewName, MiniApp, Kind
      <3> QED
        BY <3>1, WhatCommits, RowsAreTyped
    <2> QED
      BY <2>1, <2>3, <2>4 DEF Backed, Named, Open
  <1> QED
    BY <1>1, <1>2

LEMMA CommitSharesNothing ==
  ASSUME TypeOK, NothingShared, NEW r \in Requests, Local(r), Backed(r), Commits(r)
  PROVE  NothingShared'
  <1> DEFINE d == dirty[r]
  <1>1. /\ Open(r) /\ Free(r) /\ d.user \in Users /\ d.row \in Row /\ d.base \in Row \cup {NoRow}
    BY WhatCommits DEF Backed
  <1>2. ASSUME NEW v \in Users \ {d.user}
        PROVE  /\ user'[d.user].nick # None => user'[d.user].nick # user[v].nick
               /\ user'[d.user].phone # None => user'[d.user].phone # user[v].phone
               /\ IdsOf(user'[d.user]) \cap IdsOf(user[v]) = {}
    <2>1. user'[d.user].nick # None => user'[d.user].nick # user[v].nick
      BY <1>1, <1>2, WhatCommits DEF Free, NothingShared
    <2>2. user'[d.user].phone # None => user'[d.user].phone # user[v].phone
      BY <1>1, <1>2, WhatCommits DEF Free, NothingShared
    <2>3. \A l \in user'[d.user].links : l.openid \notin IdsOf(user[v])
      <3>1. TAKE l \in user'[d.user].links
      <3>2. l \in user[d.user].links \/ l \in d.row.links \ d.base.links
        BY WhatCommits
      <3> QED
        BY <1>1, <1>2, <3>2 DEF Free, NothingShared, IdsOf
    <2> QED
      BY <2>1, <2>2, <2>3 DEF IdsOf
  <1>3. ASSUME NEW u \in Users, NEW v \in Users, u # v
        PROVE  /\ user'[u].nick # None => user'[u].nick # user'[v].nick
               /\ user'[u].phone # None => user'[u].phone # user'[v].phone
               /\ IdsOf(user'[u]) \cap IdsOf(user'[v]) = {}
    <2>1. CASE u = d.user
      BY <1>2, <1>3, <2>1, WhatCommits
    <2>2. CASE v = d.user
      BY <1>2, <1>3, <2>2, WhatCommits
    <2>3. CASE u # d.user /\ v # d.user
      BY <1>3, <2>3, WhatCommits DEF NothingShared
    <2> QED
      BY <2>1, <2>2, <2>3
  <1> QED
    BY <1>3 DEF NothingShared, IdsOf

LEMMA CommitLinksOnce ==
  ASSUME TypeOK, LinkedOnce, NEW r \in Requests, Local(r), Backed(r), Commits(r)
  PROVE  LinkedOnce'
  <1> DEFINE d == dirty[r]
  <1>1. Free(r) /\ OneLinkEach(d.row) /\ d.user \in Users
    BY WhatCommits DEF Backed, Local, Copies
  <1>2. ASSUME NEW l \in user'[d.user].links, NEW m \in user'[d.user].links, l.openid = m.openid
        PROVE  l = m
    <2>1. \A k \in {l, m} : k \in user[d.user].links \/ k \in d.row.links \ d.base.links
      BY WhatCommits
    <2>2. CASE l \in user[d.user].links /\ m \in user[d.user].links
      BY <1>1, <1>2, <2>2 DEF LinkedOnce, OneLinkEach
    <2>3. CASE l \in d.row.links /\ m \in d.row.links
      BY <1>1, <1>2, <2>3 DEF OneLinkEach
    <2>4. ~(l \in user[d.user].links /\ m \in d.row.links \ d.base.links)
      BY <1>1, <1>2 DEF Free, IdsOf
    <2>5. ~(m \in user[d.user].links /\ l \in d.row.links \ d.base.links)
      BY <1>1, <1>2 DEF Free, IdsOf
    <2> QED
      BY <2>1, <2>2, <2>3, <2>4, <2>5
  <1>3. \A u \in Users : \A l, m \in user'[u].links : l.openid = m.openid => l = m
    BY <1>2, WhatCommits DEF LinkedOnce, OneLinkEach
  <1> QED
    BY <1>3 DEF LinkedOnce, OneLinkEach

LEMMA CommitLeavesNoHalf ==
  ASSUME TypeOK, LinkedOnce, NoHalfAccount, NEW r \in Requests, Local(r), Backed(r), Commits(r)
  PROVE  NoHalfAccount'
  <1> DEFINE d == dirty[r]
  <1> SUFFICES ASSUME NEW w \in OpenIds, user'[w] # NoRow PROVE w \in IdsOf(user'[w])
    BY DEF NoHalfAccount, IdsOf
  <1>1. w \in Users
    BY DEF Users
  <1>2. CASE user[w] # NoRow
    <2>1. PICK l \in user[w].links : l.openid = w
      BY <1>2 DEF NoHalfAccount, IdsOf
    <2>2. l \in user'[w].links
      BY <2>1, OwnLinkStays
    <2> QED
      BY <2>1, <2>2 DEF IdsOf
  <1>3. CASE user[w] = NoRow
    <2>1. w = d.user /\ w = who[r] /\ Open(r)
      BY <1>1, <1>3, WhatCommits
    <2>2. Creating(r) /\ user'[w] = d.row
      <3>1. Creating(r)
        BY <1>3, <2>1 DEF Backed
      <3> QED
        BY <2>1, <3>1, ViewIsTyped DEF Backed, Grounded, Commits
    <2>3. at[r] # "created"
      <3>1. SUFFICES ASSUME at[r] = "created" PROVE FALSE
        OBVIOUS
      <3>2. who[r] = ask[r].email /\ ask[r].email \in Emails
        BY <2>2, <3>1, CallsAreTyped DEF Local, AskedFor, Transaction, NewName, MiniApp, Kind
      <3> QED
        BY <2>1, <3>2, ConstantsAssumption
    <2>4. at[r] = "commit"
      BY <2>3 DEF Commits, CommitUser, CommitUnit
    <2> QED
      BY <2>1, <2>2, <2>4 DEF Backed, Named
  <1> QED
    BY <1>2, <1>3

-----------------------------------------------------------------------------
(* Locks. *)

\* What r holds more than before, nobody else holds: a flush waits.
LEMMA HeldIsWaitedFor ==
  ASSUME TypeOK, NEW r \in Requests, Local(r), Backed(r), StepOf(r), Open(r)'
  PROVE  \A q \in Requests \ {r} : Open(q) =>
           Held(r)' \cap Held(q) = {} \/ (Open(r) /\ Held(r)' \cap Held(q) \subseteq Held(r) \cap Held(q))
  <1>1. ~End(r) /\ ~Refuse(r)
    BY EndSettles DEF Refuse
  <1>2. CASE Insert(r)
    <2> DEFINE u == NewName(r)
               row == [NoRow EXCEPT !.nick = NewNick(r)]
    <2>1. dirty'[r] = [user |-> u, base |-> NoRow, row |-> row] /\ ~Blocked(r, u, NoRow, row)
      BY <1>1, <1>2 DEF Insert, TypeOK
    <2> HIDE DEF u, row
    <2>2. Held(r)' = Touched(u, NoRow, row)
      BY <2>1 DEF Held, Touched
    <2> QED
      BY <2>1, <2>2 DEF Blocked, Open, Held
  <1>3. CASE Flush(r)
    <2>1. /\ ~Blocked(r, who[r], seen[r], copy[r]) /\ at[r] = "flush"
          /\ dirty'[r] = IF dirty[r] = Clean THEN [user |-> who[r], base |-> seen[r], row |-> copy[r]]
                         ELSE [dirty[r] EXCEPT !.row = copy[r]]
      BY <1>1, <1>3 DEF Flush, TypeOK
    <2>2. CASE ~Open(r)
      <3>1. Held(r)' = Touched(who[r], seen[r], copy[r])
        <4>1. dirty'[r].user = who[r] /\ dirty'[r].base = seen[r] /\ dirty'[r].row = copy[r]
          BY <2>1, <2>2 DEF Open
        <4> QED
          BY <4>1 DEF Held, Touched
      <3> QED
        BY <2>1, <3>1 DEF Blocked, Open, Held
    <2>3. CASE Open(r)
      <3>1. /\ dirty[r].base = NoRow /\ dirty[r].user = who[r] /\ dirty[r].row = seen[r]
            /\ seen[r] \in Row /\ copy[r] \in Row
        BY <2>1, <2>3 DEF Local, Transaction, Copies, Creating, Open, TypeOK
      <3>2. dirty'[r].user = who[r] /\ dirty'[r].base = NoRow /\ dirty'[r].row = copy[r]
        BY <2>1, <2>3, <3>1 DEF Open, TypeOK
      <3>3. Held(r)' = Touched(who[r], NoRow, copy[r]) /\ Held(r) = Touched(who[r], NoRow, seen[r])
        BY <3>1, <3>2 DEF Held, Touched
      <3>4. Held(r)' \subseteq Held(r) \cup Touched(who[r], seen[r], copy[r])
        BY <3>1, <3>3, TouchedGrows
      <3>5. \A q \in Requests \ {r} : Open(q) => Touched(who[r], seen[r], copy[r]) \cap Held(q) = {}
        BY <2>1 DEF Blocked, Open, Held
      <3> QED
        BY <2>3, <3>4, <3>5
    <2> QED
      BY <2>2, <2>3
  <1>4. CASE ~Insert(r) /\ ~Flush(r)
    <2>1. dirty'[r] = dirty[r]
      <3>1. CASE CommitUser(r) \/ CommitUnit(r)
        BY <1>1, <3>1 DEF CommitUser, CommitUnit, Commit, Open, TypeOK
      <3>2. CASE ~(CommitUser(r) \/ CommitUnit(r))
        BY <1>1, <1>4, <3>2 DEF StepOf, Begin, Die, Ttl, Store, Verify, SpendCode, Ensure, Pass,
           ByUnion, ByOpenid, ByPhone, Owner, Linked, Settle, Load, Reread
      <3> QED
        BY <3>1, <3>2
    <2> QED
      BY <2>1 DEF Held, Touched, Open
  <1> QED
    BY <1>2, <1>3, <1>4

LEMMA StepKeepsDisjoint ==
  ASSUME TypeOK, Disjoint, NEW r \in Requests, Local(r), Backed(r), StepOf(r)
  PROVE  Disjoint'
  <1>1. \A q \in Requests \ {r} : Open(q)' = Open(q) /\ Held(q)' = Held(q)
    BY OthersStay, MineIsMine
  <1>2. \A q \in Requests \ {r} : Open(q) /\ Open(r)' => Held(r)' \cap Held(q) = {}
    BY HeldIsWaitedFor DEF Disjoint
  <1>3. ASSUME NEW p \in Requests, NEW q \in Requests, p # q, Open(p)', Open(q)'
        PROVE  Held(p)' \cap Held(q)' = {}
    BY <1>1, <1>2, <1>3 DEF Disjoint
  <1> QED
    BY <1>3 DEF Disjoint

-----------------------------------------------------------------------------
(* The invariant. *)

LEMMA InitInv == Init => Inv
  <1> SUFFICES ASSUME Init PROVE Inv
    OBVIOUS
  <1>1. TypeOK
    BY DEF Init, TypeOK, NoCode, Places
  <1>2. \A r \in Requests : Local(r) /\ Backed(r) /\ ~Open(r)
    BY DEF Init, Local, AskedFor, Transaction, Copies, Backed, Named, Open, Creating, OneLinkEach, Clean, NoRow
  <1>3. LinkedOnce /\ NothingShared /\ NoHalfAccount /\ CodesAreCodes
    BY DEF Init, LinkedOnce, OneLinkEach, NothingShared, NoHalfAccount, CodesAreCodes, IdsOf, NoRow, NoCode, Users
  <1> QED
    BY <1>1, <1>2, <1>3 DEF Inv, Disjoint

LEMMA StepKeepsInv == ASSUME Inv, NEW r \in Requests, StepOf(r) PROVE Inv'
  <1>1. TypeOK /\ LinkedOnce /\ NothingShared /\ NoHalfAccount /\ Disjoint /\ Local(r) /\ Backed(r) /\ Grounded(r)
    BY DEF Inv, Backed, Grounded
  <1>2. TypeOK'
    BY <1>1, StepIsTyped
  <1>3. CodesAreCodes'
    <2>1. CASE Store(r)
      <3>1. PICK c \in Codes : code' = [code EXCEPT ![ask[r].email] = [value |-> c, fresh |-> TRUE]]
        BY <2>1 DEF Store
      <3> QED
        BY <1>1, <3>1 DEF Inv, CodesAreCodes, TypeOK
    <2>2. CASE SpendCode(r)
      <3>1. \A e \in Emails : code'[e] = code[e] \/ code'[e] = NoCode
        BY <1>1, <2>2 DEF SpendCode, TypeOK
      <3> QED
        BY <3>1 DEF NoCode, Inv, CodesAreCodes
    <2>3. CASE ~(Store(r) \/ SpendCode(r))
      <3>1. code' = code
        BY <2>3 DEF StepOf, Begin, Die, Refuse, Ttl, Verify, Ensure, Pass, Insert, CommitUser,
           CommitUnit, Commit, ByUnion, ByOpenid, ByPhone, Owner, Linked, Settle, Load, Reread, Flush
      <3> QED
        BY <3>1 DEF Inv, CodesAreCodes
    <2> QED
      BY <2>1, <2>2, <2>3
  <1>4. \A q \in Requests : Local(q)'
    <2>1. Local(r)'
      BY <1>1, StepIsLocal
    <2>2. \A q \in Requests \ {r} : Local(q)'
      BY <1>1, OthersStay, MineIsMine DEF Inv
    <2> QED
      BY <2>1, <2>2
  <1>5. Disjoint'
    BY <1>1, StepKeepsDisjoint
  <1>6. CASE user' = user /\ ~(CommitUser(r) \/ CommitUnit(r))
    <2>1. \A q \in Requests : Backed(q)'
      <3>1. Backed(r)'
        BY <1>1, <1>6, QuietStepIsBacked
      <3>2. \A q \in Requests \ {r} : Backed(q)'
        BY <1>1, <1>6, OthersStay, BackedStays DEF Inv
      <3> QED
        BY <3>1, <3>2
    <2>2. LinkedOnce' /\ NothingShared' /\ NoHalfAccount'
      BY <1>1, <1>6 DEF LinkedOnce, OneLinkEach, NothingShared, NoHalfAccount, IdsOf
    <2> QED
      BY <1>2, <1>3, <1>4, <1>5, <2>1, <2>2 DEF Inv
  <1>7. CASE Commits(r)
    <2>1. \A q \in Requests : Backed(q)'
      <3>1. Backed(r)'
        BY <1>1, <1>7, CommitIsBacked
      <3>2. \A q \in Requests \ {r} : Backed(q)'
        BY <1>1, <1>7, OthersStay, CommitKeepsBacked DEF Inv
      <3> QED
        BY <3>1, <3>2
    <2>2. LinkedOnce' /\ NothingShared' /\ NoHalfAccount'
      BY <1>1, <1>7, CommitLinksOnce, CommitSharesNothing, CommitLeavesNoHalf
    <2> QED
      BY <1>2, <1>3, <1>4, <1>5, <2>1, <2>2 DEF Inv
  <1>8. (CommitUser(r) \/ CommitUnit(r)) => Commits(r)
    BY DEF CommitUser, CommitUnit, Commit, Commits
  <1> QED
    BY <1>6, <1>7, <1>8, OnlyCommitsWrite

\* Time passes for a captcha, or nothing happens.
LEMMA OthersKeepInv ==
  ASSUME Inv, (\E e \in Emails : Age(e) \/ Expire(e)) \/ UNCHANGED vars PROVE Inv'
  <1>1. UNCHANGED <<user, dirty, ask, at, who, found, copy, seen>>
    BY DEF Age, Expire, vars
  <1>2. code' \in [Emails -> [value : Codes \cup {None}, fresh : BOOLEAN]] /\ CodesAreCodes'
    <2>1. CASE UNCHANGED vars
      BY <2>1 DEF Inv, TypeOK, CodesAreCodes, vars
    <2>2. ASSUME NEW e \in Emails, Age(e)
          PROVE  code' \in [Emails -> [value : Codes \cup {None}, fresh : BOOLEAN]] /\ CodesAreCodes'
      BY <2>2 DEF Age, Inv, TypeOK, CodesAreCodes
    <2>3. ASSUME NEW e \in Emails, Expire(e)
          PROVE  code' \in [Emails -> [value : Codes \cup {None}, fresh : BOOLEAN]] /\ CodesAreCodes'
      BY <2>3 DEF Expire, NoCode, Inv, TypeOK, CodesAreCodes
    <2> QED
      BY <2>1, <2>2, <2>3
  <1>3. TypeOK'
    BY <1>1, <1>2 DEF Inv, TypeOK
  <1>4. \A r \in Requests : Local(r)' /\ Backed(r)'
    BY <1>1, MineIsMine, BackedStays DEF Inv, Mine
  <1>5. Disjoint'
    <2>1. \A r \in Requests : Open(r)' = Open(r) /\ Held(r)' = Held(r)
      BY <1>1, MineIsMine DEF Mine
    <2> QED
      BY <2>1 DEF Inv, Disjoint
  <1>6. LinkedOnce' /\ NothingShared' /\ NoHalfAccount'
    BY <1>1 DEF Inv, LinkedOnce, OneLinkEach, NothingShared, NoHalfAccount, IdsOf
  <1> QED
    BY <1>2, <1>3, <1>4, <1>5, <1>6 DEF Inv

LEMMA AlwaysInv == Spec => []Inv
  <1>1. Inv /\ [Next]_vars => Inv'
    BY StepKeepsInv, OthersKeepInv, NextIsAStep
  <1> QED
    BY <1>1, InitInv, PTL DEF Spec

-----------------------------------------------------------------------------
\* Every row, aggregate, call and captcha keeps its type, whatever requests
\* interleave: no merge of a flush makes a row without a nickname.
THEOREM TypeCorrect == Spec => []TypeOK
  <1>1. Inv => TypeOK
    BY DEF Inv
  <1> QED
    BY <1>1, AlwaysInv, PTL

\* No two users come to share a nickname, a phone or a WeChat identity, although
\* every check is read outside the transaction that writes: the flush waits for
\* keys that are held and is refused when they are taken.
THEOREM NothingSharedCorrect == Spec => []NothingShared
  <1>1. Inv => NothingShared
    BY DEF Inv
  <1> QED
    BY <1>1, AlwaysInv, PTL

\* A user of the mini-app always has the identity it was created for: it is
\* inserted with its link in one transaction, and no stale aggregate that is
\* saved later takes that link away.
THEOREM NoHalfAccountCorrect == Spec => []NoHalfAccount
  <1>1. Inv => NoHalfAccount
    BY DEF Inv
  <1> QED
    BY <1>1, AlwaysInv, PTL

\* A captcha that has not expired is taken away only when its email has an
\* account that is committed.
THEOREM CodeSpentOnAccountCorrect == Spec => CodeSpentOnAccount
  <1> DEFINE Spent == \A e \in Emails : code[e] # NoCode /\ code'[e] = NoCode /\ ~Expire(e) => user[e] # NoRow
  <1>1. Inv /\ Next => Spent
    <2> SUFFICES ASSUME Inv, Next, NEW e \in Emails, code[e] # NoCode, code'[e] = NoCode, ~Expire(e)
                 PROVE  user[e] # NoRow
      OBVIOUS
    <2>1. ASSUME NEW x \in Emails, Age(x) \/ Expire(x) PROVE FALSE
      <3>1. x = e
        BY <2>1 DEF Age, Expire, Inv, TypeOK
      <3>2. code[e].value \in Codes /\ code'[e].value = code[e].value
        BY <2>1, <3>1 DEF Age, Inv, TypeOK, CodesAreCodes
      <3> QED
        BY <3>2, ConstantsAssumption DEF NoCode
    <2>2. PICK r \in Requests : StepOf(r)
      BY <2>1, NextIsAStep
    <2>3. CASE Store(r)
      <3>1. PICK c \in Codes : code' = [code EXCEPT ![ask[r].email] = [value |-> c, fresh |-> TRUE]]
        BY <2>3 DEF Store
      <3>2. code'[e] = code[e] \/ code'[e] = [value |-> c, fresh |-> TRUE]
        BY <3>1 DEF Inv, TypeOK
      <3> QED
        BY <3>2 DEF NoCode
    <2>4. CASE SpendCode(r)
      <3>1. ask[r].email = e /\ at[r] = "spend"
        BY <2>4 DEF SpendCode, Inv, TypeOK
      <3> QED
        BY <3>1 DEF Inv, Backed
    <2>5. CASE ~(Store(r) \/ SpendCode(r))
      BY <2>2, <2>5 DEF StepOf, Begin, Die, Refuse, Ttl, Verify, Ensure, Pass, Insert, CommitUser,
         CommitUnit, Commit, ByUnion, ByOpenid, ByPhone, Owner, Linked, Settle, Load, Reread, Flush
    <2> QED
      BY <2>3, <2>4, <2>5
  <1>2. Inv /\ [Next]_vars => [Spent]_vars
    BY <1>1
  <1> QED
    BY <1>2, AlwaysInv, PTL DEF Spec, CodeSpentOnAccount
=============================================================================
