---------------------------- MODULE UsersProofs ----------------------------
(***************************************************************************)
(* Proofs about Users, for every set of handlers, roles, bios and blobs,   *)
(* every bound and every lifetime.  The invariants say, of a unit that has *)
(* loaded, what it will write in the columns nobody has committed since.   *)
(***************************************************************************)
EXTENDS Users, SequenceTheorems, TLAPS

Loading == {"load", "reread", "flush", "commit"}
Saving == {"reread", "flush", "commit"}
Tokens == [sub : {"none", "access", "refresh"}, roles : SUBSET Roles,
           exp : 0..(MaxTime + AccessLife + RefreshLife + DefaultLife)]
Job == [state : {"absent", "queued", "running", "done", "failed"},
        attempts : 0..MaxAttempts, by : Handlers \cup {None}]
Call == Calls \cup {NoCall} \cup [kind : {"avatar"}, blob : Blobs]

\* A handler that is not idle works on a call, and only the avatar activity
\* goes on to Redis.
Busy ==
  \A h \in Handlers :
    /\ at[h] \in Loading => call[h] # NoCall
    /\ at[h] = "approve" => call[h] \in [kind : {"avatar"}, blob : Blobs]

\* TypeOK in two parts, sharper where steps need it.
UnitTypes ==
  /\ call \in [Handlers -> Call]
  /\ at \in [Handlers -> {"idle", "load", "reread", "flush", "commit", "approve"}]
  /\ agg \in [Handlers -> [user : User, events : Seq(Event)]]
  /\ \A h \in Handlers : Len(agg[h].events) <= 2
  /\ seen \in [Handlers -> User]
  /\ late \in [Handlers -> SUBSET Columns]
  /\ Busy

WorldTypes ==
  /\ row \in User /\ told \in User
  /\ raced \in SUBSET Columns
  /\ served \in 0..MaxCalls
  /\ job \in [Blobs -> Job]
  /\ \A b \in Blobs : job[b].state = "queued" => job[b].attempts < MaxAttempts
  /\ status \in 0..(MaxTime + StatusLife) /\ now \in 0..MaxTime
  /\ access \in Tokens /\ refresh \in Tokens
  /\ held \in [0..MaxTime -> SUBSET Roles]

Types == UnitTypes /\ WorldTypes

-----------------------------------------------------------------------------
(* The aggregate's methods. *)

\* What a method leaves behind: a user, and the events that lead to it.
Tells(a, user) ==
  /\ a \in [user : User, events : Seq(Event)]
  /\ Len(a.events) <= 2
  /\ a.user = HearAll(user, a.events)

LEMMA EventKinds ==
  /\ UserCreated \in Event
  /\ \A roles \in SUBSET Roles : RolesAssigned(roles) \in Event
  /\ \A bio \in Bios : ProfileUpdated("bio", bio) \in Event
  /\ \A blob \in Blobs : ProfileUpdated("avatar", blob) \in Event
  BY DEF Event

LEMMA NoUserType == NoUser \in User
  BY DEF NoUser, User

\* A request is one of the calls, and its kind tells its fields.
LEMMA CallKinds ==
  ASSUME NEW c \in Call, c # NoCall
  PROVE  \/ c.kind = "create" /\ c.role \in Roles \cup {None}
         \/ c.kind = "assign" /\ c.roles \in SUBSET Roles
         \/ c.kind = "profile" /\ c.bio \in Bios \cup {None}
         \/ c.kind = "avatar" /\ c.blob \in Blobs
  BY CallsAssumption DEF Call

\* The events of assign_roles lead to the roles it leaves.
LEMMA AssignTells ==
  ASSUME NEW user \in User, NEW roles \in SUBSET Roles
  PROVE  /\ Tells(AssignRoles(Loaded(user), roles), user)
         /\ AssignRoles(Loaded(user), roles).user.avatar = user.avatar
         /\ AssignRoles(Loaded(user), roles).user.exists = user.exists
  <1> DEFINE added == roles \ user.roles
             new == [user EXCEPT !.roles = @ \cup roles]
  <1>1. new \in User /\ new.avatar = user.avatar /\ new.exists = user.exists
    BY DEF User
  <1>2. CASE added = {}
    <2>1. AssignRoles(Loaded(user), roles) = [user |-> new, events |-> <<>>]
      BY <1>2 DEF AssignRoles, Loaded
    <2>2. new = user
      BY <1>2 DEF User
    <2>3. Tells(AssignRoles(Loaded(user), roles), user)
      BY <1>1, <2>1, <2>2 DEF Tells, HearAll
    <2> HIDE DEF new
    <2> QED
      BY <1>1, <2>1, <2>3
  <1>3. CASE added # {}
    <2>1. AssignRoles(Loaded(user), roles) = [user |-> new, events |-> <<RolesAssigned(added)>>]
      BY <1>3 DEF AssignRoles, Loaded, Raise
    <2>2. RolesAssigned(added) \in Event
      BY EventKinds
    <2>3. Hear(user, RolesAssigned(added)) = new
      BY DEF Hear, RolesAssigned, User
    <2>4. Tells(AssignRoles(Loaded(user), roles), user)
      BY <1>1, <2>1, <2>2, <2>3 DEF Tells, HearAll
    <2> HIDE DEF new
    <2> QED
      BY <1>1, <2>1, <2>4
  <1> QED
    BY <1>2, <1>3

LEMMA AppendPair ==
  ASSUME NEW S, NEW x \in S, NEW y \in S
  PROVE  Append(<<x>>, y) = <<x, y>>
  <1>1. <<x>> \in Seq(S) /\ Len(<<x>>) = 1 /\ <<x>>[1] = x
    OBVIOUS
  <1>2. <<x, y>> \in Seq(S) /\ Len(<<x, y>>) = 2 /\ <<x, y>>[1] = x /\ <<x, y>>[2] = y
    OBVIOUS
  <1> DEFINE s == <<x>>
             t == <<x, y>>
  <1>3. Append(s, y) \in Seq(S) /\ Len(Append(s, y)) = 2 /\ Append(s, y)[1] = x /\ Append(s, y)[2] = y
    <2> HIDE DEF s
    <2> QED
      BY <1>1, AppendProperties DEF s
  <1>4. t \in Seq(S) /\ Len(t) = 2 /\ t[1] = x /\ t[2] = y
    BY <1>2
  <1>5. Append(s, y) = t
    <2> DEFINE u == Append(s, y)
    <2> HIDE DEF s, t, u
    <2>1. Len(u) = Len(t) /\ \A i \in 1..Len(u) : u[i] = t[i]
      BY <1>3, <1>4 DEF u
    <2> QED
      BY <1>3, <1>4, <2>1, SeqEqual DEF u
  <1> QED
    BY <1>5

LEMMA CreateTells ==
  ASSUME NEW role \in Roles \cup {None}
  PROVE  /\ Tells(Create(role), NoUser)
         /\ Create(role).user.exists = TRUE /\ Create(role).user.avatar = None
  <1> DEFINE made == [NoUser EXCEPT !.exists = TRUE]
             named == [made EXCEPT !.roles = {role}]
  <1>1. made \in User /\ NoUser \in User
    BY NoUserType DEF User
  <1>2. CASE role = None
    <2>1. Create(role) = [user |-> made, events |-> <<UserCreated>>]
      BY <1>2 DEF Create, Loaded, Raise
    <2>2. Hear(NoUser, UserCreated) = made
      BY DEF Hear, UserCreated, NoUser
    <2>3. Tells(Create(role), NoUser)
      BY <1>1, <2>1, <2>2, EventKinds DEF Tells, HearAll
    <2>4. made.exists = TRUE /\ made.avatar = None
      BY DEF NoUser
    <2> HIDE DEF made
    <2> QED
      BY <2>1, <2>3, <2>4
  <1>3. CASE role # None
    <2>1. named \in User /\ role \in Roles
      BY <1>1, <1>3 DEF User
    <2>2. Create(role) = [user |-> named, events |-> <<RolesAssigned({role}), UserCreated>>]
      <3>1. made.roles = {}
        BY DEF NoUser
      <3>2. AssignRoles(Loaded(made), {role}) = [user |-> named, events |-> <<RolesAssigned({role})>>]
        <4>1. {role} \ made.roles = {role} /\ made.roles \cup {role} = {role}
          BY <3>1
        <4>2. [made EXCEPT !.roles = @ \cup {role}] = named
          BY <4>1 DEF NoUser
        <4> HIDE DEF made, named
        <4>3. Append(<<>>, RolesAssigned({role})) = <<RolesAssigned({role})>>
          OBVIOUS
        <4> QED
          BY <4>1, <4>2, <4>3 DEF AssignRoles, Loaded, Raise
      <3>3. Create(role) = Raise(AssignRoles(Loaded(made), {role}), UserCreated)
        BY <1>3 DEF Create
      <3>4. Append(<<RolesAssigned({role})>>, UserCreated) = <<RolesAssigned({role}), UserCreated>>
        BY <2>1, EventKinds, AppendPair
      <3> HIDE DEF made, named
      <3>5. Raise([user |-> named, events |-> <<RolesAssigned({role})>>], UserCreated)
              = [user |-> named, events |-> <<RolesAssigned({role}), UserCreated>>]
        BY <3>4, Zenon DEF Raise
      <3> QED
        BY <3>2, <3>3, <3>5
    <2>3. Hear(Hear(NoUser, RolesAssigned({role})), UserCreated) = named
      BY DEF Hear, RolesAssigned, UserCreated, NoUser
    <2>4. Tells(Create(role), NoUser)
      BY <2>1, <2>2, <2>3, EventKinds DEF Tells, HearAll
    <2>5. named.exists = TRUE /\ named.avatar = None
      BY DEF NoUser
    <2> HIDE DEF named
    <2> QED
      BY <2>2, <2>4, <2>5
  <1> QED
    BY <1>2, <1>3

LEMMA ProfileTells ==
  ASSUME NEW user \in User, NEW bio \in Bios \cup {None}
  PROVE  /\ Tells(UpdateProfile(Loaded(user), bio), user)
         /\ UpdateProfile(Loaded(user), bio).user.avatar = user.avatar
         /\ UpdateProfile(Loaded(user), bio).user.exists = user.exists
  <1> DEFINE new == [user EXCEPT !.bio = bio]
  <1>1. CASE bio \in {None, user.bio}
    BY <1>1 DEF UpdateProfile, Loaded, Tells, HearAll
  <1>2. CASE bio \notin {None, user.bio}
    <2>1. UpdateProfile(Loaded(user), bio) = [user |-> new, events |-> <<ProfileUpdated("bio", bio)>>]
      BY <1>2 DEF UpdateProfile, Loaded, Raise
    <2>2. Hear(user, ProfileUpdated("bio", bio)) = new
      BY DEF Hear, ProfileUpdated, User
    <2>3. new \in User /\ new.avatar = user.avatar /\ new.exists = user.exists
      BY <1>2 DEF User
    <2>4. ProfileUpdated("bio", bio) \in Event
      BY <1>2, EventKinds
    <2> HIDE DEF new
    <2>5. Tells(UpdateProfile(Loaded(user), bio), user)
      BY <2>1, <2>2, <2>3, <2>4 DEF Tells, HearAll
    <2> QED
      BY <2>1, <2>3, <2>5
  <1> QED
    BY <1>1, <1>2

LEMMA AvatarTells ==
  ASSUME NEW user \in User, NEW blob \in Blobs
  PROVE  /\ Tells(SetAvatar(Loaded(user), blob), user)
         /\ SetAvatar(Loaded(user), blob).user.avatar = blob
         /\ SetAvatar(Loaded(user), blob).user.exists = user.exists
  <1> DEFINE new == [user EXCEPT !.avatar = blob]
  <1>1. CASE blob = user.avatar
    BY <1>1 DEF SetAvatar, Loaded, Tells, HearAll
  <1>2. CASE blob # user.avatar
    <2>1. SetAvatar(Loaded(user), blob) = [user |-> new, events |-> <<ProfileUpdated("avatar", blob)>>]
      BY <1>2 DEF SetAvatar, Loaded, Raise
    <2>2. Hear(user, ProfileUpdated("avatar", blob)) = new
      BY DEF Hear, ProfileUpdated, User
    <2>3. new \in User /\ new.avatar = blob /\ new.exists = user.exists
      BY DEF User
    <2>4. ProfileUpdated("avatar", blob) \in Event
      BY EventKinds
    <2> HIDE DEF new
    <2> QED
      BY <2>1, <2>2, <2>3, <2>4 DEF Tells, HearAll
  <1> QED
    BY <1>1, <1>2

\* Whatever the call, the events lead from the user to the aggregate, where
\* for create() there is no user; only the activity touches the avatar.
LEMMA ChangedTells ==
  ASSUME NEW user \in User, NEW c \in Call, c # NoCall
  PROVE  /\ Tells(Changed(c, user), IF c.kind = "create" THEN NoUser ELSE user)
         /\ c.kind = "avatar" => Changed(c, user).user.avatar = c.blob
         /\ c.kind \notin {"create", "avatar"} => Changed(c, user).user.avatar = user.avatar
         /\ c.kind # "create" => Changed(c, user).user.exists = user.exists
         /\ c.kind = "create" => /\ Changed(c, user).user.exists = TRUE
                                 /\ Changed(c, user).user.avatar = None
  <1>1. CASE c.kind = "create" /\ c.role \in Roles \cup {None}
    BY <1>1, CreateTells DEF Changed
  <1>2. CASE c.kind = "assign" /\ c.roles \in SUBSET Roles
    BY <1>2, AssignTells DEF Changed
  <1>3. CASE c.kind = "profile" /\ c.bio \in Bios \cup {None}
    BY <1>3, ProfileTells DEF Changed
  <1>4. CASE c.kind = "avatar" /\ c.blob \in Blobs
    BY <1>4, AvatarTells DEF Changed
  <1> QED
    BY <1>1, <1>2, <1>3, <1>4, CallKinds

-----------------------------------------------------------------------------
(* Types. *)

LEMMA HearType ==
  ASSUME NEW user \in User, NEW event \in Event
  PROVE  Hear(user, event) \in User
  <1>1. CASE event = UserCreated
    BY <1>1 DEF Hear, UserCreated, User
  <1>2. ASSUME NEW roles \in SUBSET Roles, event = RolesAssigned(roles) PROVE Hear(user, event) \in User
    BY <1>2 DEF Hear, RolesAssigned, User
  <1>3. ASSUME NEW bio \in Bios, event = ProfileUpdated("bio", bio) PROVE Hear(user, event) \in User
    BY <1>3 DEF Hear, ProfileUpdated, User
  <1>4. ASSUME NEW blob \in Blobs, event = ProfileUpdated("avatar", blob) PROVE Hear(user, event) \in User
    BY <1>4 DEF Hear, ProfileUpdated, User
  <1> QED
    BY <1>1, <1>2, <1>3, <1>4 DEF Event

LEMMA Lengths ==
  ASSUME NEW events \in Seq(Event), Len(events) <= 2
  PROVE  \/ Len(events) = 0
         \/ Len(events) = 1 /\ events[1] \in Event
         \/ Len(events) = 2 /\ events[1] \in Event /\ events[2] \in Event
  <1> DEFINE n == Len(events)
  <1>1. n \in Nat /\ n <= 2
    BY LenProperties
  <1>2. n \in {0, 1, 2}
    <2> HIDE DEF n
    <2> QED
      BY <1>1
  <1>3. n = 1 => events[1] \in Event
    BY ElementOfSeq
  <1>4. n = 2 => events[1] \in Event /\ events[2] \in Event
    BY ElementOfSeq
  <1> QED
    BY <1>2, <1>3, <1>4

LEMMA HearAllType ==
  ASSUME NEW user \in User, NEW events \in Seq(Event), Len(events) <= 2
  PROVE  HearAll(user, events) \in User
  <1>1. CASE Len(events) = 0
    BY <1>1 DEF HearAll
  <1>2. CASE Len(events) = 1 /\ events[1] \in Event
    BY <1>2, HearType DEF HearAll
  <1>3. CASE Len(events) = 2 /\ events[1] \in Event /\ events[2] \in Event
    <2>1. Hear(user, events[1]) \in User
      BY <1>3, HearType
    <2>2. Hear(Hear(user, events[1]), events[2]) \in User
      BY <1>3, <2>1, HearType
    <2> QED
      BY <1>3, <2>2 DEF HearAll
  <1> QED
    BY <1>1, <1>2, <1>3, Lengths

LEMMA MergeType ==
  ASSUME NEW user \in User, NEW base \in User, NEW mine \in User
  PROVE  Merge(user, base, mine) \in User
  BY DEF Merge, Column, Rows, User

LEMMA RetryType ==
  ASSUME NEW j \in Job
  PROVE  /\ Retry(j) \in Job /\ Done(j) \in Job
         /\ Retry(j).state = "queued" => Retry(j).attempts < MaxAttempts
         /\ Retry(j).attempts = j.attempts /\ Done(j).attempts = j.attempts
         /\ Done(j).state = "done"
  BY ConstantsAssumption DEF Retry, Done, Job

LEMMA TypesTypeOK == Types => TypeOK
  BY DEF Types, UnitTypes, WorldTypes, TypeOK, Call, Job, Tokens

LEMMA LeaveTypes ==
  ASSUME UnitTypes, NEW h \in Handlers, Leave(h)
  PROVE  UnitTypes'
  <1>1. Loaded(NoUser) \in [user : User, events : Seq(Event)] /\ Len(Loaded(NoUser).events) <= 2
    BY NoUserType DEF Loaded
  <1> QED
    BY <1>1, NoUserType DEF Leave, UnitTypes, Busy, Call, Loading

LEMMA InitTypes == Init => Types
  <1> SUFFICES ASSUME Init PROVE Types
    OBVIOUS
  <1>1. <<>> \in Seq(Event) /\ Len(<<>>) <= 2
    OBVIOUS
  <1>2. call \in [Handlers -> Call] /\ agg \in [Handlers -> [user : User, events : Seq(Event)]]
    BY <1>1, NoUserType DEF Init, Call, Loaded
  <1>3. NoToken \in Tokens
    BY ConstantsAssumption DEF NoToken, Tokens
  <1>4. job \in [Blobs -> Job] /\ \A b \in Blobs : job[b].state # "queued"
    BY ConstantsAssumption DEF Init, Job, NoJob
  <1>5. \A h \in Handlers : Len(agg[h].events) <= 2
    BY <1>1, NoUserType DEF Init, Loaded
  <1>6. held \in [0..MaxTime -> SUBSET Roles] /\ now \in 0..MaxTime /\ status \in 0..(MaxTime + StatusLife)
    BY ConstantsAssumption DEF Init
  <1>7. Busy
    BY DEF Init, Busy, Loading
  <1> QED
    BY <1>2, <1>3, <1>4, <1>5, <1>6, <1>7, NoUserType, ConstantsAssumption
    DEF Init, Types, UnitTypes, WorldTypes

LEMMA StepTypes == Types /\ [Next]_vars => Types'
  <1> SUFFICES ASSUME Types, [Next]_vars PROVE Types'
    OBVIOUS
  <1> USE ConstantsAssumption DEF Types
  <1>1. ASSUME NEW h \in Handlers, Serve(h) PROVE Types'
    <2>1. PICK c \in Calls : Take(h, c, "load")
      BY <1>1 DEF Serve
    <2>2. c \in Call /\ c # NoCall
      BY CallsAssumption DEF Call, NoCall
    <2>3. UnitTypes'
      BY <2>1, <2>2 DEF Take, UnitTypes, Busy, Loading
    <2>4. WorldTypes'
      BY <1>1 DEF Serve, WorldTypes
    <2> QED
      BY <2>3, <2>4
  <1>2. ASSUME NEW h \in Handlers, Fail(h) PROVE Types'
    <2>1. UnitTypes'
      BY <1>2, LeaveTypes DEF Fail
    <2>2. WorldTypes'
      BY <1>2, RetryType DEF Fail, Reports, WorldTypes
    <2> QED
      BY <2>1, <2>2
  <1>3. ASSUME NEW h \in Handlers, Load(h) PROVE Types'
    <2> DEFINE a == Changed(call[h], row)
    <2>1. a \in [user : User, events : Seq(Event)] /\ Len(a.events) <= 2
      <3>1. call[h] \in Call /\ call[h] # NoCall /\ row \in User
        BY <1>3 DEF Load, UnitTypes, WorldTypes, Busy, Loading
      <3> QED
        BY <3>1, ChangedTells DEF Tells
    <2> HIDE DEF a
    <2>2. agg' = [agg EXCEPT ![h] = a]
      BY <1>3 DEF Load, a
    <2>3. UnitTypes'
      BY <1>3, <2>1, <2>2 DEF Load, UnitTypes, Busy, Loading
    <2>4. WorldTypes'
      BY <1>3 DEF Load, WorldTypes
    <2> QED
      BY <2>3, <2>4
  <1>4. ASSUME NEW h \in Handlers, Reread(h) PROVE Types'
    <2>1. \E base \in User : seen' = [seen EXCEPT ![h] = base]
      BY <1>4, NoUserType DEF Reread, WorldTypes
    <2>2. UnitTypes'
      BY <1>4, <2>1 DEF Reread, UnitTypes, Busy, Loading
    <2>3. WorldTypes'
      BY <1>4 DEF Reread, WorldTypes
    <2> QED
      BY <2>2, <2>3
  <1>5. ASSUME NEW h \in Handlers, Flush(h) PROVE Types'
    BY <1>5 DEF Flush, UnitTypes, WorldTypes, Busy, Loading
  <1>6. ASSUME NEW h \in Handlers, Commit(h) PROVE Types'
    <2> DEFINE new == Merge(row, seen[h], agg[h].user)
               heard == HearAll(told, agg[h].events)
    <2>1. new \in User /\ heard \in User
      BY MergeType, HearAllType DEF UnitTypes, WorldTypes
    <2>2. late' \in [Handlers -> SUBSET Columns]
      BY <1>6 DEF Commit, UnitTypes
    <2>3. /\ Loaded(NoUser) \in [user : User, events : Seq(Event)] /\ Len(Loaded(NoUser).events) <= 2
          /\ agg' = [agg EXCEPT ![h] = Loaded(NoUser)]
          /\ seen' = [seen EXCEPT ![h] = NoUser] /\ NoUser \in User
      BY <1>6, NoUserType DEF Commit, Loaded
    <2>4. UnitTypes'
      <3>1. CASE call[h].kind = "avatar"
        <4>1. call[h] \in [kind : {"avatar"}, blob : Blobs]
          BY <1>6, <3>1, CallsAssumption DEF Commit, UnitTypes, Busy, Loading, Call, NoCall
        <4>2. call' = call /\ at' = [at EXCEPT ![h] = "approve"]
          BY <1>6, <3>1 DEF Commit
        <4> QED
          BY <2>2, <2>3, <4>1, <4>2 DEF UnitTypes, Busy, Loading
      <3>2. CASE call[h].kind # "avatar"
        <4>1. call' = [call EXCEPT ![h] = NoCall] /\ at' = [at EXCEPT ![h] = "idle"]
          BY <1>6, <3>2 DEF Commit
        <4> QED
          BY <2>2, <2>3, <4>1 DEF UnitTypes, Busy, Loading, Call
      <3> QED
        BY <3>1, <3>2
    <2>5. WorldTypes'
      <3> HIDE DEF new, heard
      <3>1. /\ row' = new /\ told' = heard
            /\ raced' = raced \cup late[h]
            /\ held' = [held EXCEPT ![now] = @ \cup new.roles]
            /\ UNCHANGED <<served, job, status, now, access, refresh>>
        BY <1>6 DEF Commit, new, heard
      <3>2. new.roles \subseteq Roles /\ late[h] \subseteq Columns
        BY <2>1 DEF User, UnitTypes
      <3> QED
        BY <2>1, <3>1, <3>2 DEF WorldTypes
    <2> QED
      BY <2>4, <2>5
  <1>7. ASSUME NEW h \in Handlers, Approve(h) PROVE Types'
    <2>1. UnitTypes'
      BY <1>7, LeaveTypes DEF Approve
    <2>2. WorldTypes'
      BY <1>7, RetryType DEF Approve, Reports, WorldTypes
    <2> QED
      BY <2>1, <2>2
  <1>8. ASSUME NEW h \in Handlers, NEW b \in Blobs, Attempt(h, b) PROVE Types'
    BY <1>8 DEF Attempt, Take, UnitTypes, WorldTypes, Busy, Loading, Call, Job, NoCall
  <1>9. ASSUME NEW b \in Blobs, Complete(b) PROVE Types'
    BY <1>9 DEF Complete, UnitTypes, WorldTypes, Busy, units, NoJob, Job
  <1>10. ASSUME NEW b \in Blobs, TimeOut(b) PROVE Types'
    BY <1>10, RetryType DEF TimeOut, UnitTypes, WorldTypes, Busy, units
  <1>11. CASE Login
    BY <1>11 DEF Login, Issue, Token, Tokens, UnitTypes, WorldTypes, Busy, units, User
  <1>12. CASE Refresh
    BY <1>12 DEF Refresh, Token, Tokens, UnitTypes, WorldTypes, Busy, units
  <1>13. CASE Tick
    BY <1>13 DEF Tick, UnitTypes, WorldTypes, Busy, units, User
  <1>14. CASE UNCHANGED vars
    BY <1>14 DEF vars, units, UnitTypes, WorldTypes, Busy
  <1> QED
    BY <1>1, <1>2, <1>3, <1>4, <1>5, <1>6, <1>7, <1>8, <1>9, <1>10, <1>11, <1>12, <1>13, <1>14, Zenon DEF Next

\* Every variable keeps its type: no blob's activity is attempted more than
\* maximum_attempts times.
THEOREM TypeCorrect == Spec => []TypeOK
  <1>1. Types => TypeOK
    BY TypesTypeOK
  <1> QED
    BY <1>1, InitTypes, StepTypes, PTL DEF Spec

-----------------------------------------------------------------------------
(* The events tell the state. *)

\* A user that does not exist has nothing else.
NoRow == ~row.exists => row = NoUser

\* In the columns nobody has committed since it loaded, a unit knows the row
\* that its events lead from; one that creates knows there is none.
UnitOK(h) ==
  /\ agg[h].user.exists = TRUE
  /\ \A c \in Columns \ late[h] : agg[h].user[c] = HearAll(row, agg[h].events)[c]
  /\ call[h].kind = "create" => \A c \in Columns \ late[h] : row[c] = NoUser[c]
  /\ at[h] # "reread" => /\ seen[h].exists => row.exists
                         /\ \A c \in Columns \ late[h] : seen[h][c] = row[c]

EventsInv ==
  /\ NoRow
  /\ \A h \in Handlers : at[h] \in Saving => UnitOK(h)
  /\ EventsTellTheState

\* What an event does to a column depends on that column alone.
LEMMA HearColumn ==
  ASSUME NEW u \in User, NEW v \in User, NEW event \in Event, NEW c \in Columns, u[c] = v[c]
  PROVE  Hear(u, event)[c] = Hear(v, event)[c]
  <1> USE DEF Hear, User, Columns
  <1>1. CASE event = UserCreated
    BY <1>1 DEF UserCreated
  <1>2. ASSUME NEW roles \in SUBSET Roles, event = RolesAssigned(roles)
        PROVE  Hear(u, event)[c] = Hear(v, event)[c]
    BY <1>2 DEF RolesAssigned
  <1>3. ASSUME NEW bio \in Bios, event = ProfileUpdated("bio", bio)
        PROVE  Hear(u, event)[c] = Hear(v, event)[c]
    BY <1>3 DEF ProfileUpdated
  <1>4. ASSUME NEW blob \in Blobs, event = ProfileUpdated("avatar", blob)
        PROVE  Hear(u, event)[c] = Hear(v, event)[c]
    BY <1>4 DEF ProfileUpdated
  <1> QED
    BY <1>1, <1>2, <1>3, <1>4 DEF Event

LEMMA HearAllColumn ==
  ASSUME NEW u \in User, NEW v \in User, NEW events \in Seq(Event), Len(events) <= 2,
         NEW c \in Columns, u[c] = v[c]
  PROVE  HearAll(u, events)[c] = HearAll(v, events)[c]
  <1>1. CASE Len(events) = 0
    BY <1>1 DEF HearAll
  <1>2. CASE Len(events) = 1 /\ events[1] \in Event
    BY <1>2, HearColumn DEF HearAll
  <1>3. CASE Len(events) = 2 /\ events[1] \in Event /\ events[2] \in Event
    <2>1. Hear(u, events[1]) \in User /\ Hear(v, events[1]) \in User
      BY <1>3, HearType
    <2>2. Hear(u, events[1])[c] = Hear(v, events[1])[c]
      BY <1>3, HearColumn
    <2>3. Hear(Hear(u, events[1]), events[2])[c] = Hear(Hear(v, events[1]), events[2])[c]
      BY <1>3, <2>1, <2>2, HearColumn
    <2> QED
      BY <1>3, <2>3 DEF HearAll
  <1> QED
    BY <1>1, <1>2, <1>3, Lengths

\* Where the row is still the one that save() selected, the flush writes the
\* aggregate.
LEMMA MergeColumn ==
  ASSUME NEW user \in User, NEW base \in User, NEW mine \in User, NEW c \in Columns, base[c] = user[c]
  PROVE  Merge(user, base, mine)[c] = mine[c]
  BY DEF Merge, Column, Rows, User, Columns

LEMMA CommitWrites ==
  ASSUME Types, EventsInv, NEW h \in Handlers, Commit(h)
  PROVE  /\ row' \in User /\ row'.exists = TRUE
         /\ \A c \in Columns \ late[h] : row'[c] = agg[h].user[c]
         /\ \A c \in Columns \ raced' : told'[c] = row'[c]
  <1> DEFINE mine == agg[h].user
             events == agg[h].events
  <1>1. /\ row \in User /\ told \in User /\ seen[h] \in User /\ mine \in User
        /\ events \in Seq(Event) /\ Len(events) <= 2
        /\ late[h] \in SUBSET Columns /\ raced \in SUBSET Columns
    BY DEF Types, UnitTypes, WorldTypes
  <1>2. /\ at[h] = "commit" /\ UnitOK(h)
        /\ row' = Merge(row, seen[h], mine) /\ told' = HearAll(told, events)
        /\ raced' = raced \cup late[h]
    BY DEF Commit, EventsInv, Saving
  <1> HIDE DEF mine, events
  <1>3. row' \in User
    BY <1>1, <1>2, MergeType
  <1>4. row'.exists = TRUE
    BY <1>1, <1>2 DEF UnitOK, Merge, Column, User, mine
  <1>5. \A c \in Columns \ late[h] : row'[c] = mine[c]
    BY <1>1, <1>2, MergeColumn DEF UnitOK
  <1>6. ASSUME NEW c \in Columns \ raced' PROVE told'[c] = row'[c]
    <2>1. told[c] = row[c]
      BY <1>2, <1>6 DEF EventsInv, EventsTellTheState
    <2>2. mine[c] = HearAll(row, events)[c]
      BY <1>2, <1>6 DEF UnitOK, mine, events
    <2>3. HearAll(told, events)[c] = HearAll(row, events)[c]
      BY <1>1, <1>6, <2>1, HearAllColumn
    <2> QED
      BY <1>2, <1>5, <1>6, <2>2, <2>3
  <1> QED
    BY <1>3, <1>4, <1>5, <1>6 DEF mine

\* A commit is told to the units that overlap it.
LEMMA CommitOthers ==
  ASSUME Types, EventsInv, NEW h \in Handlers, Commit(h),
         NEW q \in Handlers \ {h}, at[q] \in Saving
  PROVE  UnitOK(q)'
  <1>1. /\ row \in User /\ row' \in User /\ row'.exists = TRUE
        /\ agg[q].events \in Seq(Event) /\ Len(agg[q].events) <= 2 /\ late[q] \in SUBSET Columns
        /\ UnitOK(q)
    BY CommitWrites DEF Types, UnitTypes, WorldTypes, EventsInv
  <1>2. agg'[q] = agg[q] /\ seen'[q] = seen[q] /\ call'[q] = call[q] /\ at'[q] = at[q]
    BY DEF Commit, Types, UnitTypes
  <1>3. late'[q] = late[q] \cup {c \in Columns : row'[c] # row[c]}
    BY DEF Commit, Types, UnitTypes, Saving
  <1>4. \A c \in Columns \ late'[q] : c \in Columns \ late[q] /\ row'[c] = row[c]
    BY <1>3
  <1>5. \A c \in Columns \ late'[q] : HearAll(row', agg[q].events)[c] = HearAll(row, agg[q].events)[c]
    BY <1>1, <1>4, HearAllColumn
  <1> QED
    BY <1>1, <1>2, <1>4, <1>5 DEF UnitOK

\* What a unit has in hand depends on the row and on itself.
LEMMA UnitKept ==
  ASSUME NEW q \in Handlers, UnitOK(q), row' = row, agg'[q] = agg[q], seen'[q] = seen[q],
         late'[q] = late[q], call'[q] = call[q], at'[q] = at[q]
  PROVE  UnitOK(q)'
  BY DEF UnitOK

\* A step that leaves rows, events and the units that are saving alone.
LEMMA EventsKept ==
  ASSUME EventsInv, row' = row, told' = told, raced' = raced,
         \A q \in Handlers : at'[q] \in Saving =>
            \/ UnitOK(q)'
            \/ at'[q] = at[q] /\ agg'[q] = agg[q] /\ seen'[q] = seen[q]
               /\ late'[q] = late[q] /\ call'[q] = call[q]
  PROVE  EventsInv'
  BY UnitKept DEF EventsInv, NoRow, EventsTellTheState

LEMMA InitEvents == Init => EventsInv
  BY DEF Init, EventsInv, NoRow, Saving, EventsTellTheState

LEMMA LoadEvents ==
  ASSUME Types, EventsInv, NEW h \in Handlers, Load(h)
  PROVE  EventsInv'
  <1> DEFINE a == Changed(call[h], row)
  <1>1. call[h] \in Call /\ call[h] # NoCall /\ row \in User
    BY DEF Load, Types, UnitTypes, WorldTypes, Busy, Loading
  <1>2. IF call[h].kind = "create" THEN row = NoUser ELSE row.exists = TRUE
    BY <1>1 DEF Load, EventsInv, NoRow, User
  <1>3. a.user.exists = TRUE /\ a.user = HearAll(row, a.events)
    BY <1>1, <1>2, ChangedTells DEF Tells
  <1> HIDE DEF a
  <1>4. agg'[h] = a /\ at'[h] = "reread"
    BY DEF Load, a, Types, UnitTypes
  <1>5. row' = row /\ told' = told /\ raced' = raced /\ late' = late /\ call' = call /\ seen' = seen
    BY DEF Load
  <1>6. UnitOK(h)'
    BY <1>2, <1>3, <1>4, <1>5 DEF UnitOK
  <1>7. \A q \in Handlers \ {h} : at'[q] = at[q] /\ agg'[q] = agg[q]
    BY DEF Load, Types, UnitTypes
  <1> QED
    BY <1>5, <1>6, <1>7, EventsKept

LEMMA RereadEvents ==
  ASSUME Types, EventsInv, NEW h \in Handlers, Reread(h)
  PROVE  EventsInv'
  <1> DEFINE base == IF call[h].kind = "create" THEN NoUser ELSE row
  <1>1. row' = row /\ told' = told /\ raced' = raced /\ late' = late /\ call' = call /\ agg' = agg
    BY DEF Reread
  <1>2. seen'[h] = base /\ at'[h] = "flush" /\ UnitOK(h)
    BY DEF Reread, Types, UnitTypes, EventsInv, Saving
  <1>3. base.exists => row.exists
    BY DEF NoUser
  <1>4. \A c \in Columns \ late[h] : base[c] = row[c]
    BY <1>2 DEF UnitOK
  <1> HIDE DEF base
  <1>5. UnitOK(h)'
    BY <1>1, <1>2, <1>3, <1>4 DEF UnitOK
  <1>6. \A q \in Handlers \ {h} : at'[q] = at[q] /\ seen'[q] = seen[q]
    BY DEF Reread, Types, UnitTypes
  <1> QED
    BY <1>1, <1>5, <1>6, EventsKept

LEMMA CommitEvents ==
  ASSUME Types, EventsInv, NEW h \in Handlers, Commit(h)
  PROVE  EventsInv'
  <1>1. NoRow' /\ EventsTellTheState'
    BY CommitWrites DEF NoRow, EventsTellTheState
  <1>2. at'[h] \notin Saving /\ \A q \in Handlers \ {h} : at'[q] = at[q]
    BY DEF Commit, Types, UnitTypes, Saving
  <1>3. \A q \in Handlers : at'[q] \in Saving => UnitOK(q)'
    BY <1>2, CommitOthers
  <1> QED
    BY <1>1, <1>3 DEF EventsInv

LEMMA StepEvents == Types /\ EventsInv /\ [Next]_vars => EventsInv'
  <1> SUFFICES ASSUME Types, EventsInv, [Next]_vars PROVE EventsInv'
    OBVIOUS
  <1> USE DEF Types, UnitTypes, Saving
  <1>1. ASSUME NEW h \in Handlers, Serve(h) PROVE EventsInv'
    BY <1>1, EventsKept DEF Serve, Take
  <1>2. ASSUME NEW h \in Handlers, Fail(h) PROVE EventsInv'
    BY <1>2, EventsKept DEF Fail, Leave
  <1>3. ASSUME NEW h \in Handlers, Load(h) PROVE EventsInv'
    BY <1>3, LoadEvents
  <1>4. ASSUME NEW h \in Handlers, Reread(h) PROVE EventsInv'
    BY <1>4, RereadEvents
  <1>5. ASSUME NEW h \in Handlers, Flush(h) PROVE EventsInv'
    <2>1. UnitOK(h) /\ at'[h] = "commit" /\ at[h] = "flush"
      BY <1>5 DEF Flush, EventsInv
    <2>2. UnitOK(h)'
      BY <1>5, <2>1 DEF Flush, UnitOK
    <2> QED
      BY <1>5, <2>2, EventsKept DEF Flush
  <1>6. ASSUME NEW h \in Handlers, Commit(h) PROVE EventsInv'
    BY <1>6, CommitEvents
  <1>7. ASSUME NEW h \in Handlers, Approve(h) PROVE EventsInv'
    BY <1>7, EventsKept DEF Approve, Leave
  <1>8. ASSUME NEW h \in Handlers, NEW b \in Blobs, Attempt(h, b) PROVE EventsInv'
    BY <1>8, EventsKept DEF Attempt, Take
  <1>9. CASE UNCHANGED <<row, told, units, raced>>
    BY <1>9, EventsKept DEF units
  <1> QED
    BY <1>1, <1>2, <1>3, <1>4, <1>5, <1>6, <1>7, <1>8, <1>9
    DEF Next, Complete, TimeOut, Login, Refresh, Tick, vars

\* Whoever follows the events knows every column that no unit has saved over
\* a commit it had not loaded, whatever overlaps, fails or is retried.
THEOREM EventsTellTheStateCorrect == Spec => []EventsTellTheState
  <1>1. EventsInv => EventsTellTheState
    BY DEF EventsInv
  <1> QED
    BY <1>1, InitTypes, StepTypes, InitEvents, StepEvents, PTL DEF Spec

-----------------------------------------------------------------------------
(* An approval is of an avatar. *)

Tried(avatar) == avatar \in {b \in Blobs : job[b].attempts > 0}

\* The activity's aggregate has its blob as avatar, any other keeps the row's
\* unless another unit has committed one since.
AvatarOK(h) ==
  /\ call[h].kind = "avatar" => Tried(call[h].blob)
  /\ at[h] \in Saving /\ call[h].kind = "avatar" => agg[h].user.avatar = call[h].blob
  /\ at[h] \in Saving /\ call[h].kind # "avatar" /\ "avatar" \notin late[h] =>
       agg[h].user.avatar = row.avatar

ApprovedInv ==
  /\ \A h \in Handlers : AvatarOK(h)
  /\ (status > 0 \/ \E h \in Handlers : at[h] = "approve") /\ "avatar" \notin raced => Tried(row.avatar)

\* Attempts are counted, never forgotten.
LEMMA TriedKept ==
  ASSUME Types, [Next]_vars, NEW avatar, Tried(avatar)
  PROVE  Tried(avatar)'
  <1> USE DEF Types, WorldTypes
  <1>1. job' \in [Blobs -> Job]
    BY StepTypes
  <1>2. ASSUME NEW b \in Blobs PROVE job'[b].attempts >= job[b].attempts
    <2>1. CASE \E h \in Handlers : Fail(h) \/ Approve(h)
      BY <2>1, RetryType DEF Fail, Approve, Job
    <2>2. CASE \E h \in Handlers, c \in Blobs : Attempt(h, c)
      BY <2>2 DEF Attempt, Job
    <2>3. CASE \E c \in Blobs : Complete(c) \/ TimeOut(c)
      BY <2>3, RetryType DEF Complete, TimeOut, Job
    <2>4. CASE UNCHANGED job
      BY <2>4 DEF Job
    <2> QED
      BY <2>1, <2>2, <2>3, <2>4
      DEF Next, Serve, Load, Reread, Flush, Commit, Login, Refresh, Tick, vars
  <1> QED
    BY <1>1, <1>2 DEF Tried, Job

\* A step after which every unit is as before or fine, and no approval is new.
LEMMA ApprovedKept ==
  ASSUME Types, [Next]_vars, ApprovedInv, row' = row, raced' = raced,
         status' > 0 => status > 0 \/ \E h \in Handlers : at[h] = "approve",
         \A q \in Handlers :
            /\ at'[q] = "approve" => at[q] = "approve"
            /\ \/ AvatarOK(q)'
               \/ at'[q] = at[q] /\ agg'[q] = agg[q] /\ late'[q] = late[q] /\ call'[q] = call[q]
  PROVE  ApprovedInv'
  <1>1. \A avatar : Tried(avatar) => Tried(avatar)'
    BY TriedKept
  <1>2. ASSUME NEW q \in Handlers PROVE AvatarOK(q)'
    BY <1>1 DEF ApprovedInv, AvatarOK
  <1>3. (status' > 0 \/ \E h \in Handlers : at'[h] = "approve") /\ "avatar" \notin raced' => Tried(row.avatar)'
    BY <1>1 DEF ApprovedInv
  <1> QED
    BY <1>2, <1>3 DEF ApprovedInv

LEMMA InitApproved == Init => ApprovedInv
  BY DEF Init, ApprovedInv, AvatarOK, Saving, NoCall

\* A handler that has left.
LEMMA LeaveAvatar ==
  ASSUME UnitTypes, NEW h \in Handlers, Leave(h)
  PROVE  /\ AvatarOK(h)' /\ at'[h] = "idle"
         /\ \A q \in Handlers \ {h} : at'[q] = at[q] /\ agg'[q] = agg[q] /\ late'[q] = late[q] /\ call'[q] = call[q]
  BY DEF Leave, UnitTypes, AvatarOK, NoCall, Saving

LEMMA CommitApproved ==
  ASSUME Types, [Next]_vars, EventsInv, ApprovedInv, NEW h \in Handlers, Commit(h)
  PROVE  ApprovedInv'
  <1>1. at[h] = "commit" /\ raced' = raced \cup late[h] /\ status' = status /\ call[h] # NoCall
    BY DEF Commit, Types, UnitTypes, Busy, Loading
  <1>2. "avatar" \notin late[h] => row'.avatar = agg[h].user.avatar
    BY CommitWrites DEF Columns
  <1>3. \A avatar : Tried(avatar) => Tried(avatar)'
    BY TriedKept
  <1>4. /\ at'[h] = IF call[h].kind = "avatar" THEN "approve" ELSE "idle"
        /\ call'[h] = IF call[h].kind = "avatar" THEN call[h] ELSE NoCall
    BY DEF Commit, Types, UnitTypes
  <1>5. ASSUME NEW q \in Handlers PROVE AvatarOK(q)'
    <2>1. CASE q = h
      BY <1>3, <1>4, <2>1 DEF ApprovedInv, AvatarOK, Saving, NoCall
    <2>2. CASE q # h
      <3>1. agg'[q] = agg[q] /\ call'[q] = call[q] /\ at'[q] = at[q]
        BY <2>2 DEF Commit, Types, UnitTypes
      <3>2. at[q] \in Saving /\ "avatar" \notin late'[q] => row'.avatar = row.avatar /\ "avatar" \notin late[q]
        BY <2>2 DEF Commit, Types, UnitTypes, Columns, Saving
      <3> QED
        BY <1>3, <3>1, <3>2 DEF ApprovedInv, AvatarOK
    <2> QED
      BY <2>1, <2>2
  <1>6. ASSUME status' > 0 \/ \E q \in Handlers : at'[q] = "approve", "avatar" \notin raced'
        PROVE  Tried(row.avatar)'
    <2>1. "avatar" \notin late[h] /\ "avatar" \notin raced
      BY <1>1, <1>6
    <2>2. CASE call[h].kind = "avatar"
      <3>1. row'.avatar = call[h].blob /\ Tried(call[h].blob)
        BY <1>1, <1>2, <2>1, <2>2 DEF ApprovedInv, AvatarOK, Saving
      <3> QED
        BY <1>3, <3>1 DEF Tried
    <2>3. CASE call[h].kind # "avatar"
      <3>1. row'.avatar = row.avatar
        BY <1>1, <1>2, <2>1, <2>3 DEF ApprovedInv, AvatarOK, Saving
      <3>2. status > 0 \/ \E q \in Handlers : at[q] = "approve"
        BY <1>1, <1>4, <1>6, <2>3 DEF Commit, Types, UnitTypes
      <3> QED
        BY <1>3, <2>1, <3>1, <3>2 DEF ApprovedInv, Tried
    <2> QED
      BY <2>2, <2>3
  <1> QED
    BY <1>5, <1>6 DEF ApprovedInv

LEMMA StepApproved == Types /\ EventsInv /\ ApprovedInv /\ [Next]_vars => ApprovedInv'
  <1> SUFFICES ASSUME Types, EventsInv, ApprovedInv, [Next]_vars PROVE ApprovedInv'
    OBVIOUS
  <1> USE DEF Types, UnitTypes
  <1>1. ASSUME NEW h \in Handlers, Serve(h) PROVE ApprovedInv'
    <2>1. PICK c \in Calls : Take(h, c, "load")
      BY <1>1 DEF Serve
    <2>2. AvatarOK(h)'
      BY <2>1, CallsAssumption DEF Take, AvatarOK, Saving
    <2> QED
      BY <1>1, <2>1, <2>2, ApprovedKept DEF Serve, Take
  <1>2. ASSUME NEW h \in Handlers, Fail(h) PROVE ApprovedInv'
    BY <1>2, LeaveAvatar, ApprovedKept DEF Fail
  <1>3. ASSUME NEW h \in Handlers, Load(h) PROVE ApprovedInv'
    <2> DEFINE a == Changed(call[h], row)
    <2>1. call[h] \in Call /\ call[h] # NoCall /\ row \in User
      BY <1>3 DEF Load, WorldTypes, Busy, Loading
    <2>2. call[h].kind = "create" => row.avatar = None
      BY <1>3, <2>1 DEF Load, EventsInv, NoRow, User, NoUser
    <2>3. a.user.avatar = IF call[h].kind = "avatar" THEN call[h].blob ELSE row.avatar
      BY <2>1, <2>2, ChangedTells
    <2> HIDE DEF a
    <2>4. agg'[h] = a /\ at'[h] = "reread" /\ call' = call /\ row' = row /\ job' = job /\ late' = late
      BY <1>3 DEF Load, a
    <2>5. AvatarOK(h)'
      BY <2>3, <2>4 DEF ApprovedInv, AvatarOK, Tried
    <2> QED
      BY <1>3, <2>4, <2>5, ApprovedKept DEF Load
  <1>4. ASSUME NEW h \in Handlers, Reread(h) PROVE ApprovedInv'
    <2>1. AvatarOK(h)'
      BY <1>4 DEF Reread, ApprovedInv, AvatarOK, Saving, Tried
    <2> QED
      BY <1>4, <2>1, ApprovedKept DEF Reread
  <1>5. ASSUME NEW h \in Handlers, Flush(h) PROVE ApprovedInv'
    <2>1. AvatarOK(h)'
      BY <1>5 DEF Flush, ApprovedInv, AvatarOK, Saving, Tried
    <2> QED
      BY <1>5, <2>1, ApprovedKept DEF Flush
  <1>6. ASSUME NEW h \in Handlers, Commit(h) PROVE ApprovedInv'
    BY <1>6, CommitApproved
  <1>7. ASSUME NEW h \in Handlers, Approve(h) PROVE ApprovedInv'
    <2>1. Leave(h) /\ row' = row /\ raced' = raced /\ at[h] = "approve"
      BY <1>7 DEF Approve
    <2> QED
      BY <2>1, LeaveAvatar, ApprovedKept
  <1>8. ASSUME NEW h \in Handlers, NEW b \in Blobs, Attempt(h, b) PROVE ApprovedInv'
    <2>1. call'[h] = [kind |-> "avatar", blob |-> b] /\ at'[h] = "load"
      BY <1>8 DEF Attempt, Take
    <2>2. job'[b].attempts > 0
      BY <1>8 DEF Attempt, WorldTypes, Job
    <2>3. AvatarOK(h)'
      BY <2>1, <2>2 DEF AvatarOK, Tried, Saving
    <2> QED
      BY <1>8, <2>3, ApprovedKept DEF Attempt, Take
  <1>9. CASE UNCHANGED <<row, units, raced, status>>
    BY <1>9, ApprovedKept DEF units
  <1> QED
    BY <1>1, <1>2, <1>3, <1>4, <1>5, <1>6, <1>7, <1>8, <1>9
    DEF Next, Complete, TimeOut, Login, Refresh, Tick, vars

\* A poll that answers APPROVED finds a row whose avatar has been processed,
\* unless a unit that overlapped has taken it away.
THEOREM ApprovedIsBoundCorrect == Spec => []ApprovedIsBound
  <1>1. Types /\ ApprovedInv => ApprovedIsBound
    BY ConstantsAssumption DEF Types, WorldTypes, ApprovedInv, ApprovedIsBound, Shown, Tried
  <1> QED
    BY <1>1, InitTypes, StepTypes, InitEvents, StepEvents, InitApproved, StepApproved, PTL DEF Spec

-----------------------------------------------------------------------------
(* Roles age out. *)

\* A token carries roles that the row had in some tick, and its lifetime
\* counts from there; an access token may come from a refresh at its end.
Dated(token, life) ==
  \E t \in 0..now : token.roles \subseteq held[t] /\ token.exp <= t + life
Recent(token) == Dated(token, AccessLife) \/ Dated(token, RefreshLife + DefaultLife - 1)

RolesInv ==
  /\ row.roles \subseteq held[now]
  /\ Recent(access) /\ Recent(refresh)
  /\ access.sub # "refresh"
  /\ refresh.sub = "refresh" => Dated(refresh, RefreshLife)

LEMMA InitRoles == Init => RolesInv
  BY ConstantsAssumption DEF Init, RolesInv, Recent, Dated, NoUser, NoToken

LEMMA StepRoles == Types /\ RolesInv /\ [Next]_vars => RolesInv'
  <1> SUFFICES ASSUME Types, RolesInv, [Next]_vars PROVE RolesInv'
    OBVIOUS
  <1> USE ConstantsAssumption DEF Types, WorldTypes, RolesInv, Recent, Dated
  <1>1. CASE \E h \in Handlers : Commit(h)
    <2>1. PICK new \in User : row' = new /\ held' = [held EXCEPT ![now] = @ \cup new.roles]
      BY <1>1, MergeType DEF Commit, UnitTypes
    <2>2. UNCHANGED <<now, access, refresh>>
      BY <1>1 DEF Commit
    <2>3. \A t \in 0..now : held[t] \subseteq held'[t]
      BY <2>1
    <2> QED
      BY <2>1, <2>2, <2>3
  <1>2. CASE Login
    <2>1. access' = [sub |-> "access", roles |-> row.roles, exp |-> now + AccessLife]
      BY <1>2 DEF Login, Issue, Token
    <2>2. \/ refresh' = refresh
          \/ refresh' = [sub |-> "refresh", roles |-> row.roles, exp |-> now + RefreshLife]
      BY <1>2 DEF Login, Issue, Token
    <2>3. UNCHANGED <<row, now, held>> /\ now \in Nat
      BY <1>2 DEF Login
    <2>4. now + RefreshLife <= now + (RefreshLife + DefaultLife - 1)
      BY <2>3
    <2>5. now \in 0..now /\ row.roles \subseteq held[now]
      BY <2>3
    <2>6. Dated(access, AccessLife)'
      BY <2>1, <2>3, <2>5
    <2>7. /\ Recent(refresh)'
          /\ refresh'.sub = "refresh" => Dated(refresh, RefreshLife)'
      <3>1. CASE refresh' = refresh
        BY <2>3, <3>1
      <3>2. CASE refresh' = [sub |-> "refresh", roles |-> row.roles, exp |-> now + RefreshLife]
        <4>1. refresh'.roles \subseteq held'[now] /\ refresh'.exp = now + RefreshLife
          BY <2>3, <2>5, <3>2
        <4> QED
          BY <2>3, <2>4, <2>5, <4>1
      <3> QED
        BY <2>2, <3>1, <3>2
    <2> QED
      BY <2>1, <2>3, <2>6, <2>7
  <1>3. CASE Refresh
    <2>1. PICK token \in {access, refresh} :
             now < token.exp /\ token.sub = "refresh" /\ access' = Token("access", token.roles, DefaultLife)
      BY <1>3 DEF Refresh, Renewable, Valid
    <2>2. token = refresh
      BY <2>1
    <2>3. PICK t \in 0..now : refresh.roles \subseteq held[t] /\ refresh.exp <= t + RefreshLife
      BY <2>1, <2>2
    <2>4. access' = [sub |-> "access", roles |-> refresh.roles, exp |-> now + DefaultLife]
      BY <2>1, <2>2 DEF Token
    <2>5. now + DefaultLife <= t + (RefreshLife + DefaultLife - 1)
      BY <2>1, <2>2, <2>3 DEF Tokens
    <2>6. UNCHANGED <<row, now, refresh, held>>
      BY <1>3 DEF Refresh
    <2>7. Dated(access, RefreshLife + DefaultLife - 1)'
      BY <2>3, <2>4, <2>5, <2>6
    <2> QED
      BY <2>4, <2>6, <2>7
  <1>4. CASE Tick
    <2>1. /\ now' = now + 1 /\ held' = [held EXCEPT ![now + 1] = row.roles]
          /\ now + 1 \in 0..MaxTime /\ UNCHANGED <<row, access, refresh>>
      BY <1>4 DEF Tick
    <2>2. \A t \in 0..now : t \in 0..now' /\ held'[t] = held[t]
      BY <2>1
    <2>3. held'[now'] = row.roles
      BY <2>1
    <2> QED
      BY <2>1, <2>2, <2>3
  <1>5. CASE UNCHANGED <<row, now, access, refresh, held>>
    BY <1>5
  <1> QED
    BY <1>1, <1>2, <1>3, <1>4, <1>5
    DEF Next, Serve, Fail, Load, Reread, Flush, Approve, Attempt, Complete, TimeOut, vars

\* A role that the user has lost is gone from every caller's token once an
\* access token of a sign-in, and a refresh token with the access token it was
\* renewed into, would have expired.
THEOREM RolesAgeOutCorrect == Spec => []RolesAgeOut
  <1>1. ASSUME Types, RolesInv PROVE RolesAgeOut
    <2> DEFINE recent == {t \in 0..now : now < t + AccessLife \/ now + 2 <= t + RefreshLife + DefaultLife}
    <2>1. ASSUME NEW token \in {access, refresh}, now < token.exp
          PROVE  token.roles \subseteq UNION {held[t] : t \in recent}
      <3>1. PICK life \in {AccessLife, RefreshLife + DefaultLife - 1} : Dated(token, life)
        BY <1>1, <2>1 DEF RolesInv, Recent
      <3>2. PICK t \in 0..now : token.roles \subseteq held[t] /\ token.exp <= t + life
        BY <3>1 DEF Dated
      <3>3. t \in recent
        <4>1. /\ now \in Nat /\ token.exp \in Nat /\ AccessLife \in Nat
              /\ RefreshLife \in Nat /\ DefaultLife \in Nat
          BY <1>1, <2>1, ConstantsAssumption DEF Types, WorldTypes, Tokens
        <4> QED
          BY <2>1, <3>1, <3>2, <4>1
      <3> QED
        BY <3>2, <3>3
    <2> QED
      BY <2>1 DEF RolesAgeOut, CallerRoles, Valid
  <1> QED
    BY <1>1, InitTypes, StepTypes, InitRoles, StepRoles, PTL DEF Spec
=============================================================================
