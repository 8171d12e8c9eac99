------------------------------- MODULE Users -------------------------------
(***************************************************************************)
(* One user of app/user: its aggregate and the events it raises, the units *)
(* of work that save it, the activity that binds an avatar once a blob has *)
(* been processed and then tells Redis so, and the tokens that carry the   *)
(* user's roles.  Users do not interact here: rows, Redis keys and tokens  *)
(* are per user, and what is unique among users is the matter of Accounts. *)
(*                                                                         *)
(* A unit loads the row, changes the aggregate, selects the row anew to    *)
(* write the whole aggregate over it, flushes and commits; other units     *)
(* move between any two of these awaits (PostgreSQL, READ COMMITTED).      *)
(*                                                                         *)
(* Only what some service calls is here: nothing in the program disables   *)
(* or enables a user, revokes a role, sets a password or unlinks.          *)
(***************************************************************************)
EXTENDS Naturals, Sequences, FiniteSetsExt

CONSTANTS Handlers,    \* tasks that serve requests and run activities
          Roles, Bios,
          Blobs,       \* blobs uploaded as this user's avatar
          Calls,       \* the requests of an instance
          MaxCalls,    \* bound: requests served
          MaxAttempts, \* maximum_attempts of the avatar workflow's activity
          AccessLife, RefreshLife, StatusLife,  \* lifetimes, in ticks of `now`
          DefaultLife, \* that of a token encoded without an expire_period
          MaxTime,     \* bound of `now`
          None         \* Python's None

ASSUME ConstantsAssumption ==
  /\ MaxCalls \in Nat /\ MaxTime \in Nat
  /\ MaxAttempts \in Nat \ {0} /\ AccessLife \in Nat \ {0}
  /\ RefreshLife \in Nat \ {0} /\ StatusLife \in Nat \ {0} /\ DefaultLife \in Nat \ {0}
  /\ None \notin Roles \cup Bios \cup Blobs

ASSUME CallsAssumption ==
  Calls \subseteq [kind : {"create"}, role : Roles \cup {None}]
                  \cup [kind : {"assign"}, roles : SUBSET Roles]
                  \cup [kind : {"profile"}, bio : Bios \cup {None}]

VARIABLES row,     \* the committed rows of user and user_role
          told,    \* the user that a reader of the committed events knows
          call,    \* what a handler is doing
          at,      \* the await a handler is suspended at
          agg,     \* the aggregate it has loaded and changed, with its events
          seen,    \* the row that save() has selected to write it to
          late,    \* columns that others have committed since it loaded
          raced,   \* columns some unit saved over a commit it had not loaded
          served,  \* requests so far
          job,     \* the avatar workflow of a blob
          status,  \* when the APPROVED key of the user expires
          now,
          access, refresh, \* the tokens the user's client keeps
          held     \* the roles the row had in each tick

units == <<call, at, agg, seen, late>>
vars == <<row, told, units, raced, served, job, status, now, access, refresh, held>>

-----------------------------------------------------------------------------
(* The aggregate and its events. *)

NoUser == [exists |-> FALSE, bio |-> None, avatar |-> None, roles |-> {}]
Columns == {"exists", "bio", "avatar", "roles"}
User == [exists : BOOLEAN, bio : Bios \cup {None}, avatar : Blobs \cup {None}, roles : SUBSET Roles]

\* An aggregate as orm_to_domain makes it: with no events.
Loaded(user) == [user |-> user, events |-> <<>>]

Raise(a, event) == [user |-> a.user, events |-> Append(a.events, event)]

UserCreated == [type |-> "USER_CREATED"]
RolesAssigned(roles) == [type |-> "USER_ROLES_ASSIGNED", roles |-> roles]
ProfileUpdated(column, new) == [type |-> "USER_PROFILE_UPDATED", column |-> column, new |-> new]
Event == {UserCreated} \cup {RolesAssigned(roles) : roles \in SUBSET Roles}
         \cup {ProfileUpdated("bio", bio) : bio \in Bios}
         \cup {ProfileUpdated("avatar", blob) : blob \in Blobs}

AssignRoles(a, roles) ==
  LET assigned == [user |-> [a.user EXCEPT !.roles = @ \cup roles], events |-> a.events]
      added == roles \ a.user.roles
  IN  IF added = {} THEN assigned ELSE Raise(assigned, RolesAssigned(added))

\* create() assigns its role before it raises USER_CREATED.
Create(role) ==
  LET made == Loaded([NoUser EXCEPT !.exists = TRUE])
  IN  Raise(IF role = None THEN made ELSE AssignRoles(made, {role}), UserCreated)

\* One column stands for those that update_profile changes in the same way.
UpdateProfile(a, bio) ==
  IF bio \in {None, a.user.bio} THEN a
  ELSE Raise([user |-> [a.user EXCEPT !.bio = bio], events |-> a.events], ProfileUpdated("bio", bio))

SetAvatar(a, avatar) ==
  IF avatar = a.user.avatar THEN a
  ELSE Raise([user |-> [a.user EXCEPT !.avatar = avatar], events |-> a.events],
             ProfileUpdated("avatar", avatar))

Changed(c, user) ==
  CASE c.kind = "create" -> Create(c.role)
    [] c.kind = "assign" -> AssignRoles(Loaded(user), c.roles)
    [] c.kind = "profile" -> UpdateProfile(Loaded(user), c.bio)
    [] c.kind = "avatar" -> SetAvatar(Loaded(user), c.blob)

\* What a reader of the events makes of one more, and of what a unit raises:
\* two events at most, those of create().
Hear(user, event) ==
  CASE event.type = "USER_CREATED" -> [user EXCEPT !.exists = TRUE]
    [] event.type = "USER_ROLES_ASSIGNED" -> [user EXCEPT !.roles = @ \cup event.roles]
    [] event.type = "USER_PROFILE_UPDATED" /\ event.column = "bio" -> [user EXCEPT !.bio = event.new]
    [] event.type = "USER_PROFILE_UPDATED" /\ event.column = "avatar" -> [user EXCEPT !.avatar = event.new]

HearAll(user, events) ==
  CASE Len(events) = 0 -> user
    [] Len(events) = 1 -> Hear(user, events[1])
    [] Len(events) = 2 -> Hear(Hear(user, events[1]), events[2])

-----------------------------------------------------------------------------
(* Saving an aggregate. *)

Column(current, base, mine) == IF mine = base THEN current ELSE mine
Rows(current, base, mine) == (current \cup (mine \ base)) \ (base \ mine)

\* The mapper would forget a column.
MergeWithoutAvatar(user, base, mine) ==
  [exists |-> Column(user.exists, base.exists, mine.exists),
   bio    |-> Column(user.bio, base.bio, mine.bio),
   avatar |-> user.avatar,
   roles  |-> Rows(user.roles, base.roles, mine.roles)]

\* The flush writes what differs from the row save() has selected.
Merge(user, base, mine) ==
  [exists |-> Column(user.exists, base.exists, mine.exists),
   bio    |-> Column(user.bio, base.bio, mine.bio),
   avatar |-> Column(user.avatar, base.avatar, mine.avatar),
   roles  |-> Rows(user.roles, base.roles, mine.roles)]

Written(h) == {c \in Columns \ {"roles"} : agg[h].user[c] # seen[h][c]}
RolesWritten(h) == SymDiff(agg[h].user.roles, seen[h].roles)

\* Another open transaction holds the user's row, or a row of user_role.
Blocked(h) ==
  \E q \in Handlers \ {h} :
    /\ at[q] = "commit"
    /\ \/ Written(h) # {} /\ Written(q) # {}
       \/ RolesWritten(h) \cap RolesWritten(q) # {}

\* A unique constraint refuses the flush: the email, or (user_id, role).
Conflicts(h) ==
  \/ "exists" \in Written(h) /\ row.exists
  \/ (agg[h].user.roles \ seen[h].roles) \cap row.roles # {}

-----------------------------------------------------------------------------
(* The avatar workflow: an activity with maximum_attempts. *)

NoCall == [kind |-> "none"]
NoJob == [state |-> "absent", attempts |-> 0, by |-> None]

\* The policy would have no maximum.
RetryAlways(j) == [j EXCEPT !.state = "queued", !.by = None]

\* Temporal retries an attempt that failed, or that did not report in time.
Retry(j) ==
  [j EXCEPT !.state = IF j.attempts < MaxAttempts THEN "queued" ELSE "failed", !.by = None]

Done(j) == [j EXCEPT !.state = "done", !.by = None]

\* Whether handler h runs the attempt that Temporal waits for.
Reports(h) == call[h].kind = "avatar" /\ job[call[h].blob].by = h

\* The blob's processing completed, with owner_type "user" and edge_key
\* "avatar", and the launcher started a workflow.  For any other event the
\* activity returns at once.
Complete(b) ==
  /\ job[b] = NoJob
  /\ job' = [job EXCEPT ![b].state = "queued"]
  /\ UNCHANGED <<row, told, units, raced, served, status, now, access, refresh, held>>

\* start_to_close_timeout, while the handler is still at it.
TimeOut(b) ==
  /\ job[b].state = "running"
  /\ job' = [job EXCEPT ![b] = Retry(@)]
  /\ UNCHANGED <<row, told, units, raced, served, status, now, access, refresh, held>>

-----------------------------------------------------------------------------
(* Units of work. *)

Take(h, c, place) ==
  /\ at[h] = "idle"
  /\ call' = [call EXCEPT ![h] = c]
  /\ at' = [at EXCEPT ![h] = place]
  /\ UNCHANGED <<agg, seen, late>>

\* A request: registration, PATCH /roles, PATCH /{user_id}.
Serve(h) ==
  /\ served < MaxCalls
  /\ \E c \in Calls : Take(h, c, "load")
  /\ served' = served + 1
  /\ UNCHANGED <<row, told, raced, job, status, now, access, refresh, held>>

\* An attempt of on_user_blob_processing_completed_activity.
Attempt(h, b) ==
  /\ job[b].state = "queued"
  /\ Take(h, [kind |-> "avatar", blob |-> b], "load")
  /\ job' = [job EXCEPT ![b] = [state |-> "running", attempts |-> @.attempts + 1, by |-> h]]
  /\ UNCHANGED <<row, told, raced, served, status, now, access, refresh, held>>

\* The call is over, its session rolled back and removed.
Leave(h) ==
  /\ call' = [call EXCEPT ![h] = NoCall]
  /\ at' = [at EXCEPT ![h] = "idle"]
  /\ agg' = [agg EXCEPT ![h] = Loaded(NoUser)]
  /\ seen' = [seen EXCEPT ![h] = NoUser]
  /\ late' = [late EXCEPT ![h] = {}]

\* It raises, or its process dies: a request is answered with an error, an
\* attempt is retried.
Fail(h) ==
  /\ at[h] # "idle"
  /\ Leave(h)
  /\ job' = IF Reports(h) THEN [job EXCEPT ![call[h].blob] = Retry(@)] ELSE job
  /\ UNCHANGED <<row, told, raced, served, status, now, access, refresh, held>>

\* The status would be written before the transaction it is about.
LoadApproving(h) ==
  /\ at[h] = "load"
  /\ row.exists = (call[h].kind # "create")
  /\ agg' = [agg EXCEPT ![h] = Changed(call[h], row)]
  /\ at' = [at EXCEPT ![h] = "reread"]
  /\ status' = IF call[h].kind = "avatar" THEN now + StatusLife ELSE status
  /\ UNCHANGED <<row, told, call, seen, late, raced, served, job, now, access, refresh, held>>

\* A user to be created must not exist, any other must.
Load(h) ==
  /\ at[h] = "load"
  /\ row.exists = (call[h].kind # "create")
  /\ agg' = [agg EXCEPT ![h] = Changed(call[h], row)]
  /\ at' = [at EXCEPT ![h] = "reread"]
  /\ UNCHANGED <<row, told, call, seen, late, raced, served, job, status, now, access, refresh, held>>

\* A user to be created has a user_id of its own, under which there is no row.
Reread(h) ==
  /\ at[h] = "reread"
  /\ seen' = [seen EXCEPT ![h] = IF call[h].kind = "create" THEN NoUser ELSE row]
  /\ at' = [at EXCEPT ![h] = "flush"]
  /\ UNCHANGED <<row, told, call, agg, late, raced, served, job, status, now, access, refresh, held>>

Flush(h) ==
  /\ at[h] = "flush"
  /\ ~Blocked(h) /\ ~Conflicts(h)
  /\ at' = [at EXCEPT ![h] = "commit"]
  /\ UNCHANGED <<row, told, call, agg, seen, late, raced, served, job, status, now, access, refresh, held>>

\* The aggregate and its events become visible together.  A request is over;
\* the activity goes on to tell Redis.
Commit(h) ==
  LET new == Merge(row, seen[h], agg[h].user)
      changed == {c \in Columns : new[c] # row[c]}
      others == {q \in Handlers \ {h} : at[q] \in {"reread", "flush", "commit"}}
      lates == [q \in Handlers |-> IF q \in others THEN late[q] \cup changed ELSE late[q]]
  IN  /\ at[h] = "commit"
      /\ row' = new
      /\ told' = HearAll(told, agg[h].events)
      /\ raced' = raced \cup late[h]
      /\ late' = [lates EXCEPT ![h] = {}]
      /\ held' = [held EXCEPT ![now] = @ \cup new.roles]
      /\ agg' = [agg EXCEPT ![h] = Loaded(NoUser)]
      /\ seen' = [seen EXCEPT ![h] = NoUser]
      /\ IF call[h].kind = "avatar"
         THEN at' = [at EXCEPT ![h] = "approve"] /\ UNCHANGED call
         ELSE at' = [at EXCEPT ![h] = "idle"] /\ call' = [call EXCEPT ![h] = NoCall]
      /\ UNCHANGED <<served, job, status, now, access, refresh>>

\* set_approved, after which the worker may still die before it reports; an
\* answer that Temporal no longer waits for is dropped.
Approve(h) ==
  /\ at[h] = "approve"
  /\ status' = now + StatusLife
  /\ \/ /\ Reports(h)
        /\ \E j \in {Done(job[call[h].blob]), Retry(job[call[h].blob])} :
             job' = [job EXCEPT ![call[h].blob] = j]
     \/ ~Reports(h) /\ UNCHANGED job
  /\ Leave(h)
  /\ UNCHANGED <<row, told, raced, served, now, access, refresh, held>>

\* What GET /{user_id}/avatar/status answers.
Shown == IF now < status THEN "APPROVED" ELSE "PENDING"

-----------------------------------------------------------------------------
(* Tokens.  The client keeps one of each kind, any of those it was given. *)

NoToken == [sub |-> "none", roles |-> {}, exp |-> 0]
Token(sub, roles, life) == [sub |-> sub, roles |-> roles, exp |-> now + life]
Valid(token) == now < token.exp

\* Both tokens of a sign-in carry the roles just read.
Issue(roles) ==
  /\ access' = Token("access", roles, AccessLife)
  /\ refresh' \in {refresh, Token("refresh", roles, RefreshLife)}

\* By password or by openid, for a user that exists.
Login ==
  /\ row.exists
  /\ Issue(row.roles)
  /\ UNCHANGED <<row, told, units, raced, served, job, status, now, held>>

\* The check of `sub` would be missing.
RenewableAny(token) == Valid(token)

Renewable(token) == Valid(token) /\ token.sub = "refresh"

\* POST /refresh-token: the roles of the new token are those of the old.  It
\* lives TokenHelper's default, not the configured lifetime.
Refresh ==
  /\ \E token \in {access, refresh} :
       /\ Renewable(token)
       /\ access' = Token("access", token.roles, DefaultLife)
  /\ UNCHANGED <<row, told, units, raced, served, job, status, now, refresh, held>>

\* The roles of the caller of a request with a token, of either kind.
CallerRoles(token) == IF Valid(token) THEN token.roles ELSE {}

Tick ==
  /\ now < MaxTime
  /\ now' = now + 1
  /\ held' = [held EXCEPT ![now + 1] = row.roles]
  /\ UNCHANGED <<row, told, units, raced, served, job, status, access, refresh>>

-----------------------------------------------------------------------------
Init ==
  /\ row = NoUser /\ told = NoUser
  /\ call = [h \in Handlers |-> NoCall]
  /\ at = [h \in Handlers |-> "idle"]
  /\ agg = [h \in Handlers |-> Loaded(NoUser)]
  /\ seen = [h \in Handlers |-> NoUser]
  /\ late = [h \in Handlers |-> {}]
  /\ raced = {} /\ served = 0
  /\ job = [b \in Blobs |-> NoJob]
  /\ status = 0 /\ now = 0
  /\ access = NoToken /\ refresh = NoToken
  /\ held = [t \in 0..MaxTime |-> {}]

Next ==
  \/ \E h \in Handlers :
       \/ Serve(h) \/ Fail(h) \/ Load(h) \/ Reread(h) \/ Flush(h) \/ Commit(h) \/ Approve(h)
       \/ \E b \in Blobs : Attempt(h, b)
  \/ \E b \in Blobs : Complete(b) \/ TimeOut(b)
  \/ Login \/ Refresh \/ Tick

Spec == Init /\ [][Next]_vars

-----------------------------------------------------------------------------
(* Properties. *)

\* Every variable holds what the code could put there; no blob's activity is
\* attempted more than maximum_attempts times.
TypeOK ==
  /\ row \in User /\ told \in User
  /\ \A h \in Handlers :
       /\ call[h] \in Calls \cup {NoCall} \cup [kind : {"avatar"}, blob : Blobs]
       /\ agg[h].user \in User /\ agg[h].events \in Seq(Event) /\ Len(agg[h].events) <= 2
  /\ at \in [Handlers -> {"idle", "load", "reread", "flush", "commit", "approve"}]
  /\ seen \in [Handlers -> User]
  /\ late \in [Handlers -> SUBSET Columns] /\ raced \in SUBSET Columns
  /\ served \in 0..MaxCalls
  /\ job \in [Blobs -> [state : {"absent", "queued", "running", "done", "failed"},
                        attempts : 0..MaxAttempts, by : Handlers \cup {None}]]
  /\ status \in 0..(MaxTime + StatusLife) /\ now \in 0..MaxTime
  /\ \A token \in {access, refresh} :
       token.roles \subseteq Roles /\ token.exp \in 0..(MaxTime + AccessLife + RefreshLife + DefaultLife)
  /\ held \in [0..MaxTime -> SUBSET Roles]

\* Whoever follows the user's events knows the row, whatever units overlapped,
\* failed or were retried: except for columns that a unit saved although
\* another had committed them since it loaded (save() copies the whole
\* aggregate, but events tell only what its methods changed).
EventsTellTheState == \A c \in Columns \ raced : told[c] = row[c]

\* While a poll of the avatar's status answers APPROVED the row has an avatar,
\* one whose processing completed, although the status is kept in Redis and is
\* written after the commit, by an attempt that may have been given up; only a
\* unit that overlapped may have taken the avatar away again.
ApprovedIsBound ==
  Shown = "APPROVED" /\ "avatar" \notin raced => row.avatar \in {b \in Blobs : job[b].attempts > 0}

\* Tokens carry roles and are never looked up, and a refresh copies the roles
\* of the old token: a role that the user has lost is gone from every caller
\* once an access token of a sign-in, and a refresh token with the access
\* token it was renewed into, would have expired.
RolesAgeOut ==
  LET recent == {t \in 0..now : now < t + AccessLife \/ now + 2 <= t + RefreshLife + DefaultLife}
  IN  \A token \in {access, refresh} : CallerRoles(token) \subseteq UNION {held[t] : t \in recent}
=============================================================================
