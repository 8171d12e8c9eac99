-------------------------------- MODULE Blobs --------------------------------
(***************************************************************************)
(* The blob domain (app/blob): rows of blob and blob_reference in the      *)
(* database, the bytes in the object storage of StorageAdapters, and the   *)
(* units of work and downloads that keep the two together.                 *)
(*                                                                         *)
(* A unit loads an aggregate, changes it, talks to the store, flushes and  *)
(* commits, with an await between any two of these.  A flush locks its row *)
(* and, for a reference, its (owner, edge); what it wrote is seen by other *)
(* tasks when it commits.  save() selects the row anew and assigns every   *)
(* column of it from the aggregate, so a column that others have written   *)
(* since the load is written back.  A blob is named by the request that    *)
(* created it, a storage key by the request that minted it.                *)
(***************************************************************************)
EXTENDS StorageAdapters

CONSTANTS Edges,    \* (owner_type, owner_id, edge_key) of references
          Ttl,      \* seconds a download signature is asked for, clamped
          MaxTime,  \* bound on the clock
          None      \* Python's None

ASSUME BlobsAssumption ==
  /\ Ttl \in Nat \ {0} /\ Ttl <= 7 * 24 * 3600
  /\ MaxTime \in Nat
  /\ None \notin Keys \cup Edges

VARIABLES rows,  \* blob -> its committed row, a partial function
          told,  \* blob -> the last event committed about it
          refs,  \* edge -> the blob it references, a partial function
          task,  \* what each request is doing
          now    \* int(time.time())

vars == <<storageVars, rows, told, refs, task, now>>

Blobs == Keys
Kinds == {"temporary", "permanent"}
Statuses == {"pending", "processing", "ready", "failed"}
Row == [kind : Kinds, status : Statuses, loc : Keys \cup {None}]
NoRow == [kind |-> "temporary", status |-> "pending", loc |-> None]

(* base is the row as loaded, row the aggregate as changed, seen the row   *)
(* as save() selects it anew, key what tells that row from other rows of   *)
(* the blob, insert whether there was none; issued and exp belong to a     *)
(* signature, age is what it had when it was accepted.                     *)
NoTask == [op |-> "none", at |-> "idle", out |-> "none", blob |-> None, base |-> NoRow,
           row |-> NoRow, seen |-> NoRow, key |-> {}, insert |-> FALSE, edge |-> None,
           issued |-> 0, exp |-> 0, age |-> 0]

Units == {"upload", "pending", "promote", "start", "finish", "fail", "delete"}
Changes == {"promote", "start", "finish", "fail"}
Downloads == {"download", "url"}
Places == {"idle", "store", "save", "flush", "attach", "unstore", "commit",
           "signed", "info", "open", "body", "url", "done"}
TaskType ==
  [op : {"none"} \cup Units \cup Downloads, at : Places,
   out : {"none", "committed", "rolledback", "served", "cut", "refused"},
   blob : Blobs \cup {None}, base : Row, row : Row, seen : Row,
   key : SUBSET Requests, insert : BOOLEAN,
   edge : Edges \cup {None}, issued : 0 .. MaxTime, exp : Nat, age : 0 .. MaxTime]

Idle(r) == task[r].at = "idle"
Running(r) == task[r].at \notin {"idle", "done"}
Goto(r, at) == task' = [task EXCEPT ![r].at = at]
Finish(r, out) == task' = [task EXCEPT ![r].at = "done", ![r].out = out]
NoCallOf(r) == call' = [call EXCEPT ![r] = NoCall] /\ UNCHANGED <<provider, bucket, objects, faults>>

-----------------------------------------------------------------------------
(* The aggregate: what each of its methods makes of a row.  A method that  *)
(* raises InvalidBlobStatusError leaves the row as it is.                  *)

Created(kind, loc) == [kind |-> kind, status |-> "ready", loc |-> loc]
CreatedPending == [kind |-> "temporary", status |-> "pending", loc |-> None]
\* Mutant of CanStart: mark_processing without its status check.
CanStartAlways(row) == TRUE

CanStart(row) == row.status = "pending"
MarkProcessing(row) == [row EXCEPT !.status = "processing"]
CanFinish(row) == row.status = "processing"
MarkReady(row, loc) == [row EXCEPT !.status = "ready", !.loc = loc]
\* Mutant of MarkFailed: a status the enumeration does not have.
MarkBroken(row) == [row EXCEPT !.status = "broken"]

MarkFailed(row) == [row EXCEPT !.status = "failed"]
Promoted(row, loc) == [row EXCEPT !.kind = "permanent", !.loc = loc]

(* The event the method raises; the flush of save() puts it in the outbox  *)
(* of the same transaction.                                                *)
Raises == [upload |-> "created", start |-> "started", finish |-> "completed", fail |-> "failed"]
Tells == [none |-> "pending", created |-> "ready", started |-> "processing", completed |-> "ready", failed |-> "failed"]

-----------------------------------------------------------------------------
(* Units of work.                                                          *)

Begin(r, op, blob, base, row, at) ==
  task' = [task EXCEPT ![r] = [NoTask EXCEPT !.op = op, !.at = at, !.blob = blob,
                                             !.base = base, !.row = row]]
BeginNew(r, op, row, edge, at) ==
  task' = [task EXCEPT ![r] = [NoTask EXCEPT !.op = op, !.at = at, !.blob = r, !.row = row,
                                             !.insert = TRUE, !.edge = edge]]

(* POST /upload: upload_temp makes a temporary blob and stores its bytes   *)
(* before anything is written to the database; with a complete owner it    *)
(* then also references it.                                                *)
UploadTemp(r) ==
  /\ Idle(r)
  /\ \E e \in Edges \cup {None} : BeginNew(r, "upload", Created("temporary", r), e, "store")
  /\ Call(r, "put", r, r, FALSE)
  /\ UNCHANGED <<rows, told, refs, now>>

(* The factory's create_pending, saved without bytes.                      *)
CreatePending(r) ==
  /\ Idle(r)
  /\ BeginNew(r, "pending", CreatedPending, None, "flush")
  /\ UNCHANGED <<storageVars, rows, told, refs, now>>

(* promote_temp_to_permanent returns at once unless the blob is temporary  *)
(* and stored; it copies the object under a permanent key.                 *)
Promote(r) ==
  /\ Idle(r)
  /\ \E b \in DOMAIN rows :
       /\ rows[b].kind = "temporary" /\ rows[b].loc # None
       /\ Begin(r, "promote", b, rows[b], Promoted(rows[b], r), "store")
       /\ Call(r, "copy", r, rows[b].loc, FALSE)
  /\ UNCHANGED <<rows, told, refs, now>>

StartProcessing(r) ==
  /\ Idle(r)
  /\ \E b \in DOMAIN rows :
       CanStart(rows[b]) /\ Begin(r, "start", b, rows[b], MarkProcessing(rows[b]), "save")
  /\ UNCHANGED <<storageVars, rows, told, refs, now>>

(* The bytes are stored first, as in create_blob_from_stream, for          *)
(* mark_ready wants their locator.                                         *)
FinishProcessing(r) ==
  /\ Idle(r)
  /\ \E b \in DOMAIN rows :
       /\ CanFinish(rows[b])
       /\ Begin(r, "finish", b, rows[b], MarkReady(rows[b], r), "store")
       /\ Call(r, "put", r, b, FALSE)
  /\ UNCHANGED <<rows, told, refs, now>>

FailProcessing(r) ==
  /\ Idle(r)
  /\ \E b \in DOMAIN rows : Begin(r, "fail", b, rows[b], MarkFailed(rows[b]), "save")
  /\ UNCHANGED <<storageVars, rows, told, refs, now>>

(* The primary key of a blob's row, as the inserts that led up to it.      *)
Key(b) == {q \in Requests : task[q].blob = b /\ task[q].insert /\ task[q].out = "committed"}

(* The repository's delete: the row goes, its references and bytes stay.   *)
DeleteBlob(r) ==
  /\ Idle(r)
  /\ \E b \in DOMAIN rows :
       task' = [task EXCEPT ![r] = [NoTask EXCEPT !.op = "delete", !.at = "flush", !.blob = b,
                                                  !.base = rows[b], !.key = Key(b)]]
  /\ UNCHANGED <<storageVars, rows, told, refs, now>>

Rollback(r) == Finish(r, "rolledback") /\ NoCallOf(r) /\ UNCHANGED <<rows, told, refs, now>>

(* The bytes are where the new row says, or the unit is rolled back.       *)
Stored(r) ==
  /\ task[r].at = "store" /\ Answered(r)
  /\ call[r].ans = "ok"
  /\ Goto(r, IF task[r].insert THEN "flush" ELSE "save") /\ NoCallOf(r)
  /\ UNCHANGED <<rows, told, refs, now>>

StoreRefused(r) ==
  /\ task[r].at \in {"store", "unstore"} /\ Answered(r)
  /\ call[r].ans \in {"error", "missing"}
  /\ Rollback(r)

Exists(r) == task[r].blob \in DOMAIN rows

(* save() selects the row it is to write to, whatever the unit loaded.     *)
(* When the blob was deleted since, it is inserted as if it were new.      *)
Select(r) ==
  /\ task[r].at = "save"
  /\ task' = [task EXCEPT ![r].at = "flush", ![r].insert = ~Exists(r), ![r].key = Key(task[r].blob),
                          ![r].seen = IF Exists(r) THEN rows[task[r].blob] ELSE NoRow]
  /\ UNCHANGED <<storageVars, rows, told, refs, now>>

(* The selected row is still there.  A flush writes it when a column of    *)
(* the aggregate differs from it.                                          *)
Matches(r) == Exists(r) /\ task[r].key = Key(task[r].blob)
Writes(r) == IF task[r].op = "delete" THEN Matches(r) ELSE task[r].insert \/ task[r].row # task[r].seen

(* Another unit has flushed this row, or reference, and not committed.     *)
Locked(r, blob) == \E q \in Requests \ {r} :
  task[q].at \in {"attach", "unstore", "commit"} /\ task[q].blob = blob /\ Writes(q)
EdgeLocked(r, edge) == \E q \in Requests \ {r} : task[q].at = "commit" /\ task[q].edge = edge

(* What a statement that writes waits for, and finds then.                 *)
Waits(r) == (task[r].insert \/ Matches(r)) /\ Locked(r, task[r].blob)
Finds(r) == IF task[r].insert THEN ~Exists(r) ELSE Matches(r)

\* Mutant of Flush: a promotion leaves the object it copied.
FlushOnly(r) ==
  /\ task[r].at = "flush"
  /\ Writes(r) => ~Waits(r) /\ Finds(r)
  /\ Goto(r, IF task[r].edge = None THEN "commit" ELSE "attach")
  /\ UNCHANGED <<storageVars, rows, told, refs, now>>

(* The INSERT, UPDATE or DELETE, if there is one, waits for the row.       *)
(* A promotion goes on to delete the object it copied, before the commit.  *)
Flush(r) ==
  /\ task[r].at = "flush"
  /\ Writes(r) => ~Waits(r) /\ Finds(r)
  /\ IF task[r].op = "promote" THEN Goto(r, "unstore") /\ Call(r, "delete", task[r].base.loc, Old, FALSE)
     ELSE /\ Goto(r, IF task[r].edge = None THEN "commit" ELSE "attach")
          /\ UNCHANGED storageVars
  /\ UNCHANGED <<rows, told, refs, now>>

(* The UPDATE finds its row deleted (StaleDataError), or the INSERT finds  *)
(* the blob inserted again (the unique blob_id).  A DELETE may find none.  *)
FlushFails(r) ==
  /\ task[r].at = "flush" /\ Writes(r) /\ ~Waits(r) /\ ~Finds(r)
  /\ Rollback(r)

\* Mutant of Attach: the reference is committed on its own.
AttachAtOnce(r) ==
  /\ task[r].at = "attach"
  /\ ~EdgeLocked(r, task[r].edge)
  /\ refs' = With(refs, task[r].edge, task[r].blob)
  /\ Goto(r, "commit")
  /\ UNCHANGED <<storageVars, rows, told, now>>

(* INSERT ... ON CONFLICT DO UPDATE of the reference waits for the edge.   *)
Attach(r) ==
  /\ task[r].at = "attach"
  /\ ~EdgeLocked(r, task[r].edge)
  /\ Goto(r, "commit")
  /\ UNCHANGED <<storageVars, rows, told, refs, now>>

Unstored(r) ==
  /\ task[r].at = "unstore" /\ call[r].ans \in {"ok", "false"}
  /\ Goto(r, "commit") /\ NoCallOf(r)
  /\ UNCHANGED <<rows, told, refs, now>>

\* Mutant of Merged: every column of the aggregate is written.
MergedAll(r) == task[r].row

(* The columns in which the aggregate differs from the row save() selected *)
(* are written over the row as it is by now.                               *)
Merged(r) ==
  LET t == task[r]
      By(f) == IF t.row[f] # t.seen[f] THEN t.row[f] ELSE rows[t.blob][f]
  IN  [kind |-> By("kind"), status |-> By("status"), loc |-> By("loc")]

Commit(r) ==
  LET t == task[r] IN
  /\ t.at = "commit"
  /\ rows' = IF ~Writes(r) THEN rows
             ELSE IF t.op = "delete" THEN [b \in DOMAIN rows \ {t.blob} |-> rows[b]]
             ELSE With(rows, t.blob, IF t.insert THEN t.row ELSE Merged(r))
  /\ told' = IF t.op \in DOMAIN Raises THEN [told EXCEPT ![t.blob] = Raises[t.op]] ELSE told
  /\ refs' = IF t.edge = None THEN refs ELSE With(refs, t.edge, t.blob)
  /\ Finish(r, "committed")
  /\ UNCHANGED <<storageVars, now>>

(* A statement or the commit fails, the client goes away or the process    *)
(* dies: what the unit did to the store stays.                             *)
Lost(r) ==
  /\ Running(r) /\ faults < MaxFaults
  /\ Finish(r, "rolledback")
  /\ call' = [call EXCEPT ![r] = NoCall] /\ faults' = faults + 1
  /\ UNCHANGED <<provider, bucket, objects, rows, told, refs, now>>

(* The reference repository's delete_by_edge, a unit of one statement.     *)
Detach(e) ==
  /\ e \in DOMAIN refs
  /\ ~EdgeLocked(Old, e)
  /\ refs' = [f \in DOMAIN refs \ {e} |-> refs[f]]
  /\ UNCHANGED <<storageVars, rows, told, task, now>>

-----------------------------------------------------------------------------
(* Downloads: a signature is issued, and redeemed by GET /download later.  *)

\* Mutant of Window: rounds up once more.
WindowLater(at, ttl) == ((at \div ttl) + 2) * ttl

Window(at, ttl) == ((at \div ttl) + 1) * ttl
Expired(exp, at) == exp < at

(* create_download_signature for a blob that is ready.                     *)
Sign(r) ==
  /\ Idle(r)
  /\ \E b \in DOMAIN rows :
       /\ rows[b].status = "ready"
       /\ task' = [task EXCEPT ![r] = [NoTask EXCEPT !.op = "download", !.at = "signed", !.blob = b,
                                                     !.issued = now, !.exp = Window(now, Ttl)]]
  /\ UNCHANGED <<storageVars, rows, told, refs, now>>

Readable(b) == b \in DOMAIN rows /\ rows[b].status = "ready" /\ rows[b].loc # None

(* verify_download_signature, then open_stream's first read.               *)
Redeem(r) ==
  /\ task[r].at = "signed" /\ ~Expired(task[r].exp, now) /\ Readable(task[r].blob)
  /\ task' = [task EXCEPT ![r].at = "info", ![r].row = rows[task[r].blob],
                          ![r].age = now - task[r].issued]
  /\ UNCHANGED <<storageVars, rows, told, refs, now>>

(* 403 or 404. *)
RedeemRefused(r) ==
  /\ task[r].at = "signed" /\ (Expired(task[r].exp, now) \/ ~Readable(task[r].blob))
  /\ Finish(r, "refused")
  /\ UNCHANGED <<storageVars, rows, told, refs, now>>

(* open_stream reads the row again, asserts that it is still there, and    *)
(* opens the stream of the locator it read first.                          *)
OpenStream(r) ==
  /\ task[r].at = "info"
  /\ IF task[r].blob \in DOMAIN rows
     THEN Goto(r, "open") /\ Call(r, "stream", task[r].row.loc, Old, TRUE)
     ELSE Finish(r, "refused") /\ UNCHANGED storageVars
  /\ UNCHANGED <<rows, told, refs, now>>

(* The response's headers are sent; its body is read from the store.       *)
Respond(r) ==
  /\ task[r].at = "open" /\ Answered(r)
  /\ IF call[r].ans = "ok" THEN Goto(r, "body") /\ Call(r, "read", task[r].row.loc, Old, FALSE)
     ELSE Finish(r, "refused") /\ NoCallOf(r)
  /\ UNCHANGED <<rows, told, refs, now>>

(* The body ends, or is cut short under a status of 200 already sent.      *)
Served(r) ==
  /\ task[r].at = "body" /\ Answered(r)
  /\ IF call[r].ans = "ok" THEN Finish(r, "served") ELSE Finish(r, "cut")
  /\ UNCHANGED <<storageVars, rows, told, refs, now>>

(* create_download_url, asked by the user endpoints for an avatar.         *)
AskUrl(r) ==
  /\ Idle(r)
  /\ \E b \in DOMAIN rows :
       /\ Readable(b)
       /\ Begin(r, "url", b, rows[b], rows[b], "url")
       /\ Call(r, "url", rows[b].loc, Old, FALSE)
  /\ UNCHANGED <<rows, told, refs, now>>

GiveUrl(r) ==
  /\ task[r].at = "url" /\ Answered(r)
  /\ Finish(r, IF call[r].ans = "ok" THEN "served" ELSE "refused") /\ NoCallOf(r)
  /\ UNCHANGED <<rows, told, refs, now>>

(* Time is read by signatures only, so it stands still while none is out.  *)
Tick ==
  /\ now < MaxTime
  /\ \E r \in Requests : task[r].at = "signed"
  /\ now' = now + 1
  /\ UNCHANGED <<storageVars, rows, told, refs, task>>

-----------------------------------------------------------------------------
(* One blob from before the run may be there, at any point of its life.    *)
Init ==
  /\ StorageInit
  /\ rows \in {<<>>} \cup {With(<<>>, Old, row) :
                          row \in {CreatedPending, MarkProcessing(CreatedPending), Created("temporary", Old)}}
  /\ Old \in DOMAIN objects <=> Old \in DOMAIN rows /\ rows[Old].loc = Old
  /\ told = [b \in Blobs |-> IF b \notin DOMAIN rows THEN "none"
                             ELSE CHOOSE e \in {"none", "created", "started"} : Tells[e] = rows[b].status]
  /\ refs = <<>>
  /\ task = [r \in Requests |-> NoTask]
  /\ now = 0

Next ==
  \/ \E r \in Requests :
       \/ UploadTemp(r) \/ CreatePending(r) \/ Promote(r) \/ DeleteBlob(r)
       \/ StartProcessing(r) \/ FinishProcessing(r) \/ FailProcessing(r)
       \/ Stored(r) \/ StoreRefused(r) \/ Select(r) \/ Flush(r) \/ FlushFails(r) \/ Attach(r)
       \/ Unstored(r) \/ Commit(r) \/ Lost(r)
       \/ Sign(r) \/ Redeem(r) \/ RedeemRefused(r) \/ OpenStream(r) \/ Respond(r) \/ Served(r)
       \/ AskUrl(r) \/ GiveUrl(r)
  \/ \E e \in Edges : Detach(e)
  \/ Tick
  \/ StorageNext /\ UNCHANGED <<rows, told, refs, task, now>>

Spec == Init /\ [][Next]_vars

-----------------------------------------------------------------------------
TypeOK ==
  /\ provider \in Providers /\ bucket \in BOOLEAN /\ faults \in 0 .. MaxFaults
  /\ DOMAIN objects \subseteq Keys /\ objects \in [DOMAIN objects -> Blobs]
  /\ call \in [Requests -> CallType]
  /\ DOMAIN rows \subseteq Blobs /\ rows \in [DOMAIN rows -> Row]
  /\ told \in [Blobs -> DOMAIN Tells]
  /\ DOMAIN refs \subseteq Edges /\ refs \in [DOMAIN refs -> Blobs]
  /\ task \in [Requests -> TaskType]
  /\ now \in 0 .. MaxTime

(* A row's bytes are in the store.  Only a promotion can lose them: it     *)
(* deletes the object it copied while the row still names it, and the row  *)
(* keeps doing so when the promotion is rolled back, or does so again when *)
(* another unit that had loaded the row before saves it: it writes the     *)
(* locator it loaded over the promoted one, or inserts the row again.      *)
Carried(q, b, k) ==
  /\ task[q].blob = b /\ task[q].op \in Changes /\ task[q].out = "committed"
  /\ task[q].row.loc = k /\ (task[q].insert \/ task[q].seen.loc # k)
Losing(p, b, k) ==
  /\ task[p].op = "promote" /\ task[p].blob = b /\ task[p].base.loc = k
  /\ \/ task[p].at \in {"unstore", "commit"} \/ task[p].out = "rolledback"
     \/ task[p].out = "committed" /\ \E q \in Requests : Carried(q, b, k)
LostOnlyByPromotion == \A b \in DOMAIN rows :
  rows[b].loc # None /\ rows[b].loc \notin DOMAIN objects =>
    \E p \in Requests : Losing(p, b, rows[b].loc)

(* An object no row names is not litter of a unit that went well: its      *)
(* request still runs or was rolled back, its blob was deleted, or another *)
(* unit, which did not promote this object itself, wrote another locator   *)
(* over it: its own or, saved late, the one the blob had when it loaded.   *)
BlobOf(k) == IF k \in Requests THEN task[k].blob ELSE k
Named(k) == \E b \in DOMAIN rows : rows[b].loc = k
Overwrote(r, b, k) ==
  /\ task[r].blob = b /\ task[r].op \in Changes /\ task[r].out = "committed"
  /\ task[r].insert \/ task[r].row.loc # task[r].seen.loc
  /\ task[r].row.loc # k /\ ~(task[r].op = "promote" /\ task[r].base.loc = k)
  /\ k \in Requests => task[k].base.loc # r
OrphansAreAccounted == \A k \in DOMAIN objects :
  \/ Named(k)
  \/ k \in Requests /\ task[k].out # "committed"
  \/ BlobOf(k) \notin DOMAIN rows
  \/ \E r \in Requests \ {k} : Overwrote(r, BlobOf(k), k)

(* What a finished download delivered is the blob it was signed for,       *)
(* whatever was promoted or deleted meanwhile, and it was let in within    *)
(* the lifetime its signature was asked for.                               *)
ServedIsTheBlob == \A r \in Requests :
  task[r].op = "download" /\ task[r].out = "served" => call[r].from = task[r].blob /\ task[r].age <= Ttl

(* A reference names a blob that has been committed with it: an upload     *)
(* that fails leaves neither.  Only the deletion of the blob leaves a      *)
(* reference that names nothing.                                           *)
ReferenceNamesABlob == \A e \in DOMAIN refs :
  refs[e] \in DOMAIN rows \/ \E r \in Requests :
    task[r].op = "delete" /\ task[r].out = "committed" /\ task[r].blob = refs[e]

(* The status of a row moves pending, processing, ready, and to failed     *)
(* from anywhere, and the last event told about a blob is the one of its   *)
(* status.  Only a unit whose blob changed its status after it was loaded  *)
(* can go against that: a promotion too writes the status it loaded back.  *)
Along(from, to) == from = to \/ to = "failed" \/ <<from, to>> \in {<<"pending", "processing">>, <<"processing", "ready">>}
Stale(r, b) ==
  /\ task[r].blob = b /\ task[r].at = "commit" /\ task'[r].out = "committed"
  /\ task[r].op \in Changes /\ (task[r].seen.status # task[r].base.status \/ rows[b].status # task[r].base.status)
StatusFollowsLifecycle == [][\A b \in DOMAIN rows \cap DOMAIN rows' :
  \/ rows'[b].status = rows[b].status /\ told'[b] = told[b]
  \/ Along(rows[b].status, rows'[b].status) /\ Tells[told'[b]] = rows'[b].status
  \/ \E r \in Requests : Stale(r, b)]_vars
=============================================================================
