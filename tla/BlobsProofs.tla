----------------------------- MODULE BlobsProofs -----------------------------
(***************************************************************************)
(* Proofs about Blobs and StorageAdapters.                                 *)
(***************************************************************************)
EXTENDS Blobs, TLAPS

-----------------------------------------------------------------------------
(* The inductive invariant.                                                *)

Storing == {"upload", "promote", "finish"}
Creating == {"upload", "pending"}
Flushed == {"attach", "unstore", "commit"}
Calling == {"store", "unstore", "open", "body", "url"}

(* What is left of a method's requests fits the method.                    *)
Shape(op, gone, todo) ==
  \/ todo = <<>>
  \/ /\ op \in {"put", "copy"} /\ (op = "put" => gone = "error") /\ gone # "false"
     /\ \/ todo = <<"write">> \/ todo = <<"write", "head">> \/ todo = <<"head">>
        \/ todo = <<"bucket", "write", "head">> \/ todo = <<"create", "write", "head">>
  \/ /\ op = "delete" /\ gone = "false"
     /\ todo = <<"unlink">> \/ todo = <<"exists", "remove">> \/ todo = <<"remove">>
  \/ op = "url" /\ gone # "false" /\ todo = <<"exists">>
  \/ op = "stream" /\ gone # "false" /\ (todo = <<"exists", "head">> \/ todo = <<"head">>)
  \/ op = "read" /\ todo = <<"read">>

(* A call in flight has no answer yet, and has seen the key as it is.      *)
InFlight(c) ==
  /\ c.todo # <<>> => c.ans = "none" /\ There(c.key, objects) \in c.seen
  /\ c.todo = <<"remove">> => TRUE \in c.seen

(* Its answer, once there is one, is true of what it has seen.             *)
TrueAnswer(c) ==
  /\ c.ans = "ok" => TRUE \in c.seen
  /\ c.ans = "false" => FALSE \in c.seen
  /\ c.ans = "missing" /\ c.op # "copy" => FALSE \in c.seen
  /\ c.op = "delete" /\ c.ans = "ok" => FALSE \in c.seen

CallOK(c) == c \in CallType /\ Shape(c.op, c.gone, c.todo) /\ InFlight(c) /\ TrueAnswer(c)

(* The store and the calls are consistent with each other.                 *)
StoreOK ==
  /\ DOMAIN objects \subseteq Keys /\ objects \in [DOMAIN objects -> Blobs]
  /\ call \in [Requests -> CallType]
  /\ \A r \in Requests : CallOK(call[r])

(* A locator that other units know: of blob b, minted by a unit that is    *)
(* committed.                                                              *)
Settled(r, ops) == task[r].out = "committed" /\ task[r].op \in ops
Known(l, b) == l # None => BlobOf(l) = b /\ (l \in Requests => Settled(l, Storing))

RowsInv == \A b \in DOMAIN rows :
  Known(rows[b].loc, b) /\ (b \in Requests => Settled(b, Creating))

(* Where each operation can be.                                            *)
Stage(t) ==
  /\ t.at = "idle" => t = NoTask
  /\ t.at # "idle" => t.op # "none" /\ t.blob # None
  /\ t.at = "done" <=> t.out # "none"
  /\ t.at = "done" /\ t.op = "promote" => t.out \in {"committed", "rolledback"}
  /\ t.at = "store" => t.op \in Storing
  /\ t.at = "save" => t.op \in Changes
  /\ t.at = "attach" => t.edge # None
  /\ t.at = "unstore" => t.op = "promote"
  /\ t.at \in {"flush", "commit"} => t.op \in Units
  /\ t.out = "committed" => t.op \in Units
  /\ t.at \in {"signed", "info", "open", "body"} => t.op = "download"
  /\ t.at \in {"info", "open", "body"} => t.row.loc # None
  /\ t.at = "url" => t.op = "url"

(* What it has made of the row it loaded.                                  *)
Makes(t, r) ==
  /\ t.edge # None => t.op = "upload"
  /\ t.insert => t.op \in Creating \cup Changes
  /\ t.op \in Creating => t.blob = r /\ t.base = NoRow /\ t.insert
  /\ t.op = "upload" => t.row = Created("temporary", r)
  /\ t.op = "pending" => t.row = CreatedPending
  /\ t.op = "promote" => t.row = Promoted(t.base, r) /\ t.base.kind = "temporary" /\ t.base.loc # None
  /\ t.op = "start" => t.row = MarkProcessing(t.base) /\ CanStart(t.base)
  /\ t.op = "finish" => t.row = MarkReady(t.base, r) /\ CanFinish(t.base)
  /\ t.op = "fail" => t.row = MarkFailed(t.base)

Course(t, r) == Stage(t) /\ Makes(t, r)

(* An object is gone only when a promotion that copied it has deleted it.  *)
Unstoring(p, k) ==
  task[p].op = "promote" /\ task[p].base.loc = k /\ task[p].at \in {"unstore", "commit", "done"}
Kept(k) == k = None \/ k \in DOMAIN objects \/ \E p \in Requests : Unstoring(p, k)

(* A unit that changes a blob has loaded, and selects, rows that other     *)
(* units committed.                                                        *)
Loaded(t, r) ==
  /\ Known(t.base.loc, t.blob) /\ Kept(t.base.loc)
  /\ Known(t.seen.loc, t.blob) /\ t.key \subseteq Key(t.blob)
  /\ t.op = "download" => Known(t.row.loc, t.blob)
  /\ t.op \notin Creating /\ t.blob \in Requests => Settled(t.blob, Creating)

(* The call a request is inside is the one its place asks for.             *)
CallOf(t, c, r) ==
  /\ c.todo # <<>> => t.at \in Calling
  /\ t.at = "store" =>
       /\ c.key = r
       /\ IF t.op = "promote" THEN c.op = "copy" /\ c.from = t.base.loc ELSE c.op = "put" /\ c.from = t.blob
  /\ t.at = "unstore" => c.op = "delete" /\ c.key = t.base.loc
  /\ t.at = "open" => c.op = "stream"
  /\ t.at = "url" => c.op = "url"
  /\ t.at = "body" => c.op = "read" /\ c.key = t.row.loc
  /\ t.op = "download" /\ t.out = "served" => c.from = t.blob

(* A signature expires within the lifetime it was asked for.               *)
InTime(t) == t.issued <= now /\ t.exp <= t.issued + Ttl /\ t.age <= Ttl
TimeInv == \A r \in Requests : InTime(task[r])

TasksInv == \A r \in Requests :
  Course(task[r], r) /\ Loaded(task[r], r) /\ CallOf(task[r], call[r], r)

(* An object holds the bytes of the blob its key was minted for.           *)
ObjectsInv == \A k \in DOMAIN objects :
  objects[k] = BlobOf(k) /\ (k \in Requests => task[k].op \in Storing)

(* What a unit has stored is there, what it has deleted is not.            *)
Bytes(t, c, r) ==
  /\ t.op \in Storing /\ t.at \in {"save", "flush"} \cup Flushed => r \in DOMAIN objects
  /\ t.at = "store" /\ c.ans = "ok" => r \in DOMAIN objects
  /\ t.op = "promote" /\ t.at = "commit" => t.base.loc \notin DOMAIN objects
  /\ t.at = "unstore" /\ c.ans \in {"ok", "false"} => t.base.loc \notin DOMAIN objects
  /\ t.at = "body" /\ c.ans = "ok" => c.from = t.blob
BytesInv == \A r \in Requests : Bytes(task[r], call[r], r)

(* A row lock is exclusive, and what holds it still finds what it found at *)
(* the flush.                                                              *)
Holds(r) == task[r].at \in Flushed /\ Writes(r)
LocksInv == \A r \in Requests : Holds(r) => ~Locked(r, task[r].blob) /\ Finds(r)

Inv == /\ TypeOK /\ StoreOK
       /\ RowsInv /\ TasksInv /\ TimeInv /\ ObjectsInv /\ BytesInv /\ LocksInv
       /\ LostOnlyByPromotion /\ OrphansAreAccounted /\ ReferenceNamesABlob

-----------------------------------------------------------------------------
(* The requests of the store.                                              *)

LEMMA PlanSteps ==
  /\ Head(<<"write">>) = "write" /\ Tail(<<"write">>) = <<>>
  /\ Head(<<"write", "head">>) = "write" /\ Tail(<<"write", "head">>) = <<"head">>
  /\ Head(<<"head">>) = "head" /\ Tail(<<"head">>) = <<>>
  /\ Head(<<"read">>) = "read" /\ Tail(<<"read">>) = <<>>
  /\ Head(<<"unlink">>) = "unlink" /\ Tail(<<"unlink">>) = <<>>
  /\ Head(<<"remove">>) = "remove" /\ Tail(<<"remove">>) = <<>>
  /\ Head(<<"exists">>) = "exists" /\ Tail(<<"exists">>) = <<>>
  /\ Head(<<"exists", "head">>) = "exists" /\ Tail(<<"exists", "head">>) = <<"head">>
  /\ Head(<<"exists", "remove">>) = "exists" /\ Tail(<<"exists", "remove">>) = <<"remove">>
  /\ Head(<<"bucket", "write", "head">>) = "bucket"
  /\ Tail(<<"bucket", "write", "head">>) = <<"write", "head">>
  /\ [<<"bucket", "write", "head">> EXCEPT ![1] = "create"] = <<"create", "write", "head">>
  /\ Head(<<"create", "write", "head">>) = "create"
  /\ Tail(<<"create", "write", "head">>) = <<"write", "head">>
OBVIOUS

LEMMA PlansDiffer ==
  /\ <<"write">> # <<>> /\ <<"write", "head">> # <<>> /\ <<"head">> # <<>> /\ <<"read">> # <<>>
  /\ <<"unlink">> # <<>> /\ <<"remove">> # <<>> /\ <<"exists">> # <<>>
  /\ <<"exists", "head">> # <<>> /\ <<"exists", "remove">> # <<>>
  /\ <<"bucket", "write", "head">> # <<>> /\ <<"create", "write", "head">> # <<>>
  /\ <<"write", "head">> # <<"remove">> /\ <<"head">> # <<"remove">> /\ <<"create", "write", "head">> # <<"remove">>
OBVIOUS

\* What the request of r does to the calls, whichever request it is.
SameCall(q) == call'[q].op = call[q].op /\ call'[q].key = call[q].key
StoreStep(r) ==
  /\ call[r].todo # <<>>
  /\ \A q \in Requests : SameCall(q)
  /\ \A q \in Requests \ {r} : /\ call'[q].todo = call[q].todo /\ call'[q].ans = call[q].ans
                               /\ call'[q].from = call[q].from
  /\ \/ objects' = objects
     \/ /\ call[r].op = "put"
        /\ objects' = With(objects, call[r].key, call[r].from)
     \/ /\ call[r].op = "copy" /\ call[r].from \in DOMAIN objects
        /\ objects' = With(objects, call[r].key, objects[call[r].from])
     \/ call[r].op = "delete" /\ objects' = Without(call[r].key)
  /\ call[r].op \in {"put", "copy"} /\ call'[r].ans = "ok" => call[r].key \in DOMAIN objects'
  /\ call[r].op = "delete" /\ call'[r].ans \in {"ok", "false"} => call[r].key \notin DOMAIN objects'
  /\ IF call[r].op = "read" /\ call'[r].ans = "ok"
     THEN call[r].key \in DOMAIN objects /\ call'[r].from = objects[call[r].key]
     ELSE call[r].op # "read" => call'[r].from = call[r].from

\* A history gains what a request sees of the key.
LEMMA Sightings ==
  ASSUME NEW k, NEW objs
  PROVE  /\ There(k, objs) \in BOOLEAN
         /\ There(k, objs) = TRUE <=> k \in DOMAIN objs
         /\ There(k, objs) = FALSE <=> k \notin DOMAIN objs
BY DEF There

\* What an outcome makes of the calls of others, and of its own call.
OthersSee(r, objs) ==
  \A q \in Requests \ {r} :
    call'[q] = IF call[q].todo = <<>> THEN call[q]
               ELSE [call[q] EXCEPT !.seen = @ \cup {There(call[q].key, objs)}]
OwnOutcome(r, objs, todo, ans) ==
  /\ call'[r].op = call[r].op /\ call'[r].key = call[r].key /\ call'[r].gone = call[r].gone
  /\ call'[r].todo = todo /\ call'[r].ans = ans
  /\ call'[r].from = IF At(r, "read") /\ Present(r) THEN objects[call[r].key] ELSE call[r].from
  /\ call'[r].seen = call[r].seen \cup {There(call[r].key, objs)}

LEMMA OutcomeEffect ==
  ASSUME StoreOK, NEW r \in Requests, NEW objs, NEW todo \in Plans, NEW ans \in Answers,
         call[r].todo # <<>>, Outcome(r, objs, todo, ans)
  PROVE  /\ objects' = objs /\ OthersSee(r, objs) /\ OwnOutcome(r, objs, todo, ans)
         /\ call' \in [Requests -> CallType]
<1>1. call[r] \in CallType /\ call[r].seen \in SUBSET BOOLEAN /\ (Present(r) => objects[call[r].key] \in Keys)
  BY DEF StoreOK, Present, There, Blobs, CallType
<1>2. objects' = objs
  BY DEF Outcome
<1>3. ASSUME NEW q \in Requests \ {r}
      PROVE  /\ call'[q] = IF call[q].todo = <<>> THEN call[q]
                            ELSE [call[q] EXCEPT !.seen = @ \cup {There(call[q].key, objs)}]
             /\ call'[q] \in CallType
  <2>1. call'[q] = IF call[q].todo = <<>> THEN call[q]
                   ELSE [call[q] EXCEPT !.seen = @ \cup {There(call[q].key, objs)}]
    BY DEF Outcome
  <2>2. call[q] \in CallType /\ call[q].seen \in SUBSET BOOLEAN
    BY DEF StoreOK, CallType
  <2>3. call[q].seen \cup {There(call[q].key, objs)} \in SUBSET BOOLEAN
    BY <2>2, Sightings
  <2>4. QED
    BY <2>1, <2>2, <2>3 DEF CallType
<1>4. OwnOutcome(r, objs, todo, ans) /\ call'[r] \in CallType
  <2> DEFINE f == IF At(r, "read") /\ Present(r) THEN objects[call[r].key] ELSE call[r].from
             d == [call[r] EXCEPT !.todo = todo, !.ans = ans, !.from = f]
  <2>1. f \in Keys
    BY <1>1 DEF CallType
  <2>2. call'[r] = [d EXCEPT !.seen = @ \cup {There(d.key, objs)}]
    BY DEF Outcome
  <2> HIDE DEF f
  <2>3. /\ d \in CallType /\ d.key = call[r].key /\ d.seen = call[r].seen
        /\ d.op = call[r].op /\ d.gone = call[r].gone /\ d.todo = todo /\ d.ans = ans /\ d.from = f
    BY <1>1, <2>1 DEF CallType
  <2>4. call[r].seen \cup {There(call[r].key, objs)} \in SUBSET BOOLEAN
    BY <1>1, Sightings
  <2> HIDE DEF d
  <2>5. /\ call'[r].op = call[r].op /\ call'[r].key = call[r].key /\ call'[r].gone = call[r].gone
        /\ call'[r].todo = todo /\ call'[r].ans = ans /\ call'[r].from = f
        /\ call'[r].seen = call[r].seen \cup {There(call[r].key, objs)}
        /\ call'[r] \in CallType
    BY <2>2, <2>3, <2>4 DEF CallType
  <2>6. QED
    BY <2>5 DEF f, OwnOutcome
<1>5. call' \in [Requests -> CallType]
  BY <1>3, <1>4 DEF Outcome
<1>6. QED
  BY <1>2, <1>3, <1>4, <1>5 DEF OthersSee

\* A request of r keeps every call consistent when its outcome fits the method
\* and the store as it was, or as it has become.
LEMMA OutcomeKeeps ==
  ASSUME StoreOK, NEW r \in Requests, NEW objs, NEW todo \in Plans, NEW ans \in Answers,
         call[r].todo # <<>>, Outcome(r, objs, todo, ans),
         DOMAIN objs \subseteq Keys, objs \in [DOMAIN objs -> Blobs],
         Shape(call[r].op, call[r].gone, todo),
         todo # <<>> => ans = "none",
         todo = <<"remove">> => call[r].key \in DOMAIN objects,
         ans = "ok" => \/ TRUE \in call[r].seen
                       \/ call[r].key \in DOMAIN objects \/ call[r].key \in DOMAIN objs,
         ans = "false" => call[r].key \notin DOMAIN objs,
         ans = "missing" /\ call[r].op # "copy" => call[r].key \notin DOMAIN objs,
         call[r].op = "delete" /\ ans = "ok" => call[r].key \notin DOMAIN objs
  PROVE  StoreOK'
<1>1. objects' = objs /\ call' \in [Requests -> CallType]
  BY OutcomeEffect
<1>2. ASSUME NEW q \in Requests \ {r} PROVE CallOK(call[q])'
  <2>1. CallOK(call[q]) /\ call'[q] \in CallType /\ call[q] \in CallType
    BY <1>1 DEF StoreOK
  <2>2. call'[q] = IF call[q].todo = <<>> THEN call[q]
                   ELSE [call[q] EXCEPT !.seen = @ \cup {There(call[q].key, objs)}]
    BY OutcomeEffect DEF OthersSee
  <2>3. CASE call[q].todo = <<>>
    BY <2>1, <2>2, <2>3, PlansDiffer DEF CallOK, InFlight, TrueAnswer, Shape
  <2>4. CASE call[q].todo # <<>>
    <3>1. /\ call'[q].op = call[q].op /\ call'[q].gone = call[q].gone /\ call'[q].todo = call[q].todo
          /\ call'[q].key = call[q].key /\ call'[q].ans = "none"
          /\ call'[q].seen = call[q].seen \cup {There(call[q].key, objs)}
      BY <2>1, <2>2, <2>4 DEF CallType, CallOK, InFlight
    <3>2. Shape(call[q].op, call[q].gone, call[q].todo)'
      BY <2>1, <3>1 DEF CallOK, Shape
    <3>3. InFlight(call[q])'
      BY <1>1, <2>1, <3>1 DEF CallOK, InFlight
    <3>4. QED
      BY <2>1, <3>1, <3>2, <3>3 DEF CallOK, TrueAnswer
  <2>5. QED
    BY <2>3, <2>4
<1>3. CallOK(call[r])'
  <2>1. CallOK(call[r]) /\ call'[r] \in CallType /\ call[r] \in CallType
    BY <1>1 DEF StoreOK
  <2>2. /\ call'[r].op = call[r].op /\ call'[r].gone = call[r].gone /\ call'[r].todo = todo
        /\ call'[r].key = call[r].key /\ call'[r].ans = ans
        /\ call'[r].seen = call[r].seen \cup {There(call[r].key, objs)}
    BY OutcomeEffect DEF OwnOutcome
  <2>3. Shape(call[r].op, call[r].gone, call[r].todo)'
    BY <2>2
  <2>4. There(call[r].key, objects) \in call[r].seen /\ There(call[r].key, objs) \in call'[r].seen
    BY <2>1, <2>2 DEF CallOK, InFlight
  <2>5. InFlight(call[r])'
    BY <1>1, <2>2, <2>4, Sightings DEF InFlight
  <2>6. TrueAnswer(call[r])'
    BY <2>2, <2>4, Sightings DEF TrueAnswer
  <2>7. QED
    BY <2>1, <2>3, <2>5, <2>6 DEF CallOK
<1>4. QED
  BY <1>1, <1>2, <1>3 DEF StoreOK

\* What the outcome of a request of r changes.
LEMMA OutcomeIsStep ==
  ASSUME StoreOK, NEW r \in Requests, NEW objs, NEW todo \in Plans, NEW ans \in Answers,
         call[r].todo # <<>>, Outcome(r, objs, todo, ans),
         \/ objs = objects
         \/ /\ call[r].op = "put"
            /\ objs = With(objects, call[r].key, call[r].from)
         \/ /\ call[r].op = "copy" /\ call[r].from \in DOMAIN objects
            /\ objs = With(objects, call[r].key, objects[call[r].from])
         \/ call[r].op = "delete" /\ objs = Without(call[r].key),
         call[r].op \in {"put", "copy"} /\ ans = "ok" => call[r].key \in DOMAIN objs,
         call[r].op = "delete" /\ ans \in {"ok", "false"} => call[r].key \notin DOMAIN objs,
         call[r].op = "read" /\ ans = "ok" => call[r].key \in DOMAIN objects,
         At(r, "read") <=> call[r].op = "read"
  PROVE  StoreStep(r)
<1>1. \A q \in Requests : call[q] \in CallType
  BY DEF StoreOK
<1>2. /\ call'[r].op = call[r].op /\ call'[r].key = call[r].key /\ call'[r].ans = ans
      /\ call'[r].from = IF At(r, "read") /\ Present(r) THEN objects[call[r].key] ELSE call[r].from
  BY OutcomeEffect DEF OwnOutcome
<1>3. \A q \in Requests \ {r} :
        /\ call'[q].op = call[q].op /\ call'[q].key = call[q].key /\ call'[q].todo = call[q].todo
        /\ call'[q].ans = call[q].ans /\ call'[q].from = call[q].from
  <2> SUFFICES ASSUME NEW q \in Requests \ {r}
               PROVE  /\ call'[q].op = call[q].op /\ call'[q].key = call[q].key
                      /\ call'[q].todo = call[q].todo
                      /\ call'[q].ans = call[q].ans /\ call'[q].from = call[q].from
    OBVIOUS
  <2>1. call[q] \in CallType
    BY <1>1
  <2>2. call'[q] = IF call[q].todo = <<>> THEN call[q]
                   ELSE [call[q] EXCEPT !.seen = @ \cup {There(call[q].key, objs)}]
    BY OutcomeEffect DEF OthersSee
  <2>3. QED
    BY <2>1, <2>2 DEF CallType
<1>4. objects' = objs
  BY OutcomeEffect
<1>5. QED
  BY <1>2, <1>3, <1>4 DEF StoreStep, SameCall, Present, There

\* What a request has to do to the store, and answer, to be the next one of
\* its method.
Fits(r, objs, todo, ans) ==
  /\ call[r].todo # <<>>
  /\ \/ objs = objects
     \/ call[r].op = "put" /\ objs = With(objects, call[r].key, call[r].from)
     \/ /\ call[r].op = "copy" /\ call[r].from \in DOMAIN objects
        /\ objs = With(objects, call[r].key, objects[call[r].from])
     \/ call[r].op = "delete" /\ objs = Without(call[r].key)
  /\ Shape(call[r].op, call[r].gone, todo)
  /\ todo # <<>> => ans = "none"
  /\ todo = <<"remove">> => call[r].key \in DOMAIN objects
  /\ ans = "ok" => \/ TRUE \in call[r].seen
                   \/ call[r].key \in DOMAIN objects \/ call[r].key \in DOMAIN objs
  /\ ans = "false" => call[r].key \notin DOMAIN objs
  /\ ans = "missing" /\ call[r].op # "copy" => call[r].key \notin DOMAIN objs
  /\ call[r].op = "delete" /\ ans = "ok" => call[r].key \notin DOMAIN objs
  /\ call[r].op \in {"put", "copy"} /\ ans = "ok" => call[r].key \in DOMAIN objs
  /\ call[r].op = "read" /\ ans = "ok" => call[r].key \in DOMAIN objects

LEMMA PlanAt ==
  ASSUME StoreOK, NEW r \in Requests, call[r].todo # <<>>
  PROVE  /\ At(r, "read") <=> call[r].op = "read"
         /\ At(r, "read") => call[r].todo = <<"read">>
         /\ At(r, "write") => /\ call[r].todo \in {<<"write">>, <<"write", "head">>}
                              /\ call[r].op \in {"put", "copy"} /\ call[r].gone # "false"
                              /\ call[r].op = "put" => call[r].gone = "error"
         /\ At(r, "head") => call[r].todo = <<"head">> /\ call[r].op \in {"put", "copy", "stream"}
         /\ At(r, "exists") =>
              \/ call[r].todo = <<"exists", "remove">> /\ call[r].op = "delete" /\ call[r].gone = "false"
              \/ call[r].todo = <<"exists">> /\ call[r].op = "url" /\ call[r].gone # "false"
              \/ call[r].todo = <<"exists", "head">> /\ call[r].op = "stream" /\ call[r].gone # "false"
         /\ At(r, "remove") => call[r].todo = <<"remove">> /\ call[r].op = "delete"
         /\ At(r, "unlink") => call[r].todo = <<"unlink">> /\ call[r].op = "delete"
         /\ At(r, "bucket") => call[r].todo = <<"bucket", "write", "head">> /\ call[r].op \in {"put", "copy"}
         /\ At(r, "create") => call[r].todo = <<"create", "write", "head">> /\ call[r].op \in {"put", "copy"}
<1> DEFINE op == call[r].op  gone == call[r].gone  todo == call[r].todo  h == Head(call[r].todo)
<1>1. Shape(op, gone, todo) /\ todo # <<>> /\ \A x : At(r, x) <=> h = x
  BY DEF StoreOK, CallOK, At
<1>2. \/ /\ op \in {"put", "copy"} /\ (op = "put" => gone = "error") /\ gone # "false"
         /\ \/ todo = <<"write">> \/ todo = <<"write", "head">> \/ todo = <<"head">>
            \/ todo = <<"bucket", "write", "head">> \/ todo = <<"create", "write", "head">>
      \/ /\ op = "delete" /\ gone = "false"
         /\ \/ todo = <<"unlink">> \/ todo = <<"exists", "remove">> \/ todo = <<"remove">>
      \/ op = "url" /\ gone # "false" /\ todo = <<"exists">>
      \/ op = "stream" /\ gone # "false" /\ (todo = <<"exists", "head">> \/ todo = <<"head">>)
      \/ op = "read" /\ todo = <<"read">>
  BY <1>1 DEF Shape
<1>3. /\ todo = <<"write">> => h = "write"
      /\ todo = <<"write", "head">> => h = "write"
      /\ todo = <<"head">> => h = "head"
      /\ todo = <<"bucket", "write", "head">> => h = "bucket"
      /\ todo = <<"create", "write", "head">> => h = "create"
      /\ todo = <<"unlink">> => h = "unlink"
      /\ todo = <<"remove">> => h = "remove"
      /\ todo = <<"read">> => h = "read"
      /\ todo = <<"exists">> => h = "exists"
      /\ todo = <<"exists", "head">> => h = "exists"
      /\ todo = <<"exists", "remove">> => h = "exists"
  BY PlanSteps
<1> HIDE DEF op, gone, todo, h
<1>4. /\ h = "read" <=> op = "read"
      /\ h = "read" => todo = <<"read">>
      /\ h = "write" => /\ todo \in {<<"write">>, <<"write", "head">>}
                        /\ op \in {"put", "copy"} /\ gone # "false" /\ (op = "put" => gone = "error")
      /\ h = "head" => todo = <<"head">> /\ op \in {"put", "copy", "stream"}
      /\ h = "exists" =>
           \/ todo = <<"exists", "remove">> /\ op = "delete" /\ gone = "false"
           \/ todo = <<"exists">> /\ op = "url" /\ gone # "false"
           \/ todo = <<"exists", "head">> /\ op = "stream" /\ gone # "false"
      /\ h = "remove" => todo = <<"remove">> /\ op = "delete"
      /\ h = "unlink" => todo = <<"unlink">> /\ op = "delete"
      /\ h = "bucket" => todo = <<"bucket", "write", "head">> /\ op \in {"put", "copy"}
      /\ h = "create" => todo = <<"create", "write", "head">> /\ op \in {"put", "copy"}
  BY <1>2, <1>3
<1>5. QED
  BY <1>1, <1>4 DEF op, gone, todo

LEMMA FittingStep ==
  ASSUME StoreOK, NEW r \in Requests, NEW objs, NEW todo \in Plans, NEW ans \in Answers,
         Outcome(r, objs, todo, ans), Fits(r, objs, todo, ans)
  PROVE  StoreOK' /\ StoreStep(r)
<1>1. call[r].todo # <<>> /\ call[r] \in CallType
  BY DEF Fits, StoreOK
<1>2. DOMAIN objs \subseteq Keys /\ objs \in [DOMAIN objs -> Blobs]
  <2>1. call[r].key \in Keys /\ call[r].from \in Blobs
    BY <1>1 DEF CallType, Blobs
  <2>2. DOMAIN objects \subseteq Keys /\ objects \in [DOMAIN objects -> Blobs]
    BY DEF StoreOK
  <2>3. ASSUME NEW k \in Keys, NEW v \in Blobs
        PROVE  DOMAIN With(objects, k, v) \subseteq Keys /\ With(objects, k, v) \in [DOMAIN With(objects, k, v) -> Blobs]
    BY <2>2 DEF With
  <2>4. ASSUME NEW k
        PROVE  DOMAIN Without(k) \subseteq Keys /\ Without(k) \in [DOMAIN Without(k) -> Blobs]
    BY <2>2 DEF Without
  <2>5. QED
    BY <2>1, <2>2, <2>3, <2>4 DEF Fits
<1>3. StoreOK'
  BY <1>1, <1>2, OutcomeKeeps DEF Fits
<1>4. At(r, "read") <=> call[r].op = "read"
  BY <1>1, PlanAt
<1>5. call[r].op = "delete" /\ ans \in {"ok", "false"} => call[r].key \notin DOMAIN objs
  BY DEF Fits
<1>6. QED
  BY <1>1, <1>3, <1>4, <1>5, OutcomeIsStep DEF Fits

\* The requests of the store, one by one.
LEMMA ProceedFits ==
  ASSUME StoreOK, NEW r \in Requests, NEW objs, Proceed(r, objs),
         NEW todo \in Plans, NEW ans \in Answers, todo = Tail(call[r].todo),
         IF todo = <<>> THEN ans = "ok" ELSE ans = "none", Fits(r, objs, todo, ans)
  PROVE  StoreOK' /\ \E q \in Requests : StoreStep(q)
<1>1. Outcome(r, objs, todo, ans)
  BY DEF Proceed
<1>2. QED
  BY <1>1, FittingStep

LEMMA AnswerFits ==
  ASSUME StoreOK, NEW r \in Requests, NEW objs, NEW ans \in Answers, Answer(r, objs, ans),
         Fits(r, objs, <<>>, ans)
  PROVE  StoreOK' /\ \E q \in Requests : StoreStep(q)
<1>1. <<>> \in Plans
  BY DEF Plans
<1>2. QED
  BY <1>1, FittingStep DEF Answer

LEMMA BucketSteps ==
  ASSUME StoreOK, NEW r \in Requests, HeadBucket(r) \/ CreateBucket(r)
  PROVE  StoreOK' /\ \E q \in Requests : StoreStep(q)
<1>1. call[r].todo # <<>>
  BY DEF HeadBucket, CreateBucket, At
<1>2. /\ <<"write", "head">> \in Plans /\ <<"create", "write", "head">> \in Plans
      /\ "none" \in Answers /\ "error" \in Answers
  BY DEF Plans, Answers
<1>3. CASE HeadBucket(r)
  <2>1. call[r].todo = <<"bucket", "write", "head">> /\ call[r].op \in {"put", "copy"}
        /\ call[r].gone # "false" /\ (call[r].op = "put" => call[r].gone = "error")
    BY <1>1, <1>3, PlanAt, PlansDiffer DEF HeadBucket, StoreOK, CallOK, Shape
  <2>2. Fits(r, objects, <<"write", "head">>, "none") /\ Fits(r, objects, <<"create", "write", "head">>, "none")
    BY <1>1, <2>1, PlansDiffer DEF Fits, Shape
  <2>3. CASE bucket
    <3>1. Proceed(r, objects) /\ <<"write", "head">> = Tail(call[r].todo)
      BY <1>3, <2>1, <2>3, PlanSteps DEF HeadBucket
    <3>2. QED
      BY <1>2, <2>2, <3>1, ProceedFits, PlansDiffer
  <2>4. CASE ~bucket
    <3>1. Outcome(r, objects, <<"create", "write", "head">>, "none")
      BY <1>3, <2>1, <2>4, PlanSteps DEF HeadBucket
    <3>2. QED
      BY <1>2, <2>2, <3>1, FittingStep
  <2>5. QED
    BY <2>3, <2>4
<1>4. CASE CreateBucket(r)
  <2>1. call[r].todo = <<"create", "write", "head">> /\ call[r].op \in {"put", "copy"}
        /\ call[r].gone # "false" /\ (call[r].op = "put" => call[r].gone = "error")
    BY <1>1, <1>4, PlanAt, PlansDiffer DEF CreateBucket, StoreOK, CallOK, Shape
  <2>2. Fits(r, objects, <<"write", "head">>, "none") /\ Fits(r, objects, <<>>, "error")
    BY <1>1, <2>1, PlansDiffer DEF Fits, Shape
  <2>3. CASE bucket
    BY <1>2, <1>4, <2>2, <2>3, AnswerFits DEF CreateBucket
  <2>4. CASE ~bucket
    <3>1. Proceed(r, objects) /\ <<"write", "head">> = Tail(call[r].todo)
      BY <1>4, <2>1, <2>4, PlanSteps DEF CreateBucket
    <3>2. QED
      BY <1>2, <2>2, <3>1, ProceedFits, PlansDiffer
  <2>5. QED
    BY <2>3, <2>4
<1>5. QED
  BY <1>3, <1>4

\* What is written is there, and what is removed is not.
LEMMA WrittenIsThere ==
  ASSUME NEW r \in Requests, call[r].op \in {"put", "copy"}, Writable(r)
  PROVE  /\ call[r].key \in DOMAIN Written(r)
         /\ \/ call[r].op = "put" /\ Written(r) = With(objects, call[r].key, call[r].from)
            \/ /\ call[r].op = "copy" /\ call[r].from \in DOMAIN objects
               /\ Written(r) = With(objects, call[r].key, objects[call[r].from])
BY DEF Written, With, Writable

LEMMA WriteSteps ==
  ASSUME StoreOK, NEW r \in Requests, Write(r)
  PROVE  StoreOK' /\ \E q \in Requests : StoreStep(q)
<1>1. call[r].todo # <<>> /\ At(r, "write") /\ call[r].gone \in Answers
  BY DEF Write, At, StoreOK, CallType, Answers
<1>2. /\ call[r].todo = <<"write">> \/ call[r].todo = <<"write", "head">>
      /\ call[r].op \in {"put", "copy"} /\ call[r].gone # "false" /\ (call[r].op = "put" => call[r].gone = "error")
  BY <1>1, PlanAt
<1>3. <<>> \in Plans /\ <<"head">> \in Plans /\ "none" \in Answers /\ "ok" \in Answers
  BY DEF Plans, Answers
<1>4. CASE Writable(r)
  <2>1. Fits(r, Written(r), <<>>, "ok") /\ Fits(r, Written(r), <<"head">>, "none")
    BY <1>1, <1>2, <1>4, WrittenIsThere, PlansDiffer DEF Fits, Shape
  <2>2. Proceed(r, Written(r))
    BY <1>4 DEF Write
  <2>3. PICK objs : objs = Written(r)
    OBVIOUS
  <2>4. Proceed(r, objs) /\ Fits(r, objs, <<>>, "ok") /\ Fits(r, objs, <<"head">>, "none")
    BY <2>1, <2>2, <2>3
  <2>5. Tail(call[r].todo) = <<>> \/ Tail(call[r].todo) = <<"head">>
    BY <1>2, PlanSteps
  <2>6. QED
    BY <1>3, <2>4, <2>5, ProceedFits, PlansDiffer
<1>5. CASE ~Writable(r)
  <2>1. Fits(r, objects, <<>>, call[r].gone)
    BY <1>1, <1>2, StorageAssumption DEF Fits, Shape, StoreOK, CallOK, CallType
  <2>2. QED
    BY <1>1, <1>5, <2>1, AnswerFits DEF Write
<1>6. QED
  BY <1>4, <1>5

LEMMA ReadSteps ==
  ASSUME StoreOK, NEW r \in Requests, HeadObject(r) \/ ObjectExists(r) \/ ReadBody(r)
  PROVE  StoreOK' /\ \E q \in Requests : StoreStep(q)
<1>1. call[r].todo # <<>> /\ call[r].gone \in Answers
  BY DEF HeadObject, ObjectExists, ReadBody, At, StoreOK, CallType, Answers
<1>2. /\ <<>> \in Plans /\ <<"head">> \in Plans /\ <<"remove">> \in Plans
      /\ "none" \in Answers /\ "ok" \in Answers /\ "error" \in Answers /\ "missing" \in Answers
  BY DEF Plans, Answers
<1>3. Present(r) <=> call[r].key \in DOMAIN objects
  BY DEF Present, There
<1>4. CASE HeadObject(r)
  <2>1. call[r].todo = <<"head">> /\ call[r].op \in {"put", "copy", "stream"}
    BY <1>1, <1>4, PlanAt DEF HeadObject
  <2>2. CASE Present(r)
    <3>1. Fits(r, objects, <<>>, "ok") /\ Tail(call[r].todo) = <<>>
      BY <1>1, <1>3, <2>1, <2>2, PlansDiffer, PlanSteps DEF Fits, Shape
    <3>2. QED
      BY <1>2, <1>4, <2>2, <3>1, ProceedFits DEF HeadObject
  <2>3. CASE ~Present(r)
    <3>1. Fits(r, objects, <<>>, "missing") /\ Fits(r, objects, <<>>, "error")
      BY <1>1, <1>3, <2>1, <2>3, PlansDiffer DEF Fits, Shape
    <3>2. QED
      BY <1>2, <1>4, <2>3, <3>1, AnswerFits DEF HeadObject
  <2>4. QED
    BY <2>2, <2>3
<1>5. CASE ObjectExists(r)
  <2>1. \/ call[r].todo = <<"exists", "remove">> /\ call[r].op = "delete" /\ call[r].gone = "false"
        \/ call[r].todo = <<"exists">> /\ call[r].op = "url" /\ call[r].gone # "false"
        \/ call[r].todo = <<"exists", "head">> /\ call[r].op = "stream" /\ call[r].gone # "false"
    BY <1>1, <1>5, PlanAt DEF ObjectExists
  <2>2. CASE Present(r)
    <3>1. Proceed(r, objects)
      BY <1>5, <2>2 DEF ObjectExists
    <3>2. CASE call[r].op = "delete"
      <4>1. Fits(r, objects, <<"remove">>, "none") /\ Tail(call[r].todo) = <<"remove">>
        BY <1>1, <1>3, <2>1, <2>2, <3>2, PlansDiffer, PlanSteps DEF Fits, Shape
      <4>2. QED
        BY <1>2, <3>1, <4>1, ProceedFits, PlansDiffer
    <3>3. CASE call[r].op = "url"
      <4>1. Fits(r, objects, <<>>, "ok") /\ Tail(call[r].todo) = <<>>
        BY <1>1, <1>3, <2>1, <2>2, <3>3, PlansDiffer, PlanSteps DEF Fits, Shape
      <4>2. QED
        BY <1>2, <3>1, <4>1, ProceedFits
    <3>4. CASE call[r].op = "stream"
      <4>1. Fits(r, objects, <<"head">>, "none") /\ Tail(call[r].todo) = <<"head">>
        BY <1>1, <1>3, <2>1, <2>2, <3>4, PlansDiffer, PlanSteps DEF Fits, Shape
      <4>2. QED
        BY <1>2, <3>1, <4>1, ProceedFits, PlansDiffer
    <3>5. QED
      BY <2>1, <3>2, <3>3, <3>4
  <2>3. CASE ~Present(r)
    <3>1. Fits(r, objects, <<>>, call[r].gone)
      BY <1>1, <1>3, <2>1, <2>3, PlansDiffer DEF Fits, Shape, StoreOK, CallType
    <3>2. QED
      BY <1>1, <1>2, <1>5, <2>3, <3>1, AnswerFits DEF ObjectExists
  <2>4. QED
    BY <2>2, <2>3
<1>6. CASE ReadBody(r)
  <2>1. call[r].todo = <<"read">> /\ call[r].op = "read"
    BY <1>1, <1>6, PlanAt DEF ReadBody
  <2>2. CASE Present(r)
    <3>1. Fits(r, objects, <<>>, "ok") /\ Tail(call[r].todo) = <<>>
      BY <1>1, <1>3, <2>1, <2>2, PlansDiffer, PlanSteps DEF Fits, Shape
    <3>2. QED
      BY <1>2, <1>6, <2>2, <3>1, ProceedFits DEF ReadBody
  <2>3. CASE ~Present(r)
    <3>1. Fits(r, objects, <<>>, "error")
      BY <1>1, <1>3, <2>1, <2>3, PlansDiffer DEF Fits, Shape
    <3>2. QED
      BY <1>2, <1>6, <2>3, <3>1, AnswerFits DEF ReadBody
  <2>4. QED
    BY <2>2, <2>3
<1>7. QED
  BY <1>4, <1>5, <1>6

LEMMA RemoveSteps ==
  ASSUME StoreOK, NEW r \in Requests, Remove(r) \/ Unlink(r)
  PROVE  StoreOK' /\ \E q \in Requests : StoreStep(q)
<1>1. call[r].todo # <<>>
  BY DEF Remove, Unlink, At
<1>2. <<>> \in Plans /\ "ok" \in Answers /\ "false" \in Answers
  BY DEF Plans, Answers
<1>3. Present(r) <=> call[r].key \in DOMAIN objects
  BY DEF Present, There
<1>4. PICK objs : objs = Without(call[r].key)
  OBVIOUS
<1>5. call[r].key \notin DOMAIN objs
  BY <1>4 DEF Without
<1>6. CASE Remove(r)
  <2>1. call[r].todo = <<"remove">> /\ call[r].op = "delete" /\ TRUE \in call[r].seen
    BY <1>1, <1>6, PlanAt DEF Remove, StoreOK, CallOK, InFlight
  <2>2. Fits(r, objs, <<>>, "ok") /\ Tail(call[r].todo) = <<>>
    BY <1>1, <1>4, <1>5, <2>1, PlansDiffer, PlanSteps DEF Fits, Shape
  <2>3. Proceed(r, objs)
    BY <1>4, <1>6 DEF Remove
  <2>4. QED
    BY <1>2, <2>2, <2>3, ProceedFits
<1>7. CASE Unlink(r)
  <2>1. call[r].todo = <<"unlink">> /\ call[r].op = "delete"
    BY <1>1, <1>7, PlanAt DEF Unlink
  <2>2. CASE Present(r)
    <3>1. Fits(r, objs, <<>>, "ok") /\ Tail(call[r].todo) = <<>>
      BY <1>1, <1>3, <1>4, <1>5, <2>1, <2>2, PlansDiffer, PlanSteps DEF Fits, Shape
    <3>2. Proceed(r, objs)
      BY <1>4, <1>7, <2>2 DEF Unlink
    <3>3. QED
      BY <1>2, <3>1, <3>2, ProceedFits
  <2>3. CASE ~Present(r)
    <3>1. Fits(r, objects, <<>>, "false")
      BY <1>1, <1>3, <2>1, <2>3, PlansDiffer DEF Fits, Shape
    <3>2. QED
      BY <1>2, <1>7, <2>3, <3>1, AnswerFits DEF Unlink
  <2>4. QED
    BY <2>2, <2>3
<1>8. QED
  BY <1>6, <1>7

LEMMA FailSteps ==
  ASSUME StoreOK, NEW r \in Requests, StoreFails(r)
  PROVE  StoreOK' /\ \E q \in Requests : StoreStep(q)
<1>1. call[r].todo # <<>>
  BY DEF StoreFails
<1>2. <<>> \in Plans /\ <<"write", "head">> \in Plans /\ "error" \in Answers /\ "none" \in Answers
  BY DEF Plans, Answers
<1>3. CASE Answer(r, objects, "error")
  <2>1. Fits(r, objects, <<>>, "error")
    BY <1>1, PlansDiffer DEF Fits, Shape
  <2>2. QED
    BY <1>2, <1>3, <2>1, AnswerFits
<1>4. CASE At(r, "bucket") /\ Proceed(r, objects)
  <2>1. call[r].todo = <<"bucket", "write", "head">> /\ call[r].op \in {"put", "copy"}
        /\ call[r].gone # "false" /\ (call[r].op = "put" => call[r].gone = "error")
    BY <1>1, <1>4, PlanAt, PlansDiffer DEF StoreOK, CallOK, Shape
  <2>2. Fits(r, objects, <<"write", "head">>, "none") /\ Tail(call[r].todo) = <<"write", "head">>
    BY <1>1, <2>1, PlansDiffer, PlanSteps DEF Fits, Shape
  <2>3. QED
    BY <1>2, <1>4, <2>2, ProceedFits, PlansDiffer
<1>5. CASE At(r, "write") /\ Writable(r) /\ Answer(r, Written(r), "error")
  <2>1. call[r].op \in {"put", "copy"}
    BY <1>1, <1>5, PlanAt
  <2>2. Fits(r, Written(r), <<>>, "error")
    BY <1>1, <1>5, <2>1, WrittenIsThere, PlansDiffer DEF Fits, Shape
  <2>3. PICK objs : objs = Written(r)
    OBVIOUS
  <2>4. Answer(r, objs, "error") /\ Fits(r, objs, <<>>, "error")
    BY <1>5, <2>2, <2>3
  <2>5. QED
    BY <1>2, <2>4, AnswerFits
<1>6. CASE At(r, "remove") /\ Answer(r, Without(call[r].key), "error")
  <2>1. call[r].op = "delete"
    BY <1>1, <1>6, PlanAt
  <2>2. PICK objs : objs = Without(call[r].key)
    OBVIOUS
  <2>3. Answer(r, objs, "error") /\ Fits(r, objs, <<>>, "error")
    BY <1>1, <1>6, <2>1, <2>2, PlansDiffer DEF Fits, Shape
  <2>4. QED
    BY <1>2, <2>3, AnswerFits
<1>7. QED
  BY <1>3, <1>4, <1>5, <1>6 DEF StoreFails

LEMMA StorageSteps ==
  ASSUME StoreOK, StorageNext PROVE StoreOK' /\ \E r \in Requests : StoreStep(r)
BY BucketSteps, WriteSteps, ReadSteps, RemoveSteps, FailSteps DEF StorageNext

-----------------------------------------------------------------------------
(* Entering and leaving a call.                                            *)

Methods == {"put", "delete", "url", "stream", "read", "copy"}

LEMMA MethodsFit ==
  ASSUME provider \in Providers, NEW op \in Methods
  PROVE  /\ Adapter[provider][op].todo \in Plans \ {<<>>, <<"remove">>}
         /\ Adapter[provider][op].gone \in {"error", "false", "missing"}
         /\ Shape(op, Adapter[provider][op].gone, Adapter[provider][op].todo)
         /\ op = "stream" => Adapter[provider][op].todo = <<"exists", "head">>
<1> DEFINE m == Adapter[provider][op]
<1>1. provider \in {"local", "s3", "minio"}
  BY StorageAssumption
<1>2. CASE provider = "local"
  <2>1. Adapter[provider] = [put |-> LocalPut, delete |-> LocalDelete, url |-> LocalUrl,
                             stream |-> LocalStream, read |-> LocalRead, copy |-> LocalCopy]
    BY <1>2 DEF Adapter
  <2>2. \/ op = "put" /\ m = LocalPut
        \/ op = "delete" /\ m = LocalDelete
        \/ op = "url" /\ m = LocalUrl
        \/ op = "stream" /\ m = LocalStream
        \/ op = "read" /\ m = LocalRead
        \/ op = "copy" /\ m = LocalCopy
    BY <2>1 DEF Methods
  <2>3. QED
    BY <2>2, PlansDiffer DEF Shape, Plans, Method, LocalPut, LocalDelete, LocalUrl, LocalStream, LocalRead, LocalCopy
<1>3. CASE provider = "s3"
  <2>1. Adapter[provider] = [put |-> S3Put, delete |-> S3Delete, url |-> S3Url,
                             stream |-> S3Stream, read |-> S3Read, copy |-> S3Copy]
    BY <1>3 DEF Adapter
  <2>2. \/ op = "put" /\ m = S3Put
        \/ op = "delete" /\ m = S3Delete
        \/ op = "url" /\ m = S3Url
        \/ op = "stream" /\ m = S3Stream
        \/ op = "read" /\ m = S3Read
        \/ op = "copy" /\ m = S3Copy
    BY <2>1 DEF Methods
  <2>3. QED
    BY <2>2, PlansDiffer DEF Shape, Plans, Method, S3Put, S3Delete, S3Url, S3Stream, S3Read, S3Copy
<1>4. CASE provider = "minio"
  <2>1. Adapter[provider] = [put |-> MinIOPut, delete |-> MinIODelete, url |-> MinIOUrl,
                             stream |-> MinIOStream, read |-> MinIORead, copy |-> MinIOCopy]
    BY <1>4 DEF Adapter
  <2>2. \/ op = "put" /\ m = MinIOPut
        \/ op = "delete" /\ m = MinIODelete
        \/ op = "url" /\ m = MinIOUrl
        \/ op = "stream" /\ m = MinIOStream
        \/ op = "read" /\ m = MinIORead
        \/ op = "copy" /\ m = MinIOCopy
    BY <2>1 DEF Methods
  <2>3. QED
    BY <2>2, PlansDiffer DEF Shape, Plans, Method, MinIOPut, MinIODelete, MinIOUrl, MinIOStream, MinIORead, MinIOCopy
<1>5. QED
  BY <1>1, <1>2, <1>3, <1>4

\* A call just entered.
Fresh(c, op, key, from) ==
  c.op = op /\ c.key = key /\ c.from = from /\ c.ans = "none" /\ CallOK(c)

LEMMA CallIsFresh ==
  ASSUME provider \in Providers, NEW r \in Requests, NEW op \in Methods, NEW key \in Keys,
         NEW from \in Keys, NEW skip \in BOOLEAN, skip => op = "stream", Call(r, op, key, from, skip)
  PROVE  /\ UNCHANGED <<provider, bucket, objects, faults>>
         /\ \E c : call' = [call EXCEPT ![r] = c] /\ Fresh(c, op, key, from)
<1> DEFINE m == Adapter[provider][op]
           todo == IF skip /\ Head(m.todo) = "exists" THEN Tail(m.todo) ELSE m.todo
           c == [op |-> op, key |-> key, from |-> from, gone |-> m.gone, ans |-> "none",
                 todo |-> todo, seen |-> {There(key, objects)}]
<1>1. call' = [call EXCEPT ![r] = c] /\ UNCHANGED <<provider, bucket, objects, faults>>
  BY DEF Call
<1>2. /\ m.todo \in Plans \ {<<>>, <<"remove">>} /\ m.gone \in {"error", "false", "missing"}
      /\ Shape(op, m.gone, m.todo) /\ (op = "stream" => m.todo = <<"exists", "head">>)
  BY MethodsFit
<1> HIDE DEF m
<1>3. todo \in Plans /\ todo # <<"remove">> /\ Shape(op, m.gone, todo)
  BY <1>2, PlanSteps, PlansDiffer DEF Plans, Shape
<1> HIDE DEF todo
<1>4. c \in CallType
  BY <1>2, <1>3, Sightings DEF CallType, Methods, Answers
<1>5. CallOK(c)
  BY <1>3, <1>4 DEF CallOK, InFlight, TrueAnswer
<1>6. Fresh(c, op, key, from)
  BY <1>5 DEF Fresh
<1>7. QED
  BY <1>1, <1>6

LEMMA NoCallIsOK == CallOK(NoCall) /\ NoCall.todo = <<>> /\ NoCall.ans = "none"
<1>1. NoCall \in CallType
  BY DEF NoCall, CallType, Plans, Answers, Keys
<1>2. QED
  BY <1>1, PlansDiffer DEF NoCall, CallOK, Shape, InFlight, TrueAnswer

-----------------------------------------------------------------------------
(* A step of one request that neither commits nor reaches the store.       *)

\* The task t and the call c that the step leaves to r, seen from the state
\* before it.
Same(t) == t.blob \in DOMAIN rows /\ t.key = Key(t.blob)
Changed(t) == IF t.op = "delete" THEN Same(t) ELSE t.insert \/ t.row # t.seen
Free(t) == IF t.insert THEN t.blob \notin DOMAIN rows ELSE Same(t)
PlainStep(r, t, c) ==
  /\ task' = [task EXCEPT ![r] = t] /\ call' = [call EXCEPT ![r] = c]
  /\ UNCHANGED <<provider, bucket, objects, rows, told, refs, now>>
  /\ faults' \in 0 .. MaxFaults
  /\ t \in TaskType /\ CallOK(c)
  /\ task[r].at # "done" /\ t.out # "committed"
  /\ task[r].at # "idle" => t.op = task[r].op /\ t.blob = task[r].blob /\ t.base = task[r].base
  /\ Course(t, r) /\ Loaded(t, r) /\ CallOf(t, c, r) /\ Bytes(t, c, r) /\ InTime(t)
  /\ t.at \in Flushed /\ Changed(t) => ~Locked(r, t.blob) /\ Free(t)
  /\ task[r].op = "promote" /\ task[r].at \in {"unstore", "commit"} =>
       t.at \in {"unstore", "commit"} \/ t.out = "rolledback"

LEMMA SettledStays ==
  ASSUME TypeOK, TasksInv, NEW r \in Requests, NEW t, task' = [task EXCEPT ![r] = t], task[r].at # "done",
         NEW q \in Requests, task[q].out = "committed"
  PROVE  q # r /\ task'[q] = task[q]
<1>1. q # r
  BY DEF TasksInv, Course, Stage
<1>2. QED
  BY <1>1 DEF TypeOK

LEMMA KnownStays ==
  ASSUME TypeOK, TasksInv, NEW r \in Requests, NEW t, task' = [task EXCEPT ![r] = t], task[r].at # "done"
  PROVE  /\ \A l, b : Known(l, b) => Known(l, b)'
         /\ \A q \in Requests : \A ops : Settled(q, ops) => Settled(q, ops)'
         /\ \A b : Key(b) \subseteq Key(b)'
         /\ \A q \in Requests : \A b, k : Carried(q, b, k) => Carried(q, b, k)'
         /\ \A q \in Requests : \A b, k : k # r /\ Overwrote(q, b, k) => Overwrote(q, b, k)'
<1>1. \A q \in Requests : task[q].out = "committed" => task'[q] = task[q]
  BY SettledStays
<1>2. \A q \in Requests : \A ops : Settled(q, ops) => Settled(q, ops)'
  BY <1>1 DEF Settled
<1>3. ASSUME NEW l, NEW b, Known(l, b) PROVE Known(l, b)'
  BY <1>1, <1>2, <1>3 DEF Known, BlobOf, Settled
<1>4. \A b : Key(b) \subseteq Key(b)'
  BY <1>1 DEF Key
<1>5. \A q \in Requests : \A b, k : Carried(q, b, k) => Carried(q, b, k)'
  BY <1>1 DEF Carried
<1>6. ASSUME NEW q \in Requests, NEW b, NEW k, k # r, Overwrote(q, b, k) PROVE Overwrote(q, b, k)'
  <2>1. task'[q] = task[q]
    BY <1>1, <1>6 DEF Overwrote
  <2>2. k \in Requests => task'[k] = task[k]
    BY <1>6 DEF TypeOK
  <2>3. QED
    BY <1>6, <2>1, <2>2 DEF Overwrote
<1>7. QED
  BY <1>2, <1>3, <1>4, <1>5, <1>6

LEMMA LoadedStays ==
  ASSUME TypeOK, TasksInv, NEW r \in Requests, NEW t, task' = [task EXCEPT ![r] = t], task[r].at # "done",
         \A k : Kept(k) => Kept(k)',
         NEW u, NEW q, Loaded(u, q)
  PROVE  Loaded(u, q)'
<1>1. /\ Known(u.base.loc, u.blob)' /\ Known(u.seen.loc, u.blob)'
      /\ u.op = "download" => Known(u.row.loc, u.blob)'
      /\ u.op \notin Creating /\ u.blob \in Requests => Settled(u.blob, Creating)'
  BY KnownStays DEF Loaded
<1>2. Key(u.blob) \subseteq Key(u.blob)'
  BY KnownStays
<1>3. Kept(u.base.loc)'
  BY DEF Loaded
<1>4. QED
  BY <1>1, <1>2, <1>3 DEF Loaded

\* A key changes with a commit only.
LEMMA KeyStays ==
  ASSUME Inv, NEW r \in Requests, NEW t, NEW c, PlainStep(r, t, c)
  PROVE  \A b : Key(b)' = Key(b)
<1>1. /\ TypeOK /\ task' = [task EXCEPT ![r] = t] /\ t.out # "committed" /\ task[r].out # "committed"
  BY DEF Inv, PlainStep, TasksInv, Course, Stage
<1>2. \A q \in Requests : task'[q] = IF q = r THEN t ELSE task[q]
  BY <1>1 DEF TypeOK
<1>3. QED
  BY <1>1, <1>2 DEF Key

\* An object that is gone stays accounted for.
LEMMA KeptStays ==
  ASSUME Inv, NEW r \in Requests, NEW t, NEW c, PlainStep(r, t, c)
  PROVE  \A k : Kept(k) => Kept(k)'
<1>1. /\ TypeOK /\ TasksInv /\ task' = [task EXCEPT ![r] = t] /\ objects' = objects /\ task[r].at # "done"
      /\ task[r].at # "idle" => t.op = task[r].op /\ t.base = task[r].base
      /\ task[r].op = "promote" /\ task[r].at \in {"unstore", "commit"} =>
           t.at \in {"unstore", "commit"} \/ t.out = "rolledback"
      /\ Stage(t)
  BY DEF Inv, PlainStep, Course
<1>2. \A q \in Requests : task'[q] = IF q = r THEN t ELSE task[q]
  BY <1>1 DEF TypeOK
<1>3. ASSUME NEW p \in Requests, NEW k, Unstoring(p, k) PROVE Unstoring(p, k)'
  <2>1. CASE p # r
    BY <1>2, <1>3, <2>1 DEF Unstoring
  <2>2. CASE p = r
    <3>1. t.at \in {"unstore", "commit", "done"} /\ t.op = "promote" /\ t.base.loc = k
      BY <1>1, <1>3, <2>2 DEF Unstoring, Stage
    <3>2. QED
      BY <1>2, <2>2, <3>1 DEF Unstoring
  <2>3. QED
    BY <2>1, <2>2
<1>4. QED
  BY <1>1, <1>3 DEF Kept

LEMMA PlainTypes ==
  ASSUME TypeOK, StoreOK, NEW r \in Requests, NEW t, NEW c, PlainStep(r, t, c)
  PROVE  TypeOK' /\ StoreOK'
<1>1. call' \in [Requests -> CallType] /\ task' \in [Requests -> TaskType]
  BY DEF PlainStep, TypeOK, CallOK
<1>2. TypeOK'
  BY <1>1 DEF PlainStep, TypeOK
<1>3. ASSUME NEW q \in Requests PROVE CallOK(call[q])'
  <2>1. CallOK(call'[q])
    BY DEF PlainStep, StoreOK
  <2>2. objects' = objects
    BY DEF PlainStep
  <2>3. QED
    BY <2>1, <2>2 DEF CallOK, InFlight, TrueAnswer
<1>4. QED
  BY <1>1, <1>2, <1>3 DEF StoreOK, PlainStep

LEMMA PlainTasks ==
  ASSUME Inv, NEW r \in Requests, NEW t, NEW c, PlainStep(r, t, c)
  PROVE  TasksInv' /\ TimeInv' /\ RowsInv'
<1>1. /\ TypeOK /\ TasksInv /\ task' = [task EXCEPT ![r] = t] /\ call' = [call EXCEPT ![r] = c]
      /\ task[r].at # "done" /\ rows' = rows /\ now' = now
  BY DEF Inv, PlainStep
<1>2. \A q \in Requests : IF q = r THEN task'[q] = t /\ call'[q] = c
                           ELSE task'[q] = task[q] /\ call'[q] = call[q]
  BY <1>1 DEF TypeOK
<1>3. TasksInv'
  <2> SUFFICES ASSUME NEW q \in Requests
               PROVE  Course(task'[q], q) /\ Loaded(task[q], q)' /\ CallOf(task'[q], call'[q], q)
    BY DEF TasksInv, Course, Stage, Makes, CallOf
  <2>1. CASE q = r
    <3>1. Course(t, r) /\ Loaded(t, r) /\ CallOf(t, c, r)
      BY DEF PlainStep
    <3>2. Loaded(t, r)'
      BY <1>1, <3>1, KeptStays, LoadedStays
    <3>3. QED
      BY <1>2, <2>1, <3>1, <3>2 DEF Loaded
  <2>2. CASE q # r
    <3>1. Course(task[q], q) /\ Loaded(task[q], q) /\ CallOf(task[q], call[q], q)
      BY <1>1 DEF TasksInv
    <3>2. PICK u : u = task[q]
      OBVIOUS
    <3>3. Loaded(u, q)'
      BY <1>1, <3>1, <3>2, KeptStays, LoadedStays
    <3>4. task'[q] = u /\ call'[q] = call[q]
      BY <1>2, <2>2, <3>2
    <3>5. QED
      BY <3>1, <3>2, <3>3, <3>4 DEF Loaded
  <2>3. QED
    BY <2>1, <2>2
<1>4. TimeInv'
  BY <1>1, <1>2 DEF Inv, TimeInv, InTime, PlainStep
<1>5. RowsInv'
  BY <1>1, KnownStays DEF Inv, RowsInv
<1>6. QED
  BY <1>3, <1>4, <1>5

LEMMA PlainObjects ==
  ASSUME Inv, NEW r \in Requests, NEW t, NEW c, PlainStep(r, t, c)
  PROVE  ObjectsInv' /\ BytesInv' /\ LocksInv'
<1>1. /\ TypeOK /\ TasksInv /\ task' = [task EXCEPT ![r] = t] /\ call' = [call EXCEPT ![r] = c]
      /\ task[r].at # "done" /\ rows' = rows /\ objects' = objects
      /\ task[r].at # "idle" => t.op = task[r].op /\ t.blob = task[r].blob /\ t.base = task[r].base
  BY DEF Inv, PlainStep
<1>2. \A q \in Requests : IF q = r THEN task'[q] = t /\ call'[q] = c
                           ELSE task'[q] = task[q] /\ call'[q] = call[q]
  BY <1>1 DEF TypeOK
<1>3. ObjectsInv'
  <2> SUFFICES ASSUME NEW k \in DOMAIN objects
               PROVE  objects[k] = BlobOf(k)' /\ (k \in Requests => task'[k].op \in Storing)
    BY <1>1 DEF ObjectsInv
  <2>1. objects[k] = BlobOf(k) /\ (k \in Requests => task[k].op \in Storing)
    BY DEF Inv, ObjectsInv
  <2>2. k = r => task[r].at # "idle"
    BY <1>1, <2>1 DEF TasksInv, Course, Stage, NoTask, Storing
  <2>3. QED
    BY <1>1, <1>2, <2>1, <2>2 DEF BlobOf
<1>4. BytesInv'
  BY <1>1, <1>2 DEF Inv, BytesInv, Bytes, PlainStep
<1>5. LocksInv'
  <2>1. t.at \in Flushed /\ Changed(t) => ~Locked(r, t.blob) /\ Free(t)
    BY DEF PlainStep
  <2>2. \A b : Key(b)' = Key(b)
    BY KeyStays
  <2>3. Same(t) <=> Matches(r)'
    BY <1>1, <1>2, <2>2 DEF Same, Matches, Exists
  <2>4. (Writes(r)' <=> Changed(t)) /\ (Free(t) <=> Finds(r)')
    BY <1>1, <1>2, <2>3 DEF Writes, Changed, Free, Finds, Exists
  <2>5. \A q \in Requests \ {r} : Matches(q)' <=> Matches(q)
    BY <1>1, <1>2, <2>2 DEF Matches, Exists
  <2>6. \A q \in Requests \ {r} : (Writes(q)' <=> Writes(q)) /\ (Finds(q)' <=> Finds(q))
    BY <1>1, <1>2, <2>5 DEF Writes, Finds, Exists
  <2>7. \A b : Locked(r, b)' <=> Locked(r, b)
    BY <1>2, <2>6 DEF Locked
  <2>8. Holds(r)' => ~Locked(r, task[r].blob)' /\ Finds(r)'
    BY <1>1, <1>2, <2>1, <2>4, <2>7 DEF Holds
  <2>9. ASSUME NEW q \in Requests \ {r}, Holds(q)'
        PROVE  ~Locked(q, task[q].blob)' /\ Finds(q)'
    <3>1. Holds(q) /\ task'[q] = task[q] /\ ~Locked(q, task[q].blob) /\ Finds(q)
      BY <1>2, <2>6, <2>9 DEF Holds, Inv, LocksInv
    <3>2. ~(t.at \in Flushed /\ Changed(t) /\ t.blob = task[q].blob)
      BY <2>1, <3>1 DEF Holds, Locked, Flushed
    <3>3. ~Locked(q, task[q].blob)'
      BY <1>2, <2>4, <2>6, <3>1, <3>2 DEF Locked, Flushed
    <3>4. QED
      BY <2>6, <3>1, <3>3
  <2>10. QED
    BY <2>8, <2>9 DEF LocksInv
<1>6. QED
  BY <1>3, <1>4, <1>5

LEMMA PlainSafety ==
  ASSUME Inv, NEW r \in Requests, NEW t, NEW c, PlainStep(r, t, c)
  PROVE  LostOnlyByPromotion' /\ OrphansAreAccounted' /\ ReferenceNamesABlob'
<1>1. /\ TypeOK /\ TasksInv /\ task' = [task EXCEPT ![r] = t] /\ call' = [call EXCEPT ![r] = c]
      /\ task[r].at # "done" /\ t.out # "committed" /\ rows' = rows /\ objects' = objects /\ refs' = refs
      /\ task[r].at # "idle" => t.op = task[r].op /\ t.blob = task[r].blob /\ t.base = task[r].base
      /\ task[r].op = "promote" /\ task[r].at \in {"unstore", "commit"} =>
           t.at \in {"unstore", "commit"} \/ t.out = "rolledback"
  BY DEF Inv, PlainStep
<1>2. \A q \in Requests : task'[q] = IF q = r THEN t ELSE task[q]
  BY <1>1 DEF TypeOK
<1>3. LostOnlyByPromotion'
  <2>1. ASSUME NEW q \in Requests, NEW b, NEW k, Losing(q, b, k)
        PROVE  Losing(q, b, k)'
    <3>1. task[q].at # "idle"
      BY <1>1, <2>1 DEF Losing, TasksInv, Course, Stage, NoTask
    <3>2. task[r].out \notin {"rolledback", "committed"}
      BY <1>1 DEF TasksInv, Course, Stage
    <3>3. (\E p \in Requests : Carried(p, b, k)) => \E p \in Requests : Carried(p, b, k)'
      BY <1>1, KnownStays
    <3>4. QED
      BY <1>1, <1>2, <2>1, <3>1, <3>2, <3>3 DEF Losing
  <2> SUFFICES ASSUME NEW b \in DOMAIN rows, rows[b].loc # None, rows[b].loc \notin DOMAIN objects
               PROVE  \E q \in Requests : Losing(q, b, rows[b].loc)'
    BY <1>1 DEF LostOnlyByPromotion, Losing, Carried
  <2>2. PICK k : k = rows[b].loc
    OBVIOUS
  <2>3. PICK q \in Requests : Losing(q, b, k)
    BY <2>2 DEF Inv, LostOnlyByPromotion
  <2>4. Losing(q, b, k)'
    BY <2>1, <2>3
  <2>5. QED
    BY <1>1, <2>2, <2>4 DEF Losing, Carried
<1>4. OrphansAreAccounted'
  <2> SUFFICES ASSUME NEW k \in DOMAIN objects
               PROVE  \/ Named(k)'
                      \/ k \in Requests /\ task'[k].out # "committed"
                      \/ BlobOf(k)' \notin DOMAIN rows
                      \/ \E q \in Requests \ {k} : Overwrote(q, BlobOf(k), k)'
    BY <1>1 DEF OrphansAreAccounted
  <2>1. Named(k) => Named(k)'
    BY <1>1 DEF Named
  <2>2. CASE k \in Requests /\ task[k].out # "committed"
    BY <1>1, <1>2, <2>2
  <2>3. CASE ~(k \in Requests /\ task[k].out # "committed")
    <3>1. BlobOf(k)' = BlobOf(k)
      <4>1. k \in Requests => task'[k] = task[k]
        BY <1>1, <2>3, SettledStays
      <4>2. QED
        BY <4>1 DEF BlobOf
    <3>2. PICK b : b = BlobOf(k)
      OBVIOUS
    <3>3. \/ Named(k) \/ b \notin DOMAIN rows
          \/ \E q \in Requests \ {k} : Overwrote(q, b, k)
      BY <2>3, <3>2 DEF Inv, OrphansAreAccounted
    <3>4. CASE k # r
      <4>1. \/ Named(k)' \/ b \notin DOMAIN rows
            \/ \E q \in Requests \ {k} : Overwrote(q, b, k)'
        BY <1>1, <2>1, <3>3, <3>4, KnownStays
      <4>2. QED
        BY <3>1, <3>2, <4>1 DEF Overwrote
    <3>5. CASE k = r
      BY <1>1, <1>2, <3>5
    <3>6. QED
      BY <3>4, <3>5
  <2>4. QED
    BY <2>2, <2>3
<1>5. ReferenceNamesABlob'
  <2>1. \A q \in Requests : task[q].out = "committed" => task'[q] = task[q]
    BY <1>1, SettledStays
  <2>2. QED
    BY <1>1, <2>1 DEF Inv, ReferenceNamesABlob
<1>6. QED
  BY <1>3, <1>4, <1>5

LEMMA PlainKeeps ==
  ASSUME Inv, NEW r \in Requests, NEW t, NEW c, PlainStep(r, t, c)
  PROVE  Inv'
BY PlainTypes, PlainTasks, PlainObjects, PlainSafety DEF Inv

-----------------------------------------------------------------------------
(* The steps of a running request.                                         *)

\* t is u at another place.
Alike(t, u) ==
  /\ t.op = u.op /\ t.blob = u.blob /\ t.base = u.base /\ t.row = u.row /\ t.insert = u.insert
  /\ t.seen = u.seen /\ t.key = u.key
  /\ t.edge = u.edge /\ t.issued = u.issued /\ t.exp = u.exp /\ t.age = u.age
Moves(r, t, at, out) ==
  /\ task' = [task EXCEPT ![r] = t] /\ t \in TaskType
  /\ t.at = at /\ t.out = out /\ Alike(t, task[r])

LEMMA GotoMoves ==
  ASSUME TypeOK, NEW r \in Requests, NEW at \in Places, Goto(r, at)
  PROVE  \E t : Moves(r, t, at, task[r].out)
<1> DEFINE t == [task[r] EXCEPT !.at = at]
<1>1. task[r] \in TaskType
  BY DEF TypeOK
<1>2. t \in TaskType /\ t.at = at /\ t.out = task[r].out /\ Alike(t, task[r])
  BY <1>1 DEF TaskType, Alike
<1>3. task' = [task EXCEPT ![r] = t]
  BY DEF Goto
<1>4. QED
  BY <1>2, <1>3 DEF Moves

LEMMA FinishMoves ==
  ASSUME TypeOK, NEW r \in Requests, Finish(r, "rolledback") \/ Finish(r, "committed") \/ Finish(r, "refused")
                                      \/ Finish(r, "served") \/ Finish(r, "cut")
  PROVE  \E t, out : Moves(r, t, "done", out) /\ Finish(r, out)
<1>1. PICK out \in {"rolledback", "committed", "refused", "served", "cut"} : Finish(r, out)
  OBVIOUS
<1> DEFINE t == [task[r] EXCEPT !.at = "done", !.out = out]
<1>2. task[r] \in TaskType
  BY DEF TypeOK
<1>3. t \in TaskType /\ t.at = "done" /\ t.out = out /\ Alike(t, task[r])
  BY <1>2 DEF TaskType, Alike, Places
<1>4. task' = [task EXCEPT ![r] = t]
  BY <1>1 DEF Finish
<1>5. QED
  BY <1>1, <1>3, <1>4 DEF Moves

LEMMA AlikeFinds ==
  ASSUME NEW r \in Requests, NEW t, Alike(t, task[r])
  PROVE  (Changed(t) <=> Writes(r)) /\ (Free(t) <=> Finds(r))
<1>1. Same(t) <=> Matches(r)
  BY DEF Same, Matches, Exists, Alike
<1>2. QED
  BY <1>1 DEF Changed, Writes, Free, Finds, Exists, Alike

\* A request that moves on leaves what it has made, loaded and timed alone.
LEMMA MoveIsPlain ==
  ASSUME Inv, NEW r \in Requests, NEW t, NEW c, NEW at, NEW out, Moves(r, t, at, out),
         call' = [call EXCEPT ![r] = c], CallOK(c),
         UNCHANGED <<provider, bucket, objects, rows, told, refs, now>>, faults' \in 0 .. MaxFaults,
         task[r].at # "idle", task[r].at # "done", out # "committed",
         Stage(t), CallOf(t, c, r), Bytes(t, c, r),
         at \in Flushed /\ Changed(t) =>
           \/ task[r].at \in Flushed
           \/ ~Locked(r, t.blob) /\ Free(t),
         task[r].op = "promote" /\ task[r].at \in {"unstore", "commit"} =>
           at \in {"unstore", "commit"} \/ out = "rolledback"
  PROVE  PlainStep(r, t, c)
<1>1. /\ Makes(task[r], r) /\ Loaded(task[r], r) /\ InTime(task[r])
      /\ Holds(r) => ~Locked(r, task[r].blob) /\ Finds(r)
  BY DEF Inv, TasksInv, TimeInv, LocksInv, Course
<1>2. Alike(t, task[r]) /\ t.at = at /\ t.out = out
  BY DEF Moves
<1>3. Makes(t, r)
  BY <1>1, <1>2 DEF Makes, Alike
<1>4. Loaded(t, r) /\ InTime(t)
  BY <1>1, <1>2 DEF Loaded, InTime, Alike
<1>5. (Changed(t) <=> Writes(r)) /\ (Free(t) <=> Finds(r))
  BY <1>2, AlikeFinds
<1>6. at \in Flushed /\ Changed(t) => ~Locked(r, t.blob) /\ Free(t)
  BY <1>1, <1>2, <1>5 DEF Holds, Alike
<1>7. QED
  BY <1>2, <1>3, <1>4, <1>6 DEF PlainStep, Moves, Course, Alike

\* However a request ends without a commit.
LEMMA EndKeeps ==
  ASSUME Inv, NEW r \in Requests, task[r].at # "idle", task[r].at # "done",
         NEW c, call' = [call EXCEPT ![r] = c], CallOK(c), c.todo = <<>>,
         UNCHANGED <<provider, bucket, objects, rows, told, refs, now>>, faults' \in 0 .. MaxFaults,
         NEW out, Finish(r, out), out \in {"rolledback", "refused", "served", "cut"},
         task[r].op = "promote" => out = "rolledback",
         out = "served" /\ task[r].op = "download" => c.from = task[r].blob
  PROVE  Inv'
<1>1. PICK t : Moves(r, t, "done", out)
  <2>1. PICK t, o : Moves(r, t, "done", o) /\ Finish(r, o)
    BY FinishMoves DEF Inv
  <2>2. o = out
    <3>1. task'[r].out = o /\ task'[r].out = out
      BY <2>1 DEF Finish, Inv, TypeOK, TaskType
    <3>2. QED
      BY <3>1
  <2>3. QED
    BY <2>1, <2>2
<1>2. /\ t.at = "done" /\ t.out = out /\ Alike(t, task[r]) /\ t.op # "none" /\ t.blob # None
  BY <1>1 DEF Moves, Alike, Inv, TasksInv, Course, Stage
<1>3. Stage(t) /\ CallOf(t, c, r) /\ Bytes(t, c, r)
  BY <1>2 DEF Stage, CallOf, Bytes, Alike, Flushed
<1>4. PlainStep(r, t, c)
  BY <1>1, <1>3, MoveIsPlain DEF Flushed
<1>5. QED
  BY <1>4, PlainKeeps

LEMMA CallFacts ==
  ASSUME Inv, NEW r \in Requests
  PROVE  /\ task[r] \in TaskType /\ call[r] \in CallType /\ CallOK(call[r]) /\ faults \in 0 .. MaxFaults
         /\ provider \in Providers
         /\ call = [call EXCEPT ![r] = call[r]]
         /\ task[r].at \notin Calling => call[r].todo = <<>>
         /\ Answered(r) => call[r].todo = <<>>
         /\ Stage(task[r]) /\ Makes(task[r], r) /\ Loaded(task[r], r) /\ InTime(task[r])
         /\ CallOf(task[r], call[r], r) /\ Bytes(task[r], call[r], r)
         /\ task[r].row \in Row /\ task[r].base \in Row
<1>1. call = [call EXCEPT ![r] = call[r]]
  BY DEF Inv, TypeOK
<1>2. QED
  BY <1>1 DEF Inv, TypeOK, TaskType, StoreOK, TasksInv, TimeInv, BytesInv, Course, CallOf, CallOK, InFlight, Answered

LEMMA RollbackKeeps ==
  ASSUME Inv, NEW r \in Requests, StoreRefused(r) \/ FlushFails(r) \/ Lost(r) PROVE Inv'
<1>1. /\ Finish(r, "rolledback") /\ call' = [call EXCEPT ![r] = NoCall]
      /\ UNCHANGED <<provider, bucket, objects, rows, told, refs, now>>
      /\ faults' = faults \/ (faults' = faults + 1 /\ faults < MaxFaults)
      /\ task[r].at # "idle" /\ task[r].at # "done"
  BY DEF StoreRefused, FlushFails, Lost, Rollback, NoCallOf, Running
<1>2. faults' \in 0 .. MaxFaults
  BY <1>1, StorageAssumption, CallFacts
<1>3. PICK c : c = NoCall
  OBVIOUS
<1>4. PICK out : out = "rolledback"
  OBVIOUS
<1>5. Finish(r, out) /\ call' = [call EXCEPT ![r] = c] /\ CallOK(c) /\ c.todo = <<>>
  BY <1>1, <1>3, <1>4, NoCallIsOK
<1>6. /\ out \in {"rolledback", "refused", "served", "cut"} /\ out # "served"
      /\ task[r].at # "idle" /\ task[r].at # "done"
      /\ UNCHANGED <<provider, bucket, objects, rows, told, refs, now>>
  BY <1>1, <1>4
<1>7. QED
  BY <1>2, <1>4, <1>5, <1>6, EndKeeps

LEMMA RefusalKeeps ==
  ASSUME Inv, NEW r \in Requests,
         \/ RedeemRefused(r) \/ Served(r) \/ GiveUrl(r)
         \/ OpenStream(r) /\ task[r].blob \notin DOMAIN rows
         \/ Respond(r) /\ call[r].ans # "ok"
  PROVE  Inv'
<1>1. /\ faults \in 0 .. MaxFaults /\ CallOK(call[r]) /\ call = [call EXCEPT ![r] = call[r]]
      /\ Stage(task[r]) /\ Bytes(task[r], call[r], r)
      /\ task[r].at \notin Calling => call[r].todo = <<>>
      /\ Answered(r) => call[r].todo = <<>>
  BY CallFacts
<1>2. CASE RedeemRefused(r)
  BY <1>1, <1>2, EndKeeps DEF RedeemRefused, Stage, Calling, storageVars
<1>3. CASE Served(r)
  <2>1. (Finish(r, "served") /\ call[r].ans = "ok") \/ Finish(r, "cut")
    BY <1>3 DEF Served
  <2>2. /\ task[r].at = "body" /\ call[r].todo = <<>> /\ UNCHANGED <<storageVars, rows, told, refs, now>>
        /\ task[r].op = "download"
    BY <1>1, <1>3 DEF Served, Stage
  <2>3. call[r].ans = "ok" => call[r].from = task[r].blob
    BY <1>1, <2>2 DEF Bytes
  <2>4. QED
    BY <1>1, <2>1, <2>2, <2>3, EndKeeps DEF storageVars
<1>4. CASE GiveUrl(r)
  <2>1. /\ Finish(r, "served") \/ Finish(r, "refused")
        /\ task[r].at = "url" /\ call' = [call EXCEPT ![r] = NoCall]
        /\ UNCHANGED <<provider, bucket, objects, faults, rows, told, refs, now>>
    BY <1>4 DEF GiveUrl, NoCallOf
  <2>2. task[r].op = "url"
    BY <1>1, <2>1 DEF Stage
  <2>3. QED
    BY <1>1, <2>1, <2>2, NoCallIsOK, EndKeeps
<1>5. CASE OpenStream(r) /\ task[r].blob \notin DOMAIN rows
  BY <1>1, <1>5, EndKeeps DEF OpenStream, Stage, Calling, storageVars
<1>6. CASE Respond(r) /\ call[r].ans # "ok"
  BY <1>1, <1>6, NoCallIsOK, EndKeeps DEF Respond, NoCallOf, Stage
<1>7. QED
  BY <1>2, <1>3, <1>4, <1>5, <1>6

LEMMA StoredKeeps == ASSUME Inv, NEW r \in Requests, Stored(r) PROVE Inv'
<1>1. /\ task[r].at = "store" /\ call[r].ans = "ok" /\ Goto(r, IF task[r].insert THEN "flush" ELSE "save")
      /\ call' = [call EXCEPT ![r] = NoCall]
      /\ UNCHANGED <<provider, bucket, objects, faults, rows, told, refs, now>>
  BY DEF Stored, NoCallOf
<1>2. PICK at \in {"flush", "save"} : Goto(r, at) /\ (at = "flush" <=> task[r].insert)
  BY <1>1
<1>3. PICK t : Moves(r, t, at, task[r].out)
  <2>1. at \in Places /\ TypeOK /\ Goto(r, at)
    BY <1>2 DEF Inv, Places
  <2>2. QED
    BY <2>1, GotoMoves
<1>4. /\ t.at = at /\ t.out = task[r].out /\ Alike(t, task[r])
      /\ task[r].op \in Storing /\ r \in DOMAIN objects /\ task[r].out = "none"
  BY <1>1, <1>3, CallFacts DEF Moves, Stage, Bytes, TaskType
<1>5. t.op # "none" /\ t.blob # None /\ (at = "save" => t.op \in Changes) /\ t.op \in Units
  BY <1>1, <1>2, <1>4, CallFacts DEF Alike, Stage, Makes, Storing, Creating, Changes, Units
<1>6. Stage(t) /\ CallOf(t, NoCall, r) /\ Bytes(t, NoCall, r)
  BY <1>2, <1>4, <1>5, NoCallIsOK DEF Stage, CallOf, Bytes, Flushed, Alike
<1>7. PlainStep(r, t, NoCall)
  BY <1>1, <1>2, <1>3, <1>4, <1>6, NoCallIsOK, CallFacts, MoveIsPlain DEF Flushed
<1>8. QED
  BY <1>7, PlainKeeps

LEMMA UnstoredKeeps == ASSUME Inv, NEW r \in Requests, Unstored(r) PROVE Inv'
<1>1. /\ task[r].at = "unstore" /\ call[r].ans \in {"ok", "false"} /\ Goto(r, "commit")
      /\ call' = [call EXCEPT ![r] = NoCall]
      /\ UNCHANGED <<provider, bucket, objects, faults, rows, told, refs, now>>
  BY DEF Unstored, NoCallOf
<1>2. PICK t : Moves(r, t, "commit", task[r].out)
  <2>1. PICK at \in Places : at = "commit"
    BY DEF Places
  <2>2. TypeOK /\ Goto(r, at)
    BY <1>1, <2>1 DEF Inv
  <2>3. QED
    BY <2>1, <2>2, GotoMoves
<1>3. /\ t.at = "commit" /\ t.out = task[r].out /\ Alike(t, task[r])
      /\ task[r].op = "promote" /\ task[r].out = "none"
      /\ r \in DOMAIN objects /\ task[r].base.loc \notin DOMAIN objects
  BY <1>1, <1>2, CallFacts DEF Moves, Stage, Bytes, TaskType, Storing, Flushed
<1>4. t.op = "promote" /\ t.blob # None
  BY <1>1, <1>3, CallFacts DEF Alike, Stage
<1>5. Stage(t) /\ CallOf(t, NoCall, r) /\ Bytes(t, NoCall, r)
  BY <1>3, <1>4, NoCallIsOK DEF Stage, CallOf, Bytes, Alike, Units
<1>6. PlainStep(r, t, NoCall)
  BY <1>1, <1>2, <1>3, <1>5, NoCallIsOK, CallFacts, MoveIsPlain DEF Flushed
<1>7. QED
  BY <1>6, PlainKeeps

LEMMA AttachKeeps == ASSUME Inv, NEW r \in Requests, Attach(r) PROVE Inv'
<1>1. /\ task[r].at = "attach" /\ Goto(r, "commit")
      /\ UNCHANGED <<provider, bucket, objects, call, faults, rows, told, refs, now>>
  BY DEF Attach, storageVars
<1>2. PICK t : Moves(r, t, "commit", task[r].out)
  <2>1. PICK at \in Places : at = "commit"
    BY DEF Places
  <2>2. TypeOK /\ Goto(r, at)
    BY <1>1, <2>1 DEF Inv
  <2>3. QED
    BY <2>1, <2>2, GotoMoves
<1>3. /\ t.at = "commit" /\ t.out = task[r].out /\ Alike(t, task[r])
      /\ task[r].op = "upload" /\ task[r].out = "none" /\ r \in DOMAIN objects /\ call[r].todo = <<>>
  BY <1>1, <1>2, CallFacts DEF Moves, Stage, Makes, Bytes, TaskType, Storing, Flushed, Calling
<1>4. t.op = "upload" /\ t.blob # None
  BY <1>1, <1>3, CallFacts DEF Alike, Stage
<1>5. Stage(t) /\ CallOf(t, call[r], r) /\ Bytes(t, call[r], r)
  BY <1>3, <1>4 DEF Stage, CallOf, Bytes, Alike, Units
<1>6. PlainStep(r, t, call[r])
  BY <1>1, <1>2, <1>3, <1>5, CallFacts, MoveIsPlain DEF Flushed
<1>7. QED
  BY <1>6, PlainKeeps

LEMMA ConstantsAreNat == MaxTime \in Nat /\ Ttl \in Nat /\ Ttl >= 1
BY BlobsAssumption

\* The age at which a signature that has not expired is accepted.
LEMMA AgeInTime ==
  ASSUME NEW n \in Nat, NEW i \in Nat, NEW e \in Nat, NEW l \in Nat, NEW m \in Nat,
         i <= n, n <= m, ~(e < n), e <= i + l
  PROVE  n - i \in 0 .. m /\ n - i <= l
OBVIOUS

LEMMA RedeemKeeps == ASSUME Inv, NEW r \in Requests, Redeem(r) PROVE Inv'
<1> DEFINE t == [task[r] EXCEPT !.at = "info", !.row = rows[task[r].blob], !.age = now - task[r].issued]
<1>1. /\ task[r].at = "signed" /\ ~(task[r].exp < now) /\ Readable(task[r].blob)
      /\ task' = [task EXCEPT ![r] = t]
      /\ UNCHANGED <<provider, bucket, objects, call, faults, rows, told, refs, now>>
  BY DEF Redeem, Expired, storageVars
<1>2. /\ task[r] \in TaskType /\ task[r].issued \in Nat /\ task[r].exp \in Nat
      /\ now \in Nat /\ now <= MaxTime /\ MaxTime \in Nat /\ Ttl \in Nat
  <2>1. MaxTime \in Nat /\ Ttl \in Nat
    BY ConstantsAreNat
  <2>2. now \in 0 .. MaxTime /\ task[r] \in TaskType
    BY CallFacts DEF Inv, TypeOK
  <2>3. task[r].issued \in 0 .. MaxTime /\ task[r].exp \in Nat
    BY <2>2 DEF TaskType
  <2>4. QED
    BY <2>1, <2>2, <2>3
<1>3. now - task[r].issued \in 0 .. MaxTime /\ now - task[r].issued <= Ttl
  BY <1>1, <1>2, AgeInTime, CallFacts DEF InTime
<1>4. rows[task[r].blob] \in Row /\ rows[task[r].blob].loc # None /\ Known(rows[task[r].blob].loc, task[r].blob)
  BY <1>1 DEF Inv, TypeOK, RowsInv, Readable
<1>5. /\ t \in TaskType /\ t.at = "info" /\ t.out = task[r].out /\ t.op = task[r].op /\ t.blob = task[r].blob
      /\ t.base = task[r].base /\ t.insert = task[r].insert /\ t.edge = task[r].edge
      /\ t.seen = task[r].seen /\ t.key = task[r].key
      /\ t.issued = task[r].issued /\ t.exp = task[r].exp /\ t.age = now - task[r].issued
      /\ t.row = rows[task[r].blob]
  BY <1>2, <1>3, <1>4 DEF TaskType, Places
<1> HIDE DEF t
<1>6. /\ t.op = "download" /\ t.out = "none" /\ call[r].todo = <<>> /\ t.blob # None
      /\ t.edge = None /\ ~t.insert
  BY <1>1, <1>5, CallFacts DEF Stage, Makes, Calling, Creating, Changes
<1>7. Course(t, r)
  BY <1>4, <1>5, <1>6 DEF Course, Stage, Makes, Creating, Changes
<1>8. Loaded(t, r) /\ InTime(t)
  BY <1>3, <1>4, <1>5, CallFacts DEF Loaded, InTime
<1>9. CallOf(t, call[r], r) /\ Bytes(t, call[r], r)
  BY <1>5, <1>6 DEF CallOf, Bytes, Storing
<1>10. PlainStep(r, t, call[r])
  BY <1>1, <1>5, <1>6, <1>7, <1>8, <1>9, CallFacts DEF PlainStep, Flushed
<1>11. QED
  BY <1>10, PlainKeeps

LEMMA OpenKeeps ==
  ASSUME Inv, NEW r \in Requests,
         \/ OpenStream(r) /\ task[r].blob \in DOMAIN rows
         \/ Respond(r) /\ call[r].ans = "ok"
  PROVE  Inv'
<1>1. \E at \in {"open", "body"}, op \in {"stream", "read"}, skip \in BOOLEAN :
        /\ Goto(r, at) /\ Call(r, op, task[r].row.loc, Old, skip)
        /\ (at = "open" /\ op = "stream" /\ skip) \/ (at = "body" /\ op = "read" /\ ~skip)
        /\ task[r].at = "info" \/ task[r].at = "open"
        /\ UNCHANGED <<rows, told, refs, now>>
  BY DEF OpenStream, Respond
<1>2. PICK at \in {"open", "body"}, op \in {"stream", "read"}, skip \in BOOLEAN :
        /\ Goto(r, at) /\ Call(r, op, task[r].row.loc, Old, skip)
        /\ (at = "open" /\ op = "stream" /\ skip) \/ (at = "body" /\ op = "read" /\ ~skip)
        /\ task[r].at = "info" \/ task[r].at = "open"
        /\ UNCHANGED <<rows, told, refs, now>>
  BY <1>1
<1>3. PICK key : key = task[r].row.loc
  OBVIOUS
<1>4. key \in Keys /\ Old \in Keys /\ op \in Methods
  BY <1>2, <1>3, CallFacts DEF Stage, Row, Keys, Methods
<1>5. /\ UNCHANGED <<provider, bucket, objects, faults>>
      /\ \E c : call' = [call EXCEPT ![r] = c] /\ Fresh(c, op, key, Old)
  <2>1. PICK from \in Keys : from = Old
    BY <1>4
  <2>2. Call(r, op, key, from, skip) /\ (skip => op = "stream") /\ provider \in Providers
    BY <1>2, <1>3, <2>1, CallFacts
  <2>3. QED
    BY <1>4, <2>1, <2>2, CallIsFresh
<1>6. PICK c : call' = [call EXCEPT ![r] = c] /\ Fresh(c, op, key, Old)
  BY <1>5
<1>7. PICK t : Moves(r, t, at, task[r].out)
  <2>1. at \in Places /\ TypeOK /\ Goto(r, at)
    BY <1>2 DEF Inv, Places
  <2>2. QED
    BY <2>1, GotoMoves
<1>8. /\ t.at = at /\ t.out = task[r].out /\ Alike(t, task[r]) /\ t.row = task[r].row
      /\ t.op = "download" /\ t.out = "none" /\ t.row.loc # None /\ t.blob # None
  BY <1>2, <1>7, CallFacts DEF Moves, Alike, Stage
<1>9. Stage(t) /\ CallOf(t, c, r) /\ Bytes(t, c, r)
  BY <1>2, <1>3, <1>6, <1>8 DEF Stage, CallOf, Bytes, Fresh, Calling, Storing
<1>10. PlainStep(r, t, c)
  <2>1. task[r].op # "promote" /\ task[r].at # "idle" /\ task[r].at # "done" /\ at \notin Flushed
    BY <1>2, CallFacts DEF Stage, Flushed
  <2>2. CallOK(c) /\ faults' \in 0 .. MaxFaults
    BY <1>5, <1>6, CallFacts DEF Fresh
  <2>3. QED
    BY <1>2, <1>5, <1>6, <1>7, <1>8, <1>9, <2>1, <2>2, MoveIsPlain
<1>11. QED
  BY <1>10, PlainKeeps

LEMMA NoTaskIsTask == NoTask \in TaskType /\ NoRow \in Row
<1>1. NoRow \in Row
  BY DEF NoRow, Row, Kinds, Statuses
<1>2. 0 \in 0 .. MaxTime /\ 0 \in Nat
  BY ConstantsAreNat
<1>3. NoTask \in TaskType
  BY <1>1, <1>2 DEF NoTask, TaskType, Places
<1>4. QED
  BY <1>1, <1>3

\* A row as loaded.
LEMMA LoadedRow ==
  ASSUME Inv, NEW b \in DOMAIN rows
  PROVE  /\ b \in Blobs /\ b # None /\ rows[b] \in Row
         /\ Known(rows[b].loc, b) /\ (b \in Requests => Settled(b, Creating))
         /\ Kept(rows[b].loc)
<1>1. /\ b \in Blobs /\ b # None /\ rows[b] \in Row
      /\ Known(rows[b].loc, b) /\ (b \in Requests => Settled(b, Creating))
  BY BlobsAssumption DEF Inv, TypeOK, RowsInv, Blobs
<1>2. \A p \in Requests : Losing(p, b, rows[b].loc) => Unstoring(p, rows[b].loc)
  BY DEF Losing, Unstoring, Inv, TasksInv, Course, Stage
<1>3. Kept(rows[b].loc)
  BY <1>2 DEF Kept, Inv, LostOnlyByPromotion
<1>4. QED
  BY <1>1, <1>3

LEMMA SelectKeeps == ASSUME Inv, NEW r \in Requests, Select(r) PROVE Inv'
<1> DEFINE seen == IF Exists(r) THEN rows[task[r].blob] ELSE NoRow
           t == [task[r] EXCEPT !.at = "flush", !.insert = ~Exists(r), !.key = Key(task[r].blob), !.seen = seen]
<1>1. /\ task[r].at = "save" /\ task' = [task EXCEPT ![r] = t]
      /\ UNCHANGED <<provider, bucket, objects, call, faults, rows, told, refs, now>>
  BY DEF Select, storageVars
<1>2. /\ task[r] \in TaskType /\ seen \in Row /\ Known(seen.loc, task[r].blob)
      /\ Key(task[r].blob) \in SUBSET Requests
  <2>1. NoRow \in Row /\ Known(NoRow.loc, task[r].blob)
    BY NoTaskIsTask DEF NoRow, Known
  <2>2. QED
    BY <2>1, CallFacts, LoadedRow DEF Exists, Key
<1> HIDE DEF seen
<1>3. /\ t \in TaskType /\ t.at = "flush" /\ t.out = task[r].out /\ t.op = task[r].op /\ t.blob = task[r].blob
      /\ t.base = task[r].base /\ t.edge = task[r].edge /\ t.row = task[r].row
      /\ t.seen = seen /\ t.key = Key(task[r].blob)
      /\ t.issued = task[r].issued /\ t.exp = task[r].exp /\ t.age = task[r].age
  BY <1>2 DEF TaskType, Places
<1> HIDE DEF t
<1>4. t.op \in Changes /\ t.out = "none" /\ call[r].todo = <<>> /\ t.blob # None
  BY <1>1, <1>3, CallFacts DEF Stage, Calling, Changes
<1>5. Course(t, r)
  BY <1>3, <1>4, CallFacts DEF Course, Stage, Makes, Creating, Changes, Units
<1>6. Loaded(t, r) /\ InTime(t)
  BY <1>2, <1>3, CallFacts DEF Loaded, InTime
<1>7. CallOf(t, call[r], r) /\ Bytes(t, call[r], r)
  BY <1>1, <1>3, <1>4, CallFacts DEF CallOf, Bytes, Changes
<1>8. PlainStep(r, t, call[r])
  BY <1>1, <1>3, <1>4, <1>5, <1>6, <1>7, CallFacts DEF PlainStep, Flushed
<1>9. QED
  BY <1>8, PlainKeeps

LEMMA FlushKeeps == ASSUME Inv, NEW r \in Requests, Flush(r) PROVE Inv'
<1>1. /\ task[r].at = "flush"
      /\ Writes(r) => ~Locked(r, task[r].blob) /\ Finds(r)
      /\ UNCHANGED <<rows, told, refs, now>>
  BY DEF Flush, Waits, Finds
<1>2. task[r].op \in Units /\ task[r].out = "none" /\ task[r].blob # None /\ task[r].op # "none"
  BY <1>1, CallFacts DEF Stage
<1>3. task[r].op \in Storing => r \in DOMAIN objects
  BY <1>1, CallFacts DEF Bytes
<1>4. CASE task[r].op = "promote"
  <2>1. PICK key : key = task[r].base.loc
    OBVIOUS
  <2>2. key \in Keys /\ Old \in Keys
    BY <1>4, <2>1, CallFacts DEF Makes, Row, Keys
  <2>3. /\ UNCHANGED <<provider, bucket, objects, faults>>
        /\ \E c : call' = [call EXCEPT ![r] = c] /\ Fresh(c, "delete", key, Old)
    <3>1. PICK from \in Keys, op \in Methods, skip \in BOOLEAN : from = Old /\ op = "delete" /\ skip = FALSE
      BY <2>2 DEF Methods
    <3>2. Call(r, op, key, from, skip) /\ provider \in Providers
      BY <1>4, <2>1, <3>1, CallFacts DEF Flush
    <3>3. QED
      BY <2>2, <3>1, <3>2, CallIsFresh
  <2>4. PICK c : call' = [call EXCEPT ![r] = c] /\ Fresh(c, "delete", key, Old)
    BY <2>3
  <2>5. PICK t : Moves(r, t, "unstore", task[r].out)
    <3>1. PICK at \in Places : at = "unstore"
      BY DEF Places
    <3>2. TypeOK /\ Goto(r, at)
      BY <1>4, <3>1 DEF Inv, Flush
    <3>3. QED
      BY <3>1, <3>2, GotoMoves
  <2>6. t.at = "unstore" /\ t.out = "none" /\ Alike(t, task[r]) /\ t.op = "promote" /\ t.blob # None
    BY <1>2, <1>4, <2>5 DEF Moves, Alike
  <2>7. t.blob = task[r].blob /\ (Changed(t) <=> Writes(r)) /\ (Free(t) <=> Finds(r)) /\ t.base = task[r].base
    BY <2>6, AlikeFinds DEF Alike
  <2>8. Stage(t) /\ CallOf(t, c, r) /\ Bytes(t, c, r)
    BY <1>3, <1>4, <2>1, <2>4, <2>6, <2>7 DEF Stage, CallOf, Bytes, Fresh, Calling, Storing
  <2>9. CallOK(c) /\ faults' \in 0 .. MaxFaults
    BY <2>3, <2>4, CallFacts DEF Fresh
  <2>10. PlainStep(r, t, c)
    BY <1>1, <1>2, <1>4, <2>3, <2>4, <2>5, <2>6, <2>7, <2>8, <2>9, MoveIsPlain
  <2>11. QED
    BY <2>10, PlainKeeps
<1>5. CASE task[r].op # "promote"
  <2>1. PICK at \in {"commit", "attach"} : Goto(r, at) /\ (at = "attach" => task[r].edge # None)
    BY <1>5 DEF Flush
  <2>2. PICK t : Moves(r, t, at, task[r].out)
    <3>1. at \in Places /\ TypeOK /\ Goto(r, at)
      BY <2>1 DEF Inv, Places
    <3>2. QED
      BY <3>1, GotoMoves
  <2>3. t.at = at /\ t.out = "none" /\ Alike(t, task[r]) /\ call[r].todo = <<>>
    BY <1>1, <1>2, <2>2, CallFacts DEF Moves, Calling
  <2>4. t.op = task[r].op /\ t.blob = task[r].blob /\ (Changed(t) <=> Writes(r)) /\ (Free(t) <=> Finds(r))
        /\ t.edge = task[r].edge
    BY <2>3, AlikeFinds DEF Alike
  <2>5. Stage(t) /\ CallOf(t, call[r], r) /\ Bytes(t, call[r], r)
    BY <1>2, <1>3, <1>5, <2>1, <2>3, <2>4 DEF Stage, CallOf, Bytes
  <2>6. UNCHANGED <<provider, bucket, objects, call, faults>>
    BY <1>5 DEF Flush, storageVars
  <2>7. PlainStep(r, t, call[r])
    BY <1>1, <1>2, <1>5, <2>1, <2>2, <2>3, <2>4, <2>5, <2>6, CallFacts, MoveIsPlain
  <2>8. QED
    BY <2>7, PlainKeeps
<1>6. QED
  BY <1>4, <1>5

-----------------------------------------------------------------------------
(* The steps that begin a request.                                         *)

Begun(r, t, op, at, blob, base, row, insert, edge) ==
  /\ task' = [task EXCEPT ![r] = t] /\ t \in TaskType
  /\ t.op = op /\ t.at = at /\ t.out = "none" /\ t.blob = blob /\ t.base = base /\ t.row = row
  /\ t.insert = insert /\ t.edge = edge /\ t.issued = 0 /\ t.exp = 0 /\ t.age = 0
  /\ t.seen = NoRow /\ t.key \subseteq Key(blob)

LEMMA BeginIsBegun ==
  ASSUME NEW r \in Requests, NEW op \in Units \cup Downloads, NEW blob \in Blobs, NEW base \in Row, NEW row \in Row,
         NEW at \in Places, Begin(r, op, blob, base, row, at)
  PROVE  \E t : Begun(r, t, op, at, blob, base, row, FALSE, None)
<1> DEFINE t == [NoTask EXCEPT !.op = op, !.at = at, !.blob = blob, !.base = base, !.row = row]
<1>1. task' = [task EXCEPT ![r] = t]
  BY DEF Begin
<1>2. t \in TaskType
  BY NoTaskIsTask DEF TaskType
<1>3. /\ t.op = op /\ t.at = at /\ t.out = "none" /\ t.blob = blob /\ t.base = base /\ t.row = row
      /\ t.insert = FALSE /\ t.edge = None /\ t.issued = 0 /\ t.exp = 0 /\ t.age = 0
      /\ t.seen = NoRow /\ t.key = {}
  BY DEF NoTask
<1> HIDE DEF t
<1>4. Begun(r, t, op, at, blob, base, row, FALSE, None)
  BY <1>1, <1>2, <1>3 DEF Begun
<1>5. QED
  BY <1>4

LEMMA BeginNewIsBegun ==
  ASSUME NEW r \in Requests, NEW op \in Units, NEW row \in Row, NEW edge \in Edges \cup {None},
         NEW at \in Places, BeginNew(r, op, row, edge, at)
  PROVE  \E t : Begun(r, t, op, at, r, NoRow, row, TRUE, edge)
<1> DEFINE t == [NoTask EXCEPT !.op = op, !.at = at, !.blob = r, !.row = row, !.insert = TRUE, !.edge = edge]
<1>1. task' = [task EXCEPT ![r] = t]
  BY DEF BeginNew
<1>2. t \in TaskType
  BY NoTaskIsTask DEF TaskType, Blobs, Keys
<1>3. /\ t.op = op /\ t.at = at /\ t.out = "none" /\ t.blob = r /\ t.base = NoRow /\ t.row = row
      /\ t.insert = TRUE /\ t.edge = edge /\ t.issued = 0 /\ t.exp = 0 /\ t.age = 0
      /\ t.seen = NoRow /\ t.key = {}
  BY DEF NoTask
<1> HIDE DEF t
<1>4. Begun(r, t, op, at, r, NoRow, row, TRUE, edge)
  BY <1>1, <1>2, <1>3 DEF Begun
<1>5. QED
  BY <1>4

LEMMA DeleteIsBegun ==
  ASSUME NEW r \in Requests, NEW b \in Blobs, NEW base \in Row,
         task' = [task EXCEPT ![r] = [NoTask EXCEPT !.op = "delete", !.at = "flush", !.blob = b,
                                                    !.base = base, !.key = Key(b)]]
  PROVE  \E t : Begun(r, t, "delete", "flush", b, base, NoRow, FALSE, None)
<1> DEFINE t == [NoTask EXCEPT !.op = "delete", !.at = "flush", !.blob = b, !.base = base, !.key = Key(b)]
<1>1. Key(b) \in SUBSET Requests
  BY DEF Key
<1>2. t \in TaskType
  BY <1>1, NoTaskIsTask DEF TaskType, Units, Places
<1>3. /\ t.op = "delete" /\ t.at = "flush" /\ t.out = "none" /\ t.blob = b /\ t.base = base /\ t.row = NoRow
      /\ t.insert = FALSE /\ t.edge = None /\ t.issued = 0 /\ t.exp = 0 /\ t.age = 0
      /\ t.seen = NoRow /\ t.key = Key(b)
  BY DEF NoTask
<1>4. task' = [task EXCEPT ![r] = t]
  OBVIOUS
<1> HIDE DEF t
<1>5. Begun(r, t, "delete", "flush", b, base, NoRow, FALSE, None)
  BY <1>2, <1>3, <1>4 DEF Begun
<1>6. QED
  BY <1>5

\* Where an operation begins, and the call it begins with.
BeginsAt(c, r, op, at, base, blob) ==
  /\ CallOK(c)
  /\ \/ /\ at = "store" /\ op \in Storing /\ c.ans = "none" /\ c.key = r
        /\ IF op = "promote" THEN c.op = "copy" /\ c.from = base.loc ELSE c.op = "put" /\ c.from = blob
     \/ at = "save" /\ op \in {"start", "fail"} /\ c.todo = <<>>
     \/ at = "flush" /\ op \in {"pending", "delete"} /\ c.todo = <<>>
     \/ at = "url" /\ op = "url" /\ c.op = "url"

\* A request that begins with a unit or a URL.
LEMMA BegunKeeps ==
  ASSUME Inv, NEW r \in Requests, task[r].at = "idle", NEW t, NEW c, NEW op, NEW at, NEW blob, NEW base, NEW row,
         NEW insert, NEW edge, Begun(r, t, op, at, blob, base, row, insert, edge),
         blob # None, call' = [call EXCEPT ![r] = c], BeginsAt(c, r, op, at, base, blob),
         UNCHANGED <<provider, bucket, objects, rows, told, refs, now>>, faults' = faults,
         Makes(t, r), Loaded(t, r)
  PROVE  Inv'
<1>1. /\ task' = [task EXCEPT ![r] = t] /\ t \in TaskType
      /\ t.op = op /\ t.at = at /\ t.out = "none" /\ t.blob = blob /\ t.base = base /\ t.row = row
      /\ t.insert = insert /\ t.edge = edge /\ t.issued = 0 /\ t.exp = 0 /\ t.age = 0
  BY DEF Begun
<1>2. Stage(t)
  BY <1>1 DEF BeginsAt, Stage, Units, Storing, Changes
<1>3. CallOf(t, c, r)
  BY <1>1 DEF BeginsAt, CallOf, Calling, Units
<1>4. Bytes(t, c, r)
  BY <1>1 DEF BeginsAt, Bytes, Flushed, Storing
<1>5. InTime(t)
  <2>1. now \in Nat
    BY ConstantsAreNat DEF Inv, TypeOK
  <2>2. QED
    BY <1>1, <2>1, ConstantsAreNat DEF InTime
<1>6. at \notin Flushed /\ CallOK(c)
  BY DEF BeginsAt, Flushed
<1>7. faults' \in 0 .. MaxFaults
  BY CallFacts
<1>8. PlainStep(r, t, c)
  BY <1>1, <1>2, <1>3, <1>4, <1>5, <1>6, <1>7 DEF PlainStep, Course
<1>9. QED
  BY <1>8, PlainKeeps

LEMMA RowsMade ==
  ASSUME NEW row \in Row, NEW loc \in Keys
  PROVE  /\ Promoted(row, loc) \in Row /\ MarkProcessing(row) \in Row /\ MarkReady(row, loc) \in Row
         /\ MarkFailed(row) \in Row /\ CreatedPending \in Row /\ Created("temporary", loc) \in Row
BY DEF Row, Promoted, MarkProcessing, MarkReady, MarkFailed, CreatedPending, Created, Kinds, Statuses

LEMMA FieldsMade ==
  ASSUME NEW row \in Row, NEW loc
  PROVE  /\ Promoted(row, loc).kind = "permanent" /\ Promoted(row, loc).status = row.status
         /\ Promoted(row, loc).loc = loc
         /\ MarkProcessing(row).status = "processing" /\ MarkProcessing(row).loc = row.loc
         /\ MarkReady(row, loc).status = "ready" /\ MarkReady(row, loc).loc = loc
         /\ MarkFailed(row).status = "failed" /\ MarkFailed(row).loc = row.loc
         /\ Created("temporary", loc).loc = loc /\ CreatedPending.loc = None /\ NoRow.loc = None
BY DEF Row, Promoted, MarkProcessing, MarkReady, MarkFailed, Created, CreatedPending, NoRow

LEMMA UploadKeeps == ASSUME Inv, NEW r \in Requests, UploadTemp(r) PROVE Inv'
<1>1. r \in Keys /\ r # None
  BY BlobsAssumption DEF Keys
<1>2. PICK edge \in Edges \cup {None} : BeginNew(r, "upload", Created("temporary", r), edge, "store")
  BY DEF UploadTemp
<1>3. PICK t : Begun(r, t, "upload", "store", r, NoRow, Created("temporary", r), TRUE, edge)
  <2>1. PICK row \in Row, op \in Units, at \in Places : row = Created("temporary", r) /\ op = "upload" /\ at = "store"
    BY <1>1, NoTaskIsTask, RowsMade DEF Units, Places
  <2>2. BeginNew(r, op, row, edge, at)
    BY <1>2, <2>1
  <2>3. QED
    BY <2>1, <2>2, BeginNewIsBegun
<1>4. /\ UNCHANGED <<provider, bucket, objects, faults, rows, told, refs, now>> /\ task[r].at = "idle"
      /\ \E c : call' = [call EXCEPT ![r] = c] /\ Fresh(c, "put", r, r)
  <2>1. PICK op \in Methods, skip \in BOOLEAN : op = "put" /\ skip = FALSE
    BY DEF Methods
  <2>2. Call(r, op, r, r, skip) /\ provider \in Providers
    BY <2>1, CallFacts DEF UploadTemp
  <2>3. QED
    BY <1>1, <2>1, <2>2, CallIsFresh DEF UploadTemp, Idle
<1>5. PICK c : call' = [call EXCEPT ![r] = c] /\ Fresh(c, "put", r, r)
  BY <1>4
<1>6. Makes(t, r) /\ Loaded(t, r)
  BY <1>3 DEF Begun, Makes, Loaded, Known, Kept, Creating, Changes, NoRow
<1>7. BeginsAt(c, r, "upload", "store", NoRow, r)
  BY <1>5 DEF Fresh, BeginsAt, Storing
<1>8. QED
  BY <1>1, <1>3, <1>4, <1>5, <1>6, <1>7, BegunKeeps

LEMMA PendingKeeps == ASSUME Inv, NEW r \in Requests, CreatePending(r) PROVE Inv'
<1>1. r \in Keys /\ r # None /\ task[r].at = "idle"
      /\ UNCHANGED <<provider, bucket, objects, call, faults, rows, told, refs, now>>
  BY BlobsAssumption DEF Keys, CreatePending, Idle, storageVars
<1>2. PICK t : Begun(r, t, "pending", "flush", r, NoRow, CreatedPending, TRUE, None)
  <2>1. PICK row \in Row, op \in Units, at \in Places, edge \in Edges \cup {None} :
          row = CreatedPending /\ op = "pending" /\ at = "flush" /\ edge = None
    BY <1>1, NoTaskIsTask, RowsMade DEF Units, Places
  <2>2. BeginNew(r, op, row, edge, at)
    BY <2>1 DEF CreatePending
  <2>3. QED
    BY <2>1, <2>2, BeginNewIsBegun
<1>3. Makes(t, r) /\ Loaded(t, r)
  BY <1>2 DEF Begun, Makes, Loaded, Known, Kept, Creating, Changes, NoRow
<1>4. CallOK(call[r]) /\ call[r].todo = <<>> /\ call' = [call EXCEPT ![r] = call[r]]
  BY <1>1, CallFacts DEF Calling
<1>5. BeginsAt(call[r], r, "pending", "flush", NoRow, r)
  BY <1>4 DEF BeginsAt
<1>6. QED
  BY <1>1, <1>2, <1>3, <1>4, <1>5, BegunKeeps

\* The units that change a row of the database only.
LEMMA ChangeBegun ==
  ASSUME Inv, NEW r \in Requests, NEW b \in DOMAIN rows, NEW t, NEW op, NEW at, NEW row,
         task[r].at = "idle", UNCHANGED <<provider, bucket, objects, call, faults, rows, told, refs, now>>,
         Begun(r, t, op, at, b, rows[b], row, FALSE, None),
         \/ op = "start" /\ CanStart(rows[b]) /\ row = MarkProcessing(rows[b]) /\ at = "save"
         \/ op = "fail" /\ row = MarkFailed(rows[b]) /\ at = "save"
         \/ op = "delete" /\ at = "flush"
  PROVE  Inv'
<1>1. /\ b \in Blobs /\ b # None /\ rows[b] \in Row /\ Kept(rows[b].loc)
      /\ Known(rows[b].loc, b) /\ (b \in Requests => Settled(b, Creating))
  BY LoadedRow
<1>2. Makes(t, r)
  BY DEF Begun, Makes, Creating
<1>3. Loaded(t, r)
  BY <1>1 DEF Begun, Loaded, Known, NoRow
<1>4. CallOK(call[r]) /\ call[r].todo = <<>> /\ call' = [call EXCEPT ![r] = call[r]]
  BY CallFacts DEF Calling
<1>5. PICK base : base = rows[b]
  OBVIOUS
<1>6. BeginsAt(call[r], r, op, at, base, b)
  BY <1>4 DEF BeginsAt
<1>7. QED
  BY <1>1, <1>2, <1>3, <1>4, <1>5, <1>6, BegunKeeps

LEMMA ChangeKeeps ==
  ASSUME Inv, NEW r \in Requests, StartProcessing(r) \/ FailProcessing(r) \/ DeleteBlob(r) PROVE Inv'
<1>1. task[r].at = "idle" /\ UNCHANGED <<provider, bucket, objects, call, faults, rows, told, refs, now>>
  BY DEF StartProcessing, FailProcessing, DeleteBlob, Idle, storageVars
<1>2. \A b \in DOMAIN rows : MarkProcessing(rows[b]) \in Row /\ MarkFailed(rows[b]) \in Row
  <2>1. PICK k \in Keys : k = Old
    BY DEF Keys
  <2>2. QED
    BY <2>1, LoadedRow, RowsMade
<1>3. CASE StartProcessing(r) \/ FailProcessing(r)
  <2>1. \E b \in DOMAIN rows, op \in {"start", "fail"}, row \in Row :
          /\ Begin(r, op, b, rows[b], row, "save")
          /\ \/ op = "start" /\ CanStart(rows[b]) /\ row = MarkProcessing(rows[b])
             \/ op = "fail" /\ row = MarkFailed(rows[b])
    BY <1>2, <1>3 DEF StartProcessing, FailProcessing
  <2>2. PICK b \in DOMAIN rows, op \in {"start", "fail"}, row \in Row :
          /\ Begin(r, op, b, rows[b], row, "save")
          /\ \/ op = "start" /\ CanStart(rows[b]) /\ row = MarkProcessing(rows[b])
             \/ op = "fail" /\ row = MarkFailed(rows[b])
    BY <2>1
  <2>3. PICK at \in Places, base \in Row : at = "save" /\ base = rows[b]
    BY LoadedRow DEF Places
  <2>4. PICK t : Begun(r, t, op, at, b, base, row, FALSE, None)
    <3>1. op \in Units \cup Downloads /\ b \in Blobs /\ Begin(r, op, b, base, row, at)
      BY <2>2, <2>3, LoadedRow DEF Units
    <3>2. QED
      BY <2>3, <3>1, BeginIsBegun
  <2>5. QED
    BY <1>1, <2>2, <2>3, <2>4, ChangeBegun
<1>4. CASE DeleteBlob(r)
  <2>1. PICK b \in DOMAIN rows :
          task' = [task EXCEPT ![r] = [NoTask EXCEPT !.op = "delete", !.at = "flush", !.blob = b,
                                                     !.base = rows[b], !.key = Key(b)]]
    BY <1>4 DEF DeleteBlob
  <2>2. PICK base \in Row : base = rows[b]
    BY LoadedRow
  <2>3. PICK t : Begun(r, t, "delete", "flush", b, base, NoRow, FALSE, None)
    BY <2>1, <2>2, LoadedRow, DeleteIsBegun
  <2>4. QED
    BY <1>1, <2>2, <2>3, ChangeBegun
<1>5. QED
  BY <1>3, <1>4

\* The units that store bytes under a key of their own, and the URL.
CallBegins(r, b, op, at, row, m, key, from) ==
  /\ Begin(r, op, b, rows[b], row, at) /\ row \in Row
  /\ Call(r, m, key, from, FALSE) /\ key \in Keys /\ from \in Keys
  /\ \/ /\ op = "promote" /\ rows[b].kind = "temporary" /\ rows[b].loc # None
        /\ row = Promoted(rows[b], r) /\ at = "store" /\ m = "copy" /\ key = r /\ from = rows[b].loc
     \/ /\ op = "finish" /\ CanFinish(rows[b]) /\ row = MarkReady(rows[b], r)
        /\ at = "store" /\ m = "put" /\ key = r /\ from = b
     \/ op = "url" /\ at = "url" /\ m = "url"
  /\ m \in Methods /\ op \in {"promote", "finish", "url"} /\ at \in {"store", "url"}

LEMMA CallingKeeps ==
  ASSUME Inv, NEW r \in Requests, Promote(r) \/ FinishProcessing(r) \/ AskUrl(r) PROVE Inv'
<1>1. task[r].at = "idle" /\ UNCHANGED <<rows, told, refs, now>> /\ r \in Keys
  BY DEF Promote, FinishProcessing, AskUrl, Idle, Keys
<1>2. \E b \in DOMAIN rows : \E op, at, row, m, key, from : CallBegins(r, b, op, at, row, m, key, from)
  <2>1. \A b \in DOMAIN rows : Promoted(rows[b], r) \in Row /\ MarkReady(rows[b], r) \in Row
    BY <1>1, LoadedRow, RowsMade
  <2>2. \A b \in DOMAIN rows : rows[b] \in Row /\ b \in Keys /\ (rows[b].loc # None => rows[b].loc \in Keys)
    BY LoadedRow DEF Row, Blobs
  <2>3. "copy" \in Methods /\ "put" \in Methods /\ "url" \in Methods /\ Old \in Keys
    BY DEF Methods, Keys
  <2>4. CASE Promote(r)
    <3>1. PICK b \in DOMAIN rows :
            /\ rows[b].kind = "temporary" /\ rows[b].loc # None
            /\ Begin(r, "promote", b, rows[b], Promoted(rows[b], r), "store")
            /\ Call(r, "copy", r, rows[b].loc, FALSE)
      BY <2>4 DEF Promote
    <3>2. CallBegins(r, b, "promote", "store", Promoted(rows[b], r), "copy", r, rows[b].loc)
      BY <1>1, <2>1, <2>2, <2>3, <3>1 DEF CallBegins
    <3>3. QED
      BY <3>2
  <2>5. CASE FinishProcessing(r)
    <3>1. PICK b \in DOMAIN rows :
            /\ CanFinish(rows[b])
            /\ Begin(r, "finish", b, rows[b], MarkReady(rows[b], r), "store")
            /\ Call(r, "put", r, b, FALSE)
      BY <2>5 DEF FinishProcessing
    <3>2. CallBegins(r, b, "finish", "store", MarkReady(rows[b], r), "put", r, b)
      BY <1>1, <2>1, <2>2, <2>3, <3>1 DEF CallBegins
    <3>3. QED
      BY <3>2
  <2>6. CASE AskUrl(r)
    <3>1. PICK b \in DOMAIN rows :
            /\ rows[b].loc # None
            /\ Begin(r, "url", b, rows[b], rows[b], "url")
            /\ Call(r, "url", rows[b].loc, Old, FALSE)
      BY <2>6 DEF AskUrl, Readable
    <3>2. CallBegins(r, b, "url", "url", rows[b], "url", rows[b].loc, Old)
      BY <1>1, <2>2, <2>3, <3>1 DEF CallBegins
    <3>3. QED
      BY <3>2
  <2>7. QED
    BY <2>4, <2>5, <2>6
<1>b. PICK b \in DOMAIN rows : \E op, at, row, m, key, from : CallBegins(r, b, op, at, row, m, key, from)
  BY <1>2
<1>3. PICK op, at, row, m, key, from : CallBegins(r, b, op, at, row, m, key, from)
  BY <1>b
<1>4. /\ b \in Blobs /\ b # None /\ rows[b] \in Row
      /\ Known(rows[b].loc, b) /\ (b \in Requests => Settled(b, Creating)) /\ Kept(rows[b].loc)
  BY LoadedRow
<1>5. PICK base : base = rows[b]
  OBVIOUS
<1>6. PICK t : Begun(r, t, op, at, b, base, row, FALSE, None)
  <2>1. /\ op \in Units \cup Downloads /\ at \in Places /\ base \in Row /\ Begin(r, op, b, base, row, at)
    BY <1>3, <1>4, <1>5 DEF CallBegins, Units, Downloads, Places
  <2>2. QED
    BY <1>3, <1>4, <2>1, BeginIsBegun DEF CallBegins
<1>7. Makes(t, r)
  BY <1>3, <1>5, <1>6 DEF CallBegins, Begun, Makes, Creating
<1>8. Loaded(t, r)
  BY <1>3, <1>4, <1>5, <1>6 DEF CallBegins, Begun, Loaded, Known, NoRow
<1>9. /\ UNCHANGED <<provider, bucket, objects, faults>>
      /\ \E c : call' = [call EXCEPT ![r] = c] /\ Fresh(c, m, key, from)
  <2>1. PICK skip \in BOOLEAN : skip = FALSE
    OBVIOUS
  <2>2. Call(r, m, key, from, skip) /\ provider \in Providers
    BY <1>3, <2>1, CallFacts DEF CallBegins
  <2>3. m \in Methods /\ key \in Keys /\ from \in Keys /\ (skip => m = "stream")
    BY <1>3, <2>1 DEF CallBegins
  <2>4. QED
    BY <2>2, <2>3, CallIsFresh
<1>10. PICK c : call' = [call EXCEPT ![r] = c] /\ Fresh(c, m, key, from)
  BY <1>9
<1>11. BeginsAt(c, r, op, at, base, b)
  BY <1>3, <1>5, <1>10 DEF CallBegins, Fresh, BeginsAt, Storing
<1>12. QED
  BY <1>1, <1>4, <1>6, <1>7, <1>8, <1>9, <1>10, <1>11, BegunKeeps

\* An expiry on the grid of the lifetime is at most a lifetime away.
LEMMA WindowIsInTime ==
  ASSUME NEW n \in Nat, NEW l \in Nat, l >= 1
  PROVE  Window(n, l) \in Nat /\ Window(n, l) <= n + l
<1>1. n \div l \in Nat /\ (n \div l) * l <= n
  OBVIOUS
<1>2. PICK q \in Nat : q = n \div l
  BY <1>1
<1>3. q * l \in Nat /\ (q + 1) * l = q * l + l
  OBVIOUS
<1>4. QED
  BY <1>1, <1>2, <1>3 DEF Window

LEMMA SignKeeps == ASSUME Inv, NEW r \in Requests, Sign(r) PROVE Inv'
<1>1. task[r].at = "idle" /\ UNCHANGED <<provider, bucket, objects, call, faults, rows, told, refs, now>>
  BY DEF Sign, Idle, storageVars
<1>2. PICK b \in DOMAIN rows :
        task' = [task EXCEPT ![r] = [NoTask EXCEPT !.op = "download", !.at = "signed", !.blob = b,
                                                   !.issued = now, !.exp = Window(now, Ttl)]]
  BY DEF Sign
<1> DEFINE t == [NoTask EXCEPT !.op = "download", !.at = "signed", !.blob = b, !.issued = now, !.exp = Window(now, Ttl)]
<1>3. /\ b \in Blobs /\ b # None /\ (b \in Requests => Settled(b, Creating))
  BY LoadedRow
<1>4. now \in 0 .. MaxTime /\ now \in Nat /\ Window(now, Ttl) \in Nat /\ Window(now, Ttl) <= now + Ttl
  <2>1. now \in 0 .. MaxTime /\ now \in Nat
    BY ConstantsAreNat DEF Inv, TypeOK
  <2>2. QED
    BY <2>1, ConstantsAreNat, WindowIsInTime
<1>5. /\ t \in TaskType /\ t.op = "download" /\ t.at = "signed" /\ t.out = "none" /\ t.blob = b /\ t.base = NoRow
      /\ t.row = NoRow /\ ~t.insert /\ t.edge = None /\ t.issued = now /\ t.exp = Window(now, Ttl) /\ t.age = 0
      /\ t.seen = NoRow /\ t.key = {}
  <2>1. t \in TaskType
    BY <1>3, <1>4, NoTaskIsTask DEF TaskType, Places, Downloads
  <2>2. QED
    BY <2>1 DEF NoTask
<1>6. task' = [task EXCEPT ![r] = t]
  BY <1>2
<1> HIDE DEF t
<1>7. Course(t, r)
  BY <1>3, <1>5 DEF Course, Stage, Makes, Creating
<1>8. Loaded(t, r)
  BY <1>3, <1>5 DEF Loaded, Known, Kept, NoRow
<1>9. InTime(t)
  BY <1>4, <1>5, ConstantsAreNat DEF InTime
<1>10. call[r].todo = <<>> /\ CallOK(call[r]) /\ faults' \in 0 .. MaxFaults /\ call' = [call EXCEPT ![r] = call[r]]
  BY <1>1, CallFacts DEF Calling
<1>11. CallOf(t, call[r], r) /\ Bytes(t, call[r], r)
  BY <1>5, <1>10 DEF CallOf, Bytes, Storing
<1>12. PlainStep(r, t, call[r])
  BY <1>1, <1>5, <1>6, <1>7, <1>8, <1>9, <1>10, <1>11 DEF PlainStep, Flushed
<1>13. QED
  BY <1>12, PlainKeeps

-----------------------------------------------------------------------------
(* The steps of the store, of time and of references.                      *)

\* What a step of the store does to the objects, told by what the request is
\* there for.
Stores(r) ==
  /\ task[r].at = "store" /\ task[r].op \in Storing
  /\ DOMAIN objects' = DOMAIN objects \cup {r}
  /\ \A k \in DOMAIN objects' : objects'[k] = IF k = r THEN task[r].blob ELSE objects[k]
Unstores(r) ==
  /\ task[r].at = "unstore" /\ task[r].op = "promote" /\ task[r].base.loc # None
  /\ DOMAIN objects' = DOMAIN objects \ {task[r].base.loc}
  /\ \A k \in DOMAIN objects' : objects'[k] = objects[k]

LEMMA ObjectsChange ==
  ASSUME Inv, NEW r \in Requests, StoreStep(r)
  PROVE  objects' = objects \/ Stores(r) \/ Unstores(r)
<1>1. /\ Stage(task[r]) /\ Makes(task[r], r) /\ Loaded(task[r], r) /\ CallOf(task[r], call[r], r)
      /\ call[r].todo # <<>>
  BY CallFacts DEF StoreStep
<1>2. CASE call[r].op = "put" /\ objects' = With(objects, call[r].key, call[r].from)
  <2>1. task[r].at = "store" /\ task[r].op \in Storing /\ call[r].key = r /\ call[r].from = task[r].blob
    BY <1>1, <1>2 DEF CallOf, Calling, Stage
  <2>2. objects' = With(objects, r, task[r].blob)
    BY <1>2, <2>1
  <2>3. QED
    BY <2>1, <2>2 DEF Stores, With
<1>3. CASE /\ call[r].op = "copy" /\ call[r].from \in DOMAIN objects
           /\ objects' = With(objects, call[r].key, objects[call[r].from])
  <2>1. task[r].at = "store" /\ task[r].op = "promote" /\ call[r].key = r /\ call[r].from = task[r].base.loc
    BY <1>1, <1>3 DEF CallOf, Calling
  <2>2. objects[task[r].base.loc] = task[r].blob
    BY <1>1, <1>3, <2>1 DEF Makes, Loaded, Known, Inv, ObjectsInv
  <2>3. objects' = With(objects, r, task[r].blob)
    BY <1>3, <2>1, <2>2
  <2>4. QED
    BY <2>1, <2>3 DEF Stores, Storing, With
<1>4. CASE call[r].op = "delete" /\ objects' = Without(call[r].key)
  <2>1. task[r].at = "unstore" /\ task[r].op = "promote" /\ call[r].key = task[r].base.loc /\ task[r].base.loc # None
    BY <1>1, <1>4 DEF CallOf, Calling, Stage, Makes
  <2>2. objects' = [k \in DOMAIN objects \ {task[r].base.loc} |-> objects[k]]
    BY <1>4, <2>1 DEF Without
  <2>3. QED
    BY <2>1, <2>2 DEF Unstores
<1>5. QED
  BY <1>2, <1>3, <1>4 DEF StoreStep

\* Another request's object is not the one a running request stores, and the
\* one it deletes is not that of a running request.
LEMMA ObjectsOfOthers ==
  ASSUME Inv, NEW r \in Requests, StoreStep(r), NEW q \in Requests, task[q].at # "done"
  PROVE  /\ q \in DOMAIN objects => q \in DOMAIN objects'
         /\ task[q].base.loc # None /\ task[q].base.loc \notin DOMAIN objects => task[q].base.loc \notin DOMAIN objects'
<1>1. \A p \in Requests : task[p].base.loc # None /\ task[p].base.loc \in Requests => task[task[p].base.loc].at = "done"
  BY DEF Inv, TasksInv, Loaded, Known, Settled, Course, Stage
<1>2. CASE objects' = objects
  BY <1>2
<1>3. CASE Stores(r)
  BY <1>1, <1>3 DEF Stores
<1>4. CASE Unstores(r)
  BY <1>1, <1>4 DEF Unstores
<1>5. QED
  BY <1>2, <1>3, <1>4, ObjectsChange

LEMMA StorageTypes ==
  ASSUME provider \in Providers, bucket \in BOOLEAN, faults \in 0 .. MaxFaults, StorageNext
  PROVE  provider' \in Providers /\ bucket' \in BOOLEAN /\ faults' \in 0 .. MaxFaults
<1>1. PICK r \in Requests :
        \/ HeadBucket(r) \/ CreateBucket(r) \/ Write(r) \/ HeadObject(r)
        \/ ObjectExists(r) \/ Remove(r) \/ Unlink(r) \/ ReadBody(r) \/ StoreFails(r)
  BY DEF StorageNext
<1>2. CASE StoreFails(r)
  <2>1. faults' = faults + 1 /\ faults < MaxFaults /\ MaxFaults \in Nat
    BY <1>2, StorageAssumption DEF StoreFails
  <2>2. QED
    BY <1>2, <2>1 DEF StoreFails
<1>3. CASE CreateBucket(r)
  BY <1>3 DEF CreateBucket
<1>4. QED
  BY <1>1, <1>2, <1>3 DEF HeadBucket, Write, HeadObject, ObjectExists, Remove, Unlink, ReadBody

LEMMA StorageKeeps ==
  ASSUME Inv, StorageNext, UNCHANGED <<rows, told, refs, task, now>> PROVE Inv'
<1>1. PICK r \in Requests : StoreStep(r)
  BY StorageSteps DEF Inv
<1>2. StoreOK'
  BY StorageSteps DEF Inv
<1>3. TypeOK'
  <2>1. provider' \in Providers /\ bucket' \in BOOLEAN /\ faults' \in 0 .. MaxFaults
    BY StorageTypes DEF Inv, TypeOK
  <2>2. QED
    BY <1>2, <2>1 DEF Inv, TypeOK, StoreOK
<1>4. RowsInv' /\ TimeInv' /\ LocksInv' /\ ReferenceNamesABlob'
  <2>1. RowsInv'
    <3>1. RowsInv /\ rows' = rows /\ task' = task
      BY DEF Inv
    <3>2. QED
      BY <3>1 DEF RowsInv, Known, BlobOf, Settled
  <2>2. TimeInv'
    BY DEF Inv, TimeInv, InTime
  <2>3. LocksInv'
    <3>1. /\ \A q \in Requests : (Matches(q)' <=> Matches(q)) /\ (Exists(q)' <=> Exists(q))
      BY DEF Matches, Exists, Key
    <3>2. \A q \in Requests : (Writes(q)' <=> Writes(q)) /\ (Finds(q)' <=> Finds(q))
      BY <3>1 DEF Writes, Finds
    <3>3. QED
      BY <3>2 DEF Inv, LocksInv, Holds, Locked
  <2>4. ReferenceNamesABlob'
    BY DEF Inv, ReferenceNamesABlob
  <2>5. QED
    BY <2>1, <2>2, <2>3, <2>4
<1>5. ASSUME NEW q \in Requests PROVE CallOf(task[q], call'[q], q)
  <2>1. CallOf(task[q], call[q], q) /\ Stage(task[q])
    BY CallFacts
  <2>2. CASE q # r
    BY <1>1, <2>1, <2>2 DEF StoreStep, SameCall, CallOf
  <2>3. CASE q = r
    <3>1. call'[r].op = call[r].op /\ call'[r].key = call[r].key /\ task[r].at \in Calling
          /\ (call[r].op # "read" => call'[r].from = call[r].from)
      BY <1>1, <2>1, <2>3 DEF StoreStep, SameCall, CallOf
    <3>2. task[r].out # "served"
      BY <2>1, <2>3, <3>1 DEF Stage, Calling
    <3>3. QED
      BY <2>1, <2>3, <3>1, <3>2 DEF CallOf
  <2>4. QED
    BY <2>2, <2>3
<1>6. TasksInv'
  <2>1. \A q \in Requests : Course(task[q], q) /\ Loaded(task[q], q)
    BY DEF Inv, TasksInv
  <2>2. ASSUME NEW k, Kept(k) PROVE Kept(k)'
    <3>1. \A p \in Requests : Unstoring(p, k) => Unstoring(p, k)'
      BY DEF Unstoring
    <3>2. CASE Unstores(r) /\ k = task[r].base.loc
      BY <3>1, <3>2 DEF Unstores, Unstoring, Kept
    <3>3. CASE k \in DOMAIN objects => k \in DOMAIN objects'
      BY <2>2, <3>1, <3>3 DEF Kept
    <3>4. QED
      BY <1>1, <3>2, <3>3, ObjectsChange DEF Stores, Unstores
  <2>3. \A q \in Requests : Loaded(task[q], q)'
    <3> SUFFICES ASSUME NEW q \in Requests PROVE Loaded(task[q], q)'
      OBVIOUS
    <3>1. PICK k : k = task[q].base.loc
      OBVIOUS
    <3>2. Kept(k)'
      BY <2>1, <2>2, <3>1 DEF Loaded
    <3>3. Kept(task[q].base.loc)'
      BY <3>1, <3>2 DEF Kept, Unstoring
    <3>4. QED
      BY <2>1, <3>3 DEF Loaded, Known, BlobOf, Settled, Key
  <2>4. QED
    BY <1>5, <2>1, <2>3 DEF TasksInv
<1>7. ObjectsInv'
  <2> SUFFICES ASSUME NEW k \in DOMAIN objects'
               PROVE  objects'[k] = BlobOf(k) /\ (k \in Requests => task[k].op \in Storing)
    BY DEF ObjectsInv, BlobOf
  <2>1. CASE objects' = objects
    BY <2>1 DEF Inv, ObjectsInv
  <2>2. CASE Stores(r)
    BY <2>2 DEF Stores, BlobOf, Inv, ObjectsInv
  <2>3. CASE Unstores(r)
    BY <2>3 DEF Unstores, Inv, ObjectsInv
  <2>4. QED
    BY <1>1, <2>1, <2>2, <2>3, ObjectsChange
<1>8. BytesInv'
  <2> SUFFICES ASSUME NEW q \in Requests
               PROVE  Bytes(task[q], call[q], q)'
    BY DEF BytesInv
  <2>1. /\ Bytes(task[q], call[q], q) /\ Stage(task[q]) /\ Makes(task[q], q) /\ Loaded(task[q], q)
        /\ CallOf(task[q], call[q], q)
    BY CallFacts
  <2>2. task[q].at # "done" =>
          /\ q \in DOMAIN objects => q \in DOMAIN objects'
          /\ task[q].base.loc # None /\ task[q].base.loc \notin DOMAIN objects => task[q].base.loc \notin DOMAIN objects'
    BY <1>1, ObjectsOfOthers
  <2>3. task[q].op = "promote" => task[q].base.loc # None
    BY <2>1 DEF Makes
  <2>4. task[q].at = "store" /\ call'[q].ans = "ok" => q \in DOMAIN objects'
    <3>1. CASE q # r
      BY <1>1, <2>1, <2>2, <3>1 DEF StoreStep, Bytes
    <3>2. CASE q = r
      BY <1>1, <2>1, <3>2 DEF StoreStep, CallOf
    <3>3. QED
      BY <3>1, <3>2
  <2>5. task[q].at = "unstore" /\ call'[q].ans \in {"ok", "false"} => task[q].base.loc \notin DOMAIN objects'
    <3>1. CASE q # r
      BY <1>1, <2>1, <2>2, <2>3, <3>1 DEF StoreStep, Bytes, Stage
    <3>2. CASE q = r
      BY <1>1, <2>1, <3>2 DEF StoreStep, CallOf
    <3>3. QED
      BY <3>1, <3>2
  <2>6. task[q].at = "body" /\ call'[q].ans = "ok" => call'[q].from = task[q].blob
    <3>1. CASE q # r
      BY <1>1, <2>1, <3>1 DEF StoreStep, Bytes
    <3>2. CASE q = r
      BY <1>1, <2>1, <3>2 DEF StoreStep, CallOf, Stage, Loaded, Known, Inv, ObjectsInv
    <3>3. QED
      BY <3>1, <3>2
  <2>7. task[q].op \in Storing /\ task[q].at \in {"save", "flush"} \cup Flushed => q \in DOMAIN objects'
    BY <2>1, <2>2 DEF Bytes, Flushed
  <2>8. task[q].op = "promote" /\ task[q].at = "commit" => task[q].base.loc \notin DOMAIN objects'
    BY <2>1, <2>2, <2>3 DEF Bytes
  <2>9. QED
    BY <2>4, <2>5, <2>6, <2>7, <2>8 DEF Bytes
<1>9. LostOnlyByPromotion'
  <2> SUFFICES ASSUME NEW b \in DOMAIN rows, rows[b].loc # None, rows[b].loc \notin DOMAIN objects'
               PROVE  \E q \in Requests : Losing(q, b, rows[b].loc)
    BY DEF LostOnlyByPromotion, Losing, Carried
  <2>1. CASE rows[b].loc \notin DOMAIN objects
    BY <2>1 DEF Inv, LostOnlyByPromotion
  <2>2. CASE rows[b].loc \in DOMAIN objects
    <3>1. Unstores(r) /\ task[r].base.loc = rows[b].loc
      BY <1>1, <2>2, ObjectsChange DEF Stores, Unstores
    <3>2. task[r].blob = b
      BY <3>1 DEF Unstores, Inv, TasksInv, Loaded, RowsInv, Known
    <3>3. QED
      BY <3>1, <3>2 DEF Losing, Unstores
  <2>3. QED
    BY <2>1, <2>2
<1>10. OrphansAreAccounted'
  <2> SUFFICES ASSUME NEW k \in DOMAIN objects'
               PROVE  \/ Named(k)
                      \/ k \in Requests /\ task[k].out # "committed"
                      \/ BlobOf(k) \notin DOMAIN rows
                      \/ \E q \in Requests \ {k} : Overwrote(q, BlobOf(k), k)
    BY DEF OrphansAreAccounted, Named, BlobOf, Overwrote
  <2>1. CASE k \in DOMAIN objects
    BY <2>1 DEF Inv, OrphansAreAccounted
  <2>2. CASE k \notin DOMAIN objects
    <3>1. k = r /\ task[r].at = "store"
      BY <1>1, <2>2, ObjectsChange DEF Stores, Unstores
    <3>2. task[r].out # "committed"
      BY <3>1, CallFacts DEF Stage
    <3>3. QED
      BY <3>1, <3>2
  <2>3. QED
    BY <2>1, <2>2
<1>11. QED
  BY <1>2, <1>3, <1>4, <1>6, <1>7, <1>8, <1>9, <1>10 DEF Inv

\* A step that leaves the rows, the tasks and the store alone.
LEMMA StillKeeps ==
  ASSUME Inv, UNCHANGED <<storageVars, rows, task>>
  PROVE  /\ StoreOK' /\ RowsInv' /\ TasksInv' /\ ObjectsInv' /\ BytesInv' /\ LocksInv'
         /\ LostOnlyByPromotion' /\ OrphansAreAccounted'
<1>1. /\ StoreOK /\ RowsInv /\ TasksInv /\ ObjectsInv /\ BytesInv /\ LocksInv
      /\ LostOnlyByPromotion /\ OrphansAreAccounted
      /\ UNCHANGED <<provider, bucket, objects, call, faults, rows, task>>
  BY DEF Inv, storageVars
<1>2. StoreOK'
  BY <1>1 DEF StoreOK, CallOK, InFlight, TrueAnswer
<1>3. RowsInv'
  BY <1>1 DEF RowsInv, Known, BlobOf, Settled
<1>4. TasksInv'
  BY <1>1 DEF TasksInv, Loaded, Known, BlobOf, Settled, Kept, Unstoring, Key
<1>5. ObjectsInv'
  BY <1>1 DEF ObjectsInv, BlobOf
<1>6. BytesInv'
  BY <1>1 DEF BytesInv, Bytes
<1>7. LocksInv'
  BY <1>1 DEF LocksInv, Holds, Writes, Finds, Matches, Locked, Exists, Key
<1>8. LostOnlyByPromotion'
  BY <1>1 DEF LostOnlyByPromotion, Losing, Carried
<1>9. OrphansAreAccounted'
  BY <1>1 DEF OrphansAreAccounted, Named, BlobOf, Overwrote
<1>10. QED
  BY <1>2, <1>3, <1>4, <1>5, <1>6, <1>7, <1>8, <1>9

LEMMA TickKeeps == ASSUME Inv, Tick PROVE Inv'
<1>1. now < MaxTime /\ now' = now + 1 /\ UNCHANGED <<storageVars, rows, told, refs, task>>
  BY DEF Tick
<1>2. now \in Nat /\ MaxTime \in Nat
  BY ConstantsAreNat DEF Inv, TypeOK
<1>3. TypeOK'
  <2>1. now' \in 0 .. MaxTime
    BY <1>1, <1>2
  <2>2. QED
    BY <1>1, <2>1 DEF Inv, TypeOK, storageVars
<1>4. TimeInv'
  <2> SUFFICES ASSUME NEW r \in Requests PROVE task[r].issued <= now + 1
    BY <1>1 DEF Inv, TimeInv, InTime
  <2>1. task[r].issued \in 0 .. MaxTime /\ task[r].issued <= now
    BY CallFacts DEF InTime, TaskType
  <2>2. QED
    BY <1>2, <2>1
<1>5. ReferenceNamesABlob'
  BY <1>1 DEF Inv, ReferenceNamesABlob
<1>6. QED
  BY <1>1, <1>3, <1>4, <1>5, StillKeeps DEF Inv

LEMMA DetachKeeps == ASSUME Inv, NEW e \in Edges, Detach(e) PROVE Inv'
<1>1. refs' = [f \in DOMAIN refs \ {e} |-> refs[f]] /\ UNCHANGED <<storageVars, rows, told, task, now>>
  BY DEF Detach
<1>2. TypeOK'
  BY <1>1 DEF Inv, TypeOK, storageVars
<1>3. TimeInv' /\ ReferenceNamesABlob'
  BY <1>1 DEF Inv, TimeInv, InTime, ReferenceNamesABlob
<1>4. QED
  BY <1>1, <1>2, <1>3, StillKeeps DEF Inv

LEMMA StutterKeeps == ASSUME Inv, UNCHANGED vars PROVE Inv'
<1>1. UNCHANGED <<provider, bucket, objects, call, faults, rows, told, refs, task, now>>
  BY DEF vars, storageVars
<1>2. TypeOK'
  BY <1>1 DEF Inv, TypeOK
<1>3. TimeInv' /\ ReferenceNamesABlob'
  BY <1>1 DEF Inv, TimeInv, InTime, ReferenceNamesABlob
<1>4. QED
  BY <1>1, <1>2, <1>3, StillKeeps DEF Inv, storageVars

-----------------------------------------------------------------------------
(* The commit.                                                             *)

\* The three things it can do to the rows: write one, delete one, or nothing,
\* when the row is as the aggregate, or is not the one to delete any more.
CommitsRow(r, row) ==
  /\ task[r].op \in Units \ {"delete"} /\ row \in Row
  /\ DOMAIN rows' = DOMAIN rows \cup {task[r].blob}
  /\ \A b \in DOMAIN rows' : rows'[b] = IF b = task[r].blob THEN row ELSE rows[b]
  /\ task[r].insert <=> task[r].blob \notin DOMAIN rows
  /\ row.loc = IF task[r].insert \/ task[r].row.loc # task[r].seen.loc THEN task[r].row.loc
               ELSE rows[task[r].blob].loc
  /\ ~task[r].insert => row.status = IF task[r].row.status # task[r].seen.status THEN task[r].row.status
                                     ELSE rows[task[r].blob].status
CommitsDelete(r) ==
  /\ task[r].op = "delete"
  /\ DOMAIN rows' = DOMAIN rows \ {task[r].blob}
  /\ \A b \in DOMAIN rows' : rows'[b] = rows[b]
CommitsNothing(r) ==
  /\ task[r].op \in {"start", "fail", "delete"} /\ rows' = rows /\ ~task[r].insert
  /\ task[r].op # "delete" => task[r].row = task[r].seen

\* What holds of a unit about to commit.
LEMMA BeforeCommit ==
  ASSUME Inv, NEW r \in Requests, Commit(r)
  PROVE  /\ task[r].at = "commit" /\ task[r].out = "none" /\ task[r].op \in Units
         /\ task[r].blob \in Blobs /\ task[r].row \in Row /\ task[r].base \in Row /\ call[r].todo = <<>>
         /\ Makes(task[r], r) /\ Loaded(task[r], r)
         /\ UNCHANGED <<provider, bucket, objects, call, faults, now>>
         /\ Writes(r) => ~Locked(r, task[r].blob) /\ Finds(r)
         /\ task[r].op \in Storing => r \in DOMAIN objects /\ task[r].row.loc = r /\ task[r].seen.loc # r
         /\ task[r].op \notin Storing /\ task[r].op # "delete" => task[r].row.loc = task[r].base.loc
         /\ task[r].op = "promote" => task[r].base.loc \notin DOMAIN objects
<1>1. task[r].at = "commit" /\ UNCHANGED <<provider, bucket, objects, call, faults, now>>
  BY DEF Commit, storageVars
<1>2. /\ Stage(task[r]) /\ Makes(task[r], r) /\ Loaded(task[r], r) /\ Bytes(task[r], call[r], r)
      /\ task[r] \in TaskType /\ task[r].row \in Row /\ task[r].base \in Row /\ call[r].todo = <<>>
  BY <1>1, CallFacts DEF Calling
<1>3. task[r].out = "none" /\ task[r].op \in Units /\ task[r].blob \in Blobs
  BY <1>1, <1>2 DEF Stage, TaskType
<1>4. Writes(r) => ~Locked(r, task[r].blob) /\ Finds(r)
  BY <1>1 DEF Inv, LocksInv, Holds, Flushed
<1>5. task[r].op \in Storing => r \in DOMAIN objects /\ task[r].row.loc = r
  <2>1. task[r].op \in Storing => r \in DOMAIN objects
    BY <1>1, <1>2 DEF Bytes, Flushed
  <2>2. task[r].op \in Storing => task[r].row.loc = r
    BY <1>2, FieldsMade DEF Makes, Storing
  <2>3. QED
    BY <2>1, <2>2
<1>6. task[r].seen.loc # r
  BY <1>2, <1>3, BlobsAssumption DEF Loaded, Known, Settled, Keys
<1>7. task[r].op \notin Storing /\ task[r].op # "delete" => task[r].row.loc = task[r].base.loc
  <2>1. CASE task[r].op = "pending"
    <3>1. task[r].row = CreatedPending /\ task[r].base = NoRow
      BY <1>2, <2>1 DEF Makes, Creating
    <3>2. QED
      BY <3>1 DEF CreatedPending, NoRow
  <2>2. CASE task[r].op \in {"start", "fail"}
    <3>1. task[r].row = MarkProcessing(task[r].base) \/ task[r].row = MarkFailed(task[r].base)
      BY <1>2, <2>2 DEF Makes
    <3>2. PICK base \in Row : base = task[r].base
      BY <1>2
    <3>3. MarkProcessing(base).loc = base.loc /\ MarkFailed(base).loc = base.loc
      BY FieldsMade
    <3>4. QED
      BY <3>1, <3>2, <3>3
  <2>3. QED
    BY <1>3, <2>1, <2>2 DEF Units, Storing
<1>8. QED
  BY <1>1, <1>2, <1>3, <1>4, <1>5, <1>6, <1>7 DEF Bytes

LEMMA CommitCases ==
  ASSUME Inv, NEW r \in Requests, Commit(r)
  PROVE  (\E row : CommitsRow(r, row)) \/ CommitsDelete(r) \/ CommitsNothing(r)
<1>1. /\ task[r].op \in Units /\ task[r].row \in Row /\ Makes(task[r], r)
      /\ Writes(r) => Finds(r)
      /\ task[r].op \in Storing => task[r].row.loc = r /\ task[r].seen.loc # r
  BY BeforeCommit
<1>2. CASE ~Writes(r)
  <2>1. rows' = rows
    BY <1>2 DEF Commit
  <2>2. ~task[r].insert /\ (task[r].op # "delete" => task[r].row = task[r].seen)
    BY <1>1, <1>2 DEF Writes, Makes, Creating, Changes
  <2>3. task[r].op \in {"start", "fail", "delete"}
    BY <1>1, <2>2 DEF Makes, Units, Creating, Storing
  <2>4. QED
    BY <2>1, <2>2, <2>3 DEF CommitsNothing
<1>3. CASE task[r].op = "delete" /\ Writes(r)
  <2>1. rows' = [b \in DOMAIN rows \ {task[r].blob} |-> rows[b]]
    BY <1>3 DEF Commit
  <2>2. QED
    BY <1>3, <2>1 DEF CommitsDelete
<1>4. CASE task[r].op # "delete" /\ Writes(r)
  <2>1. PICK row : row = IF task[r].insert THEN task[r].row ELSE Merged(r)
    OBVIOUS
  <2>2. rows' = With(rows, task[r].blob, row)
    BY <1>4, <2>1 DEF Commit
  <2>3. /\ DOMAIN rows' = DOMAIN rows \cup {task[r].blob}
        /\ \A b \in DOMAIN rows' : rows'[b] = IF b = task[r].blob THEN row ELSE rows[b]
    BY <2>2 DEF With
  <2>4. task[r].insert <=> task[r].blob \notin DOMAIN rows
    BY <1>1, <1>4 DEF Finds, Matches, Exists
  <2>5. CASE task[r].insert
    <3>1. row = task[r].row
      BY <2>1, <2>5
    <3>2. CommitsRow(r, row)
      BY <1>1, <1>4, <2>3, <2>4, <2>5, <3>1 DEF CommitsRow
    <3>3. QED
      BY <3>2
  <2>6. CASE ~task[r].insert
    <3>1. rows[task[r].blob] \in Row
      BY <2>4, <2>6, LoadedRow
    <3>2. row = Merged(r)
      BY <2>1, <2>6
    <3>3. /\ row.kind = IF task[r].row.kind # task[r].seen.kind THEN task[r].row.kind ELSE rows[task[r].blob].kind
          /\ row.loc = IF task[r].row.loc # task[r].seen.loc THEN task[r].row.loc ELSE rows[task[r].blob].loc
          /\ row.status = IF task[r].row.status # task[r].seen.status THEN task[r].row.status
                          ELSE rows[task[r].blob].status
          /\ row = [kind |-> row.kind, status |-> row.status, loc |-> row.loc]
      BY <3>2 DEF Merged
    <3>4. row \in Row
      BY <1>1, <3>1, <3>3 DEF Row
    <3>5. CommitsRow(r, row)
      BY <1>1, <1>4, <2>3, <2>4, <2>6, <3>3, <3>4 DEF CommitsRow
    <3>6. QED
      BY <3>5
  <2>7. QED
    BY <2>5, <2>6
<1>5. QED
  BY <1>2, <1>3, <1>4

\* The committed unit is done, and others and what they know are as before.
Done(r) ==
  /\ task' \in [Requests -> TaskType]
  /\ \A q \in Requests \ {r} : task'[q] = task[q]
  /\ task'[r].at = "done" /\ task'[r].out = "committed" /\ Alike(task'[r], task[r])
  /\ \A k : BlobOf(k)' = BlobOf(k)
  /\ \A l, b : Known(l, b) => Known(l, b)'
  /\ \A q \in Requests : \A ops : Settled(q, ops) => Settled(q, ops)'
  /\ \A b : Key(b) \subseteq Key(b)'
  /\ \A k : Kept(k) => Kept(k)'
  /\ \A q \in Requests : \A b, k : Carried(q, b, k) => Carried(q, b, k)'
  /\ \A q \in Requests : \A b, k : k # r /\ Overwrote(q, b, k) => Overwrote(q, b, k)'

LEMMA CommitIsDone == ASSUME Inv, NEW r \in Requests, Commit(r) PROVE Done(r)
<1>1. Finish(r, "committed") /\ task[r].at # "done" /\ TypeOK /\ TasksInv
  BY BeforeCommit DEF Commit, Inv
<1>2. PICK t, o : Moves(r, t, "done", o) /\ Finish(r, o)
  BY <1>1, FinishMoves
<1>3. o = "committed"
  <2>1. task'[r].out = o /\ task'[r].out = "committed"
    BY <1>1, <1>2 DEF Finish, TypeOK, TaskType
  <2>2. QED
    BY <2>1
<1>4. /\ task' = [task EXCEPT ![r] = t] /\ t \in TaskType /\ t.at = "done" /\ t.out = "committed"
      /\ Alike(t, task[r])
  BY <1>2, <1>3 DEF Moves
<1>5. /\ task' \in [Requests -> TaskType] /\ task'[r] = t
      /\ \A q \in Requests \ {r} : task'[q] = task[q]
  BY <1>1, <1>4 DEF TypeOK
<1>6. \A k : BlobOf(k)' = BlobOf(k)
  BY <1>4, <1>5 DEF BlobOf, Alike
<1>7. /\ \A l, b : Known(l, b) => Known(l, b)'
      /\ \A q \in Requests : \A ops : Settled(q, ops) => Settled(q, ops)'
      /\ \A b : Key(b) \subseteq Key(b)'
      /\ \A q \in Requests : \A b, k : Carried(q, b, k) => Carried(q, b, k)'
      /\ \A q \in Requests : \A b, k : k # r /\ Overwrote(q, b, k) => Overwrote(q, b, k)'
  BY <1>1, <1>4, KnownStays
<1>8. \A k : Kept(k) => Kept(k)'
  <2>1. objects' = objects
    BY BeforeCommit
  <2>2. ASSUME NEW p \in Requests, NEW k, Unstoring(p, k) PROVE Unstoring(p, k)'
    BY <1>4, <1>5, <2>2 DEF Unstoring, Alike
  <2>3. QED
    BY <2>1, <2>2 DEF Kept
<1>9. QED
  BY <1>4, <1>5, <1>6, <1>7, <1>8 DEF Done

LEMMA CommitTypes == ASSUME Inv, NEW r \in Requests, Commit(r) PROVE TypeOK'
<1>1. task[r].blob \in Blobs /\ task[r].edge \in Edges \cup {None}
  BY BeforeCommit, CallFacts DEF TaskType
<1>2. DOMAIN rows' \subseteq Blobs /\ rows' \in [DOMAIN rows' -> Row]
  <2>1. DOMAIN rows \subseteq Blobs /\ rows \in [DOMAIN rows -> Row]
    BY DEF Inv, TypeOK
  <2>2. /\ DOMAIN rows' \subseteq Blobs /\ \A b \in DOMAIN rows' : rows'[b] \in Row
    BY <1>1, <2>1, CommitCases DEF CommitsRow, CommitsDelete, CommitsNothing
  <2>3. rows' = [b \in DOMAIN rows' |-> rows'[b]]
    BY <2>1 DEF Commit, With
  <2>4. QED
    BY <2>2, <2>3
<1>3. told' \in [Blobs -> DOMAIN Tells]
  BY <1>1 DEF Commit, Inv, TypeOK, Raises, Tells
<1>4. DOMAIN refs' \subseteq Edges /\ refs' \in [DOMAIN refs' -> Blobs]
  BY <1>1 DEF Commit, Inv, TypeOK, With
<1>5. task' \in [Requests -> TaskType]
  BY CommitIsDone DEF Done
<1>6. QED
  BY <1>2, <1>3, <1>4, <1>5, BeforeCommit DEF Inv, TypeOK

LEMMA CommitTasks == ASSUME Inv, NEW r \in Requests, Commit(r) PROVE TasksInv' /\ TimeInv' /\ ObjectsInv' /\ BytesInv'
<1>1. /\ task[r].op \in Units /\ call[r].todo = <<>> /\ Makes(task[r], r) /\ Loaded(task[r], r)
      /\ task[r].blob # None
      /\ call' = call /\ objects' = objects /\ now' = now
  BY BeforeCommit, BlobsAssumption DEF Blobs
<1>2. /\ \A q \in Requests \ {r} : task'[q] = task[q]
      /\ task'[r].at = "done" /\ task'[r].out = "committed" /\ Alike(task'[r], task[r])
      /\ \A k : BlobOf(k)' = BlobOf(k)
  BY CommitIsDone DEF Done
<1>3. ASSUME NEW q \in Requests PROVE Loaded(task[q], q)'
  <2>1. Loaded(task[q], q)
    BY CallFacts
  <2>2. /\ task'[q].op = task[q].op /\ task'[q].blob = task[q].blob /\ task'[q].base = task[q].base
        /\ task'[q].row = task[q].row /\ task'[q].seen = task[q].seen /\ task'[q].key = task[q].key
    BY <1>2 DEF Alike
  <2>3. PICK u : u = task[q]
    OBVIOUS
  <2>4. Loaded(u, q)'
    <3>1. /\ Known(u.base.loc, u.blob)' /\ Known(u.seen.loc, u.blob)'
          /\ u.op = "download" => Known(u.row.loc, u.blob)'
          /\ u.op \notin Creating /\ u.blob \in Requests => Settled(u.blob, Creating)'
      BY <2>1, <2>3, CommitIsDone DEF Loaded, Done
    <3>2. Key(u.blob) \subseteq Key(u.blob)' /\ Kept(u.base.loc)'
      BY <2>1, <2>3, CommitIsDone DEF Loaded, Done
    <3>3. QED
      BY <2>1, <2>3, <3>1, <3>2 DEF Loaded
  <2>5. /\ u.op = task'[q].op /\ u.blob = task'[q].blob /\ u.base = task'[q].base
        /\ u.row = task'[q].row /\ u.seen = task'[q].seen /\ u.key = task'[q].key
    BY <2>2, <2>3
  <2>6. QED
    BY <2>4, <2>5 DEF Loaded, Known, Kept, Unstoring, BlobOf, Settled, Key
<1>4. ASSUME NEW q \in Requests PROVE Course(task'[q], q) /\ CallOf(task'[q], call'[q], q)
  <2>1. CASE q # r
    BY <1>1, <1>2, <2>1, CallFacts DEF Course
  <2>2. CASE q = r
    <3>1. Stage(task'[r])
      BY <1>1, <1>2 DEF Stage, Alike, Units
    <3>2. Makes(task'[r], r)
      BY <1>1, <1>2 DEF Makes, Alike
    <3>3. CallOf(task'[r], call'[r], r)
      BY <1>1, <1>2 DEF CallOf, Alike, Units
    <3>4. QED
      BY <2>2, <3>1, <3>2, <3>3 DEF Course
  <2>3. QED
    BY <2>1, <2>2
<1>5. TasksInv'
  BY <1>3, <1>4 DEF TasksInv, Course, Stage, Makes, CallOf
<1>6. TimeInv'
  BY <1>1, <1>2 DEF Inv, TimeInv, InTime, Alike
<1>7. ObjectsInv'
  BY <1>1, <1>2 DEF Inv, ObjectsInv, Alike
<1>8. BytesInv'
  BY <1>1, <1>2 DEF Inv, BytesInv, Bytes, Flushed
<1>9. QED
  BY <1>5, <1>6, <1>7, <1>8

LEMMA CommitLocks == ASSUME Inv, NEW r \in Requests, Commit(r) PROVE LocksInv'
<1>1. /\ \A q \in Requests \ {r} : task'[q] = task[q]
      /\ task'[r].at = "done"
  BY CommitIsDone DEF Done
<1>2. task[r].at = "commit"
  BY BeforeCommit
<1>3. /\ task[r].out # "committed" /\ task'[r].out = "committed" /\ Makes(task[r], r)
      /\ task'[r].insert = task[r].insert /\ task'[r].blob = task[r].blob
  BY BeforeCommit, CommitIsDone DEF Done, Alike
<1>4. task[r].insert => Writes(r)
  BY <1>3 DEF Makes, Writes, Creating, Changes
<1>5. \A b : Key(b)' = IF task[r].insert /\ task[r].blob = b THEN Key(b) \cup {r} ELSE Key(b)
  BY <1>1, <1>3 DEF Key
<1>6. ASSUME NEW q \in Requests \ {r}, Matches(q)' PROVE Matches(q)
  <2>1. task'[q] = task[q] /\ task[q].key \subseteq Key(task[q].blob) /\ r \notin Key(task[q].blob)
    BY <1>1, <1>3, CallFacts DEF Loaded, Key
  <2>2. PICK b : b = task[q].blob
    OBVIOUS
  <2>3. b \in DOMAIN rows' /\ task[q].key = Key(b)'
    BY <1>6, <2>1, <2>2 DEF Matches, Exists, Key
  <2>4. ~(task[r].insert /\ task[r].blob = b)
    BY <1>5, <2>1, <2>2, <2>3
  <2>5. b \in DOMAIN rows
    BY <2>3, <2>4, CommitCases DEF CommitsRow, CommitsDelete, CommitsNothing
  <2>6. QED
    BY <1>5, <2>2, <2>3, <2>4, <2>5 DEF Matches, Exists
<1>7. ASSUME NEW q \in Requests \ {r}, Writes(q)' PROVE Writes(q)
  BY <1>1, <1>6, <1>7 DEF Writes
<1>8. ASSUME NEW q \in Requests, Holds(q)'
      PROVE  ~Locked(q, task[q].blob)' /\ Finds(q)'
  <2>1. q # r /\ task'[q] = task[q] /\ Holds(q)
    BY <1>1, <1>7, <1>8 DEF Holds, Flushed
  <2>2. ~Locked(q, task[q].blob) /\ Finds(q)
    BY <2>1 DEF Inv, LocksInv
  <2>3. ~Locked(q, task[q].blob)'
    BY <1>1, <1>7, <2>1, <2>2 DEF Locked
  <2>4. Writes(r) => task[r].blob # task[q].blob
    BY <1>2, <2>1, <2>2 DEF Locked
  <2>5. PICK b : b = task[q].blob
    OBVIOUS
  <2>6. b \in DOMAIN rows' <=> b \in DOMAIN rows
    <3>1. \/ DOMAIN rows' = DOMAIN rows \cup {task[r].blob}
          \/ DOMAIN rows' = DOMAIN rows \ {task[r].blob}
          \/ rows' = rows
      BY CommitCases DEF CommitsRow, CommitsDelete, CommitsNothing
    <3>2. CASE Writes(r)
      <4>1. b # task[r].blob
        BY <2>4, <2>5, <3>2
      <4>2. QED
        BY <3>1, <4>1
    <3>3. CASE ~Writes(r)
      BY <3>3 DEF Commit
    <3>4. QED
      BY <3>2, <3>3
  <2>7. Key(b)' = Key(b)
    BY <1>4, <1>5, <2>4, <2>5
  <2>8. Finds(q)'
    BY <2>1, <2>2, <2>5, <2>6, <2>7 DEF Finds, Matches, Exists, Key
  <2>9. QED
    BY <2>3, <2>8
<1>9. QED
  BY <1>8 DEF LocksInv

\* The bytes a commit names are of the blob whose row names them.
LEMMA CommitRows == ASSUME Inv, NEW r \in Requests, Commit(r) PROVE RowsInv'
<1>1. /\ task[r].op \in Units /\ Makes(task[r], r) /\ Loaded(task[r], r) /\ task[r].blob \in Blobs
      /\ task[r].op \in Storing => task[r].row.loc = r /\ task[r].seen.loc # r
      /\ task[r].op \notin Storing /\ task[r].op # "delete" => task[r].row.loc = task[r].base.loc
  BY BeforeCommit
<1>2. /\ task'[r].op = task[r].op /\ task'[r].out = "committed" /\ task'[r].blob = task[r].blob
      /\ \A l, b : Known(l, b) => Known(l, b)'
      /\ \A q \in Requests : \A ops : Settled(q, ops) => Settled(q, ops)'
  BY CommitIsDone DEF Done, Alike
<1>3. ASSUME NEW b \in DOMAIN rows
      PROVE  Known(rows[b].loc, b)' \/ rows'[b] # rows[b]
  <2>1. PICK l : l = rows[b].loc
    OBVIOUS
  <2>2. Known(l, b)'
    BY <1>2, <2>1, LoadedRow
  <2>3. QED
    BY <2>1, <2>2 DEF Known
<1>4. \A b \in DOMAIN rows : b \in Requests => Settled(b, Creating)'
  BY <1>2, LoadedRow
<1>5. CASE CommitsDelete(r)
  BY <1>3, <1>4, <1>5 DEF CommitsDelete, RowsInv
<1>6. CASE CommitsNothing(r)
  BY <1>3, <1>4, <1>6 DEF CommitsNothing, RowsInv
<1>7. ASSUME NEW row, CommitsRow(r, row) PROVE RowsInv'
  <2>1. PICK b : b = task[r].blob
    OBVIOUS
  <2>2. Known(row.loc, b)'
    <3>1. PICK l : l = row.loc
      OBVIOUS
    <3>2. CASE task[r].op \in Storing
      <4>1. l = r /\ BlobOf(r)' = b
        BY <1>1, <1>2, <1>7, <2>1, <3>1, <3>2 DEF CommitsRow, BlobOf
      <4>2. Settled(r, Storing)'
        BY <1>2, <3>2 DEF Settled
      <4>3. QED
        BY <3>1, <4>1, <4>2 DEF Known
    <3>3. CASE task[r].op \notin Storing
      <4>1. Known(l, b)
        <5>1. CASE task[r].insert \/ task[r].row.loc # task[r].seen.loc
          BY <1>1, <1>7, <2>1, <3>1, <3>3, <5>1 DEF CommitsRow, Loaded
        <5>2. CASE ~(task[r].insert \/ task[r].row.loc # task[r].seen.loc)
          <6>1. b \in DOMAIN rows /\ l = rows[b].loc
            BY <1>7, <2>1, <3>1, <3>3, <5>2 DEF CommitsRow
          <6>2. QED
            BY <6>1, LoadedRow
        <5>3. QED
          BY <5>1, <5>2
      <4>2. Known(l, b)'
        BY <1>2, <4>1
      <4>3. QED
        BY <3>1, <4>2 DEF Known
    <3>4. QED
      BY <3>2, <3>3
  <2>3. b \in Requests => Settled(b, Creating)'
    <3>1. CASE task[r].op \in Creating
      BY <1>1, <1>2, <2>1, <3>1 DEF Makes, Settled
    <3>2. CASE task[r].op \notin Creating
      BY <1>1, <1>2, <2>1, <3>2 DEF Loaded
    <3>3. QED
      BY <3>1, <3>2
  <2>4. ASSUME NEW a \in DOMAIN rows' PROVE Known(rows[a].loc, a)' /\ (a \in Requests => Settled(a, Creating)')
    <3>1. CASE a = b
      <4>1. rows'[a] = row
        BY <1>7, <2>1, <3>1 DEF CommitsRow
      <4>2. QED
        BY <2>2, <2>3, <3>1, <4>1 DEF Known
    <3>2. CASE a # b
      <4>1. a \in DOMAIN rows /\ rows'[a] = rows[a]
        BY <1>7, <2>1, <3>2 DEF CommitsRow
      <4>2. QED
        BY <1>3, <1>4, <4>1 DEF Known
    <3>3. QED
      BY <3>1, <3>2
  <2>5. QED
    BY <2>4 DEF RowsInv, Known
<1>8. QED
  BY <1>5, <1>6, <1>7, CommitCases

LEMMA CommitLost == ASSUME Inv, NEW r \in Requests, Commit(r) PROVE LostOnlyByPromotion'
<1>1. /\ task[r].op \in Units /\ Makes(task[r], r) /\ Loaded(task[r], r) /\ task[r].at = "commit"
      /\ objects' = objects
      /\ task[r].op \in Storing => r \in DOMAIN objects /\ task[r].row.loc = r /\ task[r].seen.loc # r
      /\ task[r].op \notin Storing /\ task[r].op # "delete" => task[r].row.loc = task[r].base.loc
  BY BeforeCommit
<1>2. /\ task'[r].out = "committed" /\ Alike(task'[r], task[r])
      /\ \A q \in Requests \ {r} : task'[q] = task[q]
      /\ \A q \in Requests : \A b, k : Carried(q, b, k) => Carried(q, b, k)'
  BY CommitIsDone DEF Done
<1>3. ASSUME NEW q \in Requests \ {r}, NEW b, NEW k, Losing(q, b, k) PROVE Losing(q, b, k)'
  <2>1. (\E p \in Requests : Carried(p, b, k)) => \E p \in Requests : Carried(p, b, k)'
    BY <1>2
  <2>2. QED
    BY <1>2, <1>3, <2>1 DEF Losing
<1>4. ASSUME NEW b \in DOMAIN rows, rows[b].loc # None, rows[b].loc \notin DOMAIN objects,
             b # task[r].blob \/ task[r].op # "promote", NEW k, k = rows[b].loc
      PROVE  \E q \in Requests : Losing(q, b, k)'
  <2>1. PICK q \in Requests : Losing(q, b, k)
    BY <1>4 DEF Inv, LostOnlyByPromotion
  <2>2. q # r
    BY <1>4, <2>1 DEF Losing
  <2>3. QED
    BY <1>3, <2>1, <2>2
<1>5. ASSUME NEW row, CommitsRow(r, row), NEW b, b = task[r].blob, NEW k, k = task[r].row.loc,
             row.loc = k, task[r].insert \/ k # task[r].seen.loc, k # None, k \notin DOMAIN objects
      PROVE  \E q \in Requests : Losing(q, b, k)'
  <2>1. task[r].op \notin Storing /\ task[r].op # "delete" /\ k = task[r].base.loc
    BY <1>1, <1>5 DEF CommitsRow
  <2>2. task[r].op \in Changes
    BY <1>1, <1>5, <2>1 DEF Makes, Units, Changes, Creating, Storing, NoRow
  <2>3. Carried(r, b, k)'
    BY <1>2, <1>5, <2>2 DEF Carried, Alike
  <2>4. PICK p \in Requests : Unstoring(p, k)
    BY <1>1, <1>5, <2>1 DEF Loaded, Kept
  <2>5. p # r /\ task'[p] = task[p]
    BY <1>2, <2>1, <2>4 DEF Unstoring, Storing
  <2>6. task[p].blob = b
    BY <1>1, <1>5, <2>1, <2>4, CallFacts DEF Loaded, Known, Unstoring
  <2>7. task[p].at = "done" => task[p].out \in {"committed", "rolledback"}
    BY <2>4, CallFacts DEF Stage, Unstoring
  <2>8. Losing(p, b, k)'
    BY <2>3, <2>4, <2>5, <2>6, <2>7 DEF Losing, Unstoring
  <2>9. QED
    BY <2>8
<1>6. SUFFICES ASSUME NEW b \in DOMAIN rows', NEW k, k = rows'[b].loc, k # None, k \notin DOMAIN objects
               PROVE  \E q \in Requests : Losing(q, b, k)'
  <2>1. ASSUME NEW b \in DOMAIN rows', rows'[b].loc # None, rows'[b].loc \notin DOMAIN objects
        PROVE  \E q \in Requests : Losing(q, b, rows[b].loc)'
    <3>1. PICK k : k = rows'[b].loc
      OBVIOUS
    <3>2. PICK q \in Requests : Losing(q, b, k)'
      BY <1>6, <2>1, <3>1
    <3>3. QED
      BY <3>1, <3>2 DEF Losing, Carried
  <2>2. QED
    BY <1>1, <2>1 DEF LostOnlyByPromotion
<1>7. CASE CommitsDelete(r) \/ CommitsNothing(r)
  BY <1>4, <1>6, <1>7 DEF CommitsDelete, CommitsNothing
<1>8. ASSUME NEW row, CommitsRow(r, row) PROVE \E q \in Requests : Losing(q, b, k)'
  <2>1. CASE b # task[r].blob
    <3>1. b \in DOMAIN rows /\ rows'[b] = rows[b]
      BY <1>6, <1>8, <2>1 DEF CommitsRow
    <3>2. QED
      BY <1>4, <1>6, <2>1, <3>1
  <2>2. CASE b = task[r].blob /\ (task[r].insert \/ task[r].row.loc # task[r].seen.loc)
    <3>1. rows'[b] = row /\ row.loc = task[r].row.loc
      BY <1>6, <1>8, <2>2 DEF CommitsRow
    <3>2. QED
      BY <1>5, <1>6, <1>8, <2>2, <3>1
  <2>3. CASE b = task[r].blob /\ ~(task[r].insert \/ task[r].row.loc # task[r].seen.loc)
    <3>1. b \in DOMAIN rows /\ rows'[b].loc = rows[b].loc
      BY <1>6, <1>8, <2>3 DEF CommitsRow
    <3>2. task[r].op # "promote"
      BY <1>1, <2>3 DEF Storing
    <3>3. QED
      BY <1>4, <1>6, <3>1, <3>2
  <2>4. QED
    BY <2>1, <2>2, <2>3
<1>9. QED
  BY <1>7, <1>8, CommitCases

\* A unit of another request that committed did not load its row from r, which
\* has not.
LEMMA LoadedBefore ==
  ASSUME Inv, NEW r \in Requests, Commit(r), NEW k \in Requests \ {r}
  PROVE  task'[k].base.loc # r
<1>1. task[r].out = "none" /\ task'[k] = task[k] /\ r # None
  BY BeforeCommit, CommitIsDone, BlobsAssumption DEF Done, Keys
<1>2. QED
  BY <1>1, CallFacts DEF Loaded, Known, Settled

\* What a commit leaves in the store without a row is accounted for.
LEMMA CommitOrphans == ASSUME Inv, NEW r \in Requests, Commit(r) PROVE OrphansAreAccounted'
<1>1. /\ task[r].op \in Units /\ Makes(task[r], r) /\ Loaded(task[r], r) /\ task[r].out = "none"
      /\ task[r].blob \in Blobs /\ objects' = objects
      /\ task[r].op \in Storing => task[r].row.loc = r /\ task[r].seen.loc # r
      /\ task[r].op = "promote" => task[r].base.loc \notin DOMAIN objects
  BY BeforeCommit
<1>2. /\ task'[r].out = "committed" /\ Alike(task'[r], task[r])
      /\ \A q \in Requests \ {r} : task'[q] = task[q]
      /\ \A q \in Requests : \A b, k : k # r /\ Overwrote(q, b, k) => Overwrote(q, b, k)'
      /\ \A k : BlobOf(k)' = BlobOf(k)
  BY CommitIsDone DEF Done
<1>3. SUFFICES ASSUME NEW k \in DOMAIN objects, NEW b, b = BlobOf(k)
               PROVE  \/ Named(k)'
                      \/ k \in Requests /\ task'[k].out # "committed"
                      \/ b \notin DOMAIN rows'
                      \/ \E q \in Requests \ {k} : Overwrote(q, b, k)'
  <2>1. ASSUME NEW k \in DOMAIN objects
        PROVE  \/ Named(k)'
               \/ k \in Requests /\ task'[k].out # "committed"
               \/ BlobOf(k)' \notin DOMAIN rows'
               \/ \E q \in Requests \ {k} : Overwrote(q, BlobOf(k), k)'
    <3>1. PICK b : b = BlobOf(k)
      OBVIOUS
    <3>2. \/ Named(k)'
          \/ k \in Requests /\ task'[k].out # "committed"
          \/ b \notin DOMAIN rows'
          \/ \E q \in Requests \ {k} : Overwrote(q, b, k)'
      BY <1>3, <3>1
    <3>3. b = BlobOf(k)'
      BY <1>2, <3>1
    <3>4. QED
      BY <3>2, <3>3 DEF Overwrote
  <2>2. QED
    BY <1>1, <2>1 DEF OrphansAreAccounted
<1>4. (k \in Requests => task[k].op \in Storing) /\ k \in Keys
  BY DEF Inv, ObjectsInv, TypeOK
<1>5. CASE k = r
  <2>1. PICK row : CommitsRow(r, row)
    BY <1>4, <1>5, CommitCases DEF CommitsDelete, CommitsNothing, Storing
  <2>2. row.loc = r /\ task[r].blob \in DOMAIN rows' /\ rows'[task[r].blob] = row
    BY <1>1, <1>4, <1>5, <2>1 DEF CommitsRow
  <2>3. Named(k)'
    BY <1>5, <2>2 DEF Named
  <2>4. QED
    BY <2>3
<1>6. CASE k # r /\ k \in Requests /\ task[k].out # "committed"
  BY <1>2, <1>6
<1>7. CASE k # r /\ \E q \in Requests \ {k} : Overwrote(q, b, k)
  BY <1>2, <1>7
\* r writes another locator over that of b.
<1>8. ASSUME k # r, task[r].blob = b, task[r].op \in Changes,
             task[r].insert \/ task[r].row.loc # task[r].seen.loc, task[r].row.loc # k
      PROVE  \E q \in Requests \ {k} : Overwrote(q, b, k)'
  <2>1. ~(task[r].op = "promote" /\ task[r].base.loc = k)
    BY <1>1
  <2>2. k \in Requests => task'[k].base.loc # r
    BY <1>8, LoadedBefore
  <2>3. Overwrote(r, b, k)'
    BY <1>2, <1>8, <2>1, <2>2 DEF Overwrote, Alike
  <2>4. QED
    BY <1>8, <2>3
<1>9. ASSUME k # r, NEW a \in DOMAIN rows, rows[a].loc = k
      PROVE  \/ Named(k)'
             \/ b \notin DOMAIN rows'
             \/ \E q \in Requests \ {k} : Overwrote(q, b, k)'
  <2>1. a = b
    <3>1. k # None
      BY <1>4, BlobsAssumption
    <3>2. QED
      BY <1>3, <1>9, <3>1, LoadedRow DEF Known
  <2>2. CASE b \in DOMAIN rows' /\ rows'[b].loc = k
    BY <2>2 DEF Named
  <2>3. CASE b \notin DOMAIN rows'
    BY <2>3
  <2>4. CASE b \in DOMAIN rows' /\ rows'[b].loc # k
    <3>1. PICK row : CommitsRow(r, row)
      BY <1>9, <2>1, <2>4, CommitCases DEF CommitsDelete, CommitsNothing
    <3>2. b = task[r].blob /\ rows'[b] = row /\ ~task[r].insert
      BY <1>9, <2>1, <2>4, <3>1 DEF CommitsRow
    <3>3. task[r].row.loc # task[r].seen.loc /\ task[r].row.loc # k
      BY <1>9, <2>1, <2>4, <3>1, <3>2 DEF CommitsRow
    <3>4. task[r].op \in Changes
      BY <1>1, <3>1, <3>2 DEF CommitsRow, Makes, Units, Creating, Changes
    <3>5. QED
      BY <1>8, <1>9, <3>2, <3>3, <3>4
  <2>5. QED
    BY <2>2, <2>3, <2>4
<1>10. ASSUME k # r, k \in Requests => task[k].out = "committed", b \notin DOMAIN rows
       PROVE  \/ Named(k)'
              \/ b \notin DOMAIN rows'
              \/ \E q \in Requests \ {k} : Overwrote(q, b, k)'
  <2>1. CASE b \notin DOMAIN rows'
    BY <2>1
  <2>2. CASE b \in DOMAIN rows'
    <3>1. PICK row : CommitsRow(r, row)
      BY <1>10, <2>2, CommitCases DEF CommitsDelete, CommitsNothing
    <3>2. b = task[r].blob /\ task[r].insert /\ rows'[b].loc = task[r].row.loc
      BY <1>10, <2>2, <3>1 DEF CommitsRow
    <3>3. task[r].op \notin Creating
      <4>1. SUFFICES ASSUME task[r].op \in Creating PROVE FALSE
        OBVIOUS
      <4>2. b = r
        BY <1>1, <3>2, <4>1 DEF Makes
      <4>3. k \in Requests /\ task[k].blob = r
        BY <1>3, <1>4, <4>2, StorageAssumption DEF BlobOf, Keys
      <4>4. task[k].op \in Creating => k = r
        BY <4>3, CallFacts DEF Makes
      <4>5. task[k].op \notin Creating => Settled(r, Creating)
        BY <4>3, CallFacts DEF Loaded
      <4>6. QED
        BY <1>1, <1>10, <4>4, <4>5 DEF Settled
    <3>4. task[r].op \in Changes
      BY <1>1, <3>2, <3>3 DEF Makes
    <3>5. CASE task[r].row.loc = k
      BY <2>2, <3>2, <3>5 DEF Named
    <3>6. CASE task[r].row.loc # k
      BY <1>8, <1>10, <3>2, <3>4, <3>6
    <3>7. QED
      BY <3>5, <3>6
  <2>3. QED
    BY <2>1, <2>2
<1>11. \/ Named(k)
       \/ k \in Requests /\ task[k].out # "committed"
       \/ b \notin DOMAIN rows
       \/ \E q \in Requests \ {k} : Overwrote(q, b, k)
  BY <1>3 DEF Inv, OrphansAreAccounted
<1>12. QED
  BY <1>5, <1>6, <1>7, <1>9, <1>10, <1>11 DEF Named

LEMMA CommitRefs == ASSUME Inv, NEW r \in Requests, Commit(r) PROVE ReferenceNamesABlob'
<1>1. /\ task[r].op \in Units /\ Makes(task[r], r)
  BY BeforeCommit
<1>2. /\ task'[r].op = task[r].op /\ task'[r].out = "committed" /\ task'[r].blob = task[r].blob
      /\ \A q \in Requests \ {r} : task'[q] = task[q]
  BY CommitIsDone DEF Done, Alike
<1>3. \A q \in Requests : task[q].out = "committed" => task'[q] = task[q]
  BY <1>2, BeforeCommit
<1>4. \A b \in DOMAIN rows \ DOMAIN rows' : task'[r].op = "delete" /\ task'[r].blob = b
  BY <1>2, CommitCases DEF CommitsRow, CommitsDelete, CommitsNothing
<1>5. task[r].op \in Creating => task[r].blob \in DOMAIN rows'
  BY CommitCases DEF CommitsRow, CommitsDelete, CommitsNothing, Creating
<1>6. ASSUME NEW e \in DOMAIN refs'
      PROVE  refs'[e] \in DOMAIN rows' \/ \E q \in Requests :
               task'[q].op = "delete" /\ task'[q].out = "committed" /\ task'[q].blob = refs'[e]
  <2>1. CASE e \in DOMAIN refs /\ refs'[e] = refs[e]
    BY <1>2, <1>3, <1>4, <2>1 DEF Inv, ReferenceNamesABlob
  <2>2. CASE task[r].edge # None /\ refs'[e] = task[r].blob
    BY <1>1, <1>5, <2>2 DEF Makes, Creating
  <2>3. QED
    BY <1>6, <2>1, <2>2 DEF Commit, With
<1>7. QED
  BY <1>6 DEF ReferenceNamesABlob

LEMMA CommitKeeps == ASSUME Inv, NEW r \in Requests, Commit(r) PROVE Inv'
<1>1. objects' = objects /\ call' = call
  BY BeforeCommit
<1>2. StoreOK'
  BY <1>1 DEF Inv, StoreOK, CallOK, InFlight, TrueAnswer
<1>3. QED
  BY <1>2, CommitTypes, CommitTasks, CommitLocks, CommitRows, CommitLost, CommitOrphans, CommitRefs DEF Inv

-----------------------------------------------------------------------------
(* The invariant holds in every state.                                     *)

LEMMA InitTypes == ASSUME Init PROVE TypeOK /\ StoreOK
<1>1. objects \in {<<>>, With(<<>>, Old, Old)} /\ provider \in Providers /\ bucket \in BOOLEAN
      /\ faults = 0 /\ call = [r \in Requests |-> NoCall]
  BY DEF Init, StorageInit
<1>2. Old \in Keys /\ 0 \in 0 .. MaxFaults /\ 0 \in 0 .. MaxTime
  BY StorageAssumption, ConstantsAreNat DEF Keys
<1>3. DOMAIN objects \subseteq Keys /\ objects \in [DOMAIN objects -> Blobs]
  <2>1. CASE objects = <<>>
    BY <2>1
  <2>2. CASE objects = With(<<>>, Old, Old)
    <3>1. objects = [x \in {Old} |-> Old]
      BY <2>2 DEF With
    <3>2. QED
      BY <1>2, <3>1 DEF Blobs
  <2>3. QED
    BY <1>1, <2>1, <2>2
<1>4. DOMAIN rows \subseteq Blobs /\ rows \in [DOMAIN rows -> Row]
      /\ \A b \in DOMAIN rows : rows[b].status \in {"pending", "processing", "ready"}
  <2>1. CASE rows = <<>>
    BY <2>1
  <2>2. ASSUME NEW row \in {CreatedPending, MarkProcessing(CreatedPending), Created("temporary", Old)},
               rows = With(<<>>, Old, row)
        PROVE  DOMAIN rows \subseteq Blobs /\ rows \in [DOMAIN rows -> Row]
               /\ \A b \in DOMAIN rows : rows[b].status \in {"pending", "processing", "ready"}
    <3>1. rows = [x \in {Old} |-> row]
      BY <2>2 DEF With
    <3>2. row \in Row /\ row.status \in {"pending", "processing", "ready"}
      BY <1>2 DEF Row, Kinds, Statuses, CreatedPending, MarkProcessing, Created
    <3>3. QED
      BY <1>2, <3>1, <3>2 DEF Blobs
  <2>3. QED
    BY <2>1, <2>2 DEF Init
<1>5. told \in [Blobs -> DOMAIN Tells]
  <2>1. Tells["none"] = "pending" /\ Tells["created"] = "ready" /\ Tells["started"] = "processing"
    BY DEF Tells
  <2>2. ASSUME NEW st \in {"pending", "processing", "ready"}
        PROVE  (CHOOSE e \in {"none", "created", "started"} : Tells[e] = st) \in {"none", "created", "started"}
    <3>1. \E e \in {"none", "created", "started"} : Tells[e] = st
      BY <2>1
    <3>2. QED
      BY <3>1
  <2>3. DOMAIN Tells = {"none", "created", "started", "completed", "failed"}
    BY DEF Tells
  <2>4. told = [b \in Blobs |-> IF b \notin DOMAIN rows THEN "none"
                               ELSE CHOOSE e \in {"none", "created", "started"} : Tells[e] = rows[b].status]
    BY DEF Init
  <2>5. \A b \in Blobs : told[b] \in {"none", "created", "started"}
    BY <1>4, <2>2, <2>4
  <2>6. QED
    BY <2>3, <2>4, <2>5
<1>6. DOMAIN refs \subseteq Edges /\ refs \in [DOMAIN refs -> Blobs]
  BY DEF Init
<1>7. call \in [Requests -> CallType] /\ task \in [Requests -> TaskType]
  BY <1>1, NoCallIsOK, NoTaskIsTask DEF Init, CallOK
<1>8. now \in 0 .. MaxTime
  BY <1>2 DEF Init
<1>9. StoreOK
  BY <1>1, <1>3, <1>7, NoCallIsOK DEF StoreOK
<1>10. QED
  BY <1>1, <1>2, <1>3, <1>4, <1>5, <1>6, <1>7, <1>8, <1>9 DEF TypeOK

LEMMA InitInv == ASSUME Init PROVE Inv
<1>1. TypeOK /\ StoreOK
  BY InitTypes
<1>2. /\ \A r \in Requests : task[r] = NoTask /\ call[r] = NoCall
      /\ refs = <<>> /\ now = 0
      /\ objects = <<>> \/ objects = With(<<>>, Old, Old)
      /\ Old \in DOMAIN objects <=> Old \in DOMAIN rows /\ rows[Old].loc = Old
  BY DEF Init, StorageInit
<1>3. DOMAIN objects \subseteq {Old} /\ \A k \in DOMAIN objects : k = Old /\ objects[k] = Old
  BY <1>2 DEF With
<1>4. /\ DOMAIN rows \subseteq {Old}
      /\ \A b \in DOMAIN rows : rows[b].loc = None \/ (rows[b].loc = Old /\ b = Old)
  BY DEF Init, With, CreatedPending, MarkProcessing, Created
<1>5. Old \notin Requests /\ Old # None
  BY StorageAssumption, BlobsAssumption DEF Keys
<1>6. RowsInv
  BY <1>4, <1>5 DEF RowsInv, Known, BlobOf
<1>7. TasksInv /\ TimeInv /\ BytesInv
  <2>1. /\ NoTask.op = "none" /\ NoTask.at = "idle" /\ NoTask.out = "none" /\ NoTask.blob = None
        /\ NoTask.base = NoRow /\ NoTask.insert = FALSE /\ NoTask.edge = None
        /\ NoTask.seen = NoRow /\ NoTask.key = {}
        /\ NoTask.issued = 0 /\ NoTask.exp = 0 /\ NoTask.age = 0 /\ NoRow.loc = None
    BY DEF NoTask, NoRow
  <2>2. \A r \in Requests : Course(NoTask, r) /\ CallOf(NoTask, NoCall, r) /\ Bytes(NoTask, NoCall, r)
    BY <2>1, NoCallIsOK DEF Course, Stage, Makes, CallOf, Bytes, Creating, Storing, Flushed
  <2>3. None \notin Requests
    BY BlobsAssumption DEF Keys
  <2>4. \A r \in Requests : Loaded(NoTask, r)
    BY <2>1, <2>3 DEF Loaded, Known, Kept
  <2>5. InTime(NoTask)
    BY <1>2, <2>1, ConstantsAreNat DEF InTime
  <2>6. QED
    BY <1>2, <2>2, <2>4, <2>5 DEF TasksInv, TimeInv, BytesInv
<1>8. ObjectsInv
  BY <1>3, <1>5 DEF ObjectsInv, BlobOf
<1>9. LocksInv
  BY <1>2 DEF LocksInv, Holds, NoTask, Flushed
<1>10. LostOnlyByPromotion
  BY <1>2, <1>4 DEF LostOnlyByPromotion
<1>11. OrphansAreAccounted
  BY <1>2, <1>3 DEF OrphansAreAccounted, Named
<1>12. ReferenceNamesABlob
  BY <1>2 DEF ReferenceNamesABlob
<1>13. QED
  BY <1>1, <1>6, <1>7, <1>8, <1>9, <1>10, <1>11, <1>12 DEF Inv

LEMMA NextInv == ASSUME Inv, [Next]_vars PROVE Inv'
<1>1. CASE UNCHANGED vars
  BY <1>1, StutterKeeps
<1>2. CASE StorageNext /\ UNCHANGED <<rows, told, refs, task, now>>
  BY <1>2, StorageKeeps
<1>3. CASE Tick
  BY <1>3, TickKeeps
<1>4. CASE \E e \in Edges : Detach(e)
  BY <1>4, DetachKeeps
<1>5. ASSUME NEW r \in Requests,
             \/ UploadTemp(r) \/ CreatePending(r) \/ Promote(r) \/ DeleteBlob(r)
             \/ StartProcessing(r) \/ FinishProcessing(r) \/ FailProcessing(r) \/ Sign(r) \/ AskUrl(r)
      PROVE  Inv'
  BY <1>5, UploadKeeps, PendingKeeps, ChangeKeeps, CallingKeeps, SignKeeps
<1>6. ASSUME NEW r \in Requests,
             \/ Stored(r) \/ StoreRefused(r) \/ Select(r) \/ Flush(r) \/ FlushFails(r) \/ Attach(r)
             \/ Unstored(r) \/ Commit(r) \/ Lost(r)
      PROVE  Inv'
  BY <1>6, StoredKeeps, RollbackKeeps, SelectKeeps, FlushKeeps, AttachKeeps, UnstoredKeeps, CommitKeeps
<1>7. ASSUME NEW r \in Requests,
             Redeem(r) \/ RedeemRefused(r) \/ OpenStream(r) \/ Respond(r) \/ Served(r) \/ GiveUrl(r)
      PROVE  Inv'
  BY <1>7, RedeemKeeps, RefusalKeeps, OpenKeeps
<1>8. QED
  BY <1>1, <1>2, <1>3, <1>4, <1>5, <1>6, <1>7 DEF Next

LEMMA AlwaysInv == Spec => []Inv
<1>1. Inv /\ [Next]_vars => Inv'
  BY NextInv
<1>2. QED
  BY <1>1, InitInv, PTL DEF Spec

(* Whatever the adapters and the units do, rows, events, references, tasks *)
(* and calls keep the shape blob's tables and the port give them: no       *)
(* status, event or answer outside their enumerations.                     *)
THEOREM TypeCorrect == Spec => []TypeOK
<1>1. Inv => TypeOK
  BY DEF Inv
<1>2. QED
  BY <1>1, AlwaysInv, PTL

(* Every answer of an adapter is one the store could have given at some    *)
(* moment of the call, though other calls move between its requests: the   *)
(* port's promise, for each of the three providers.                        *)
THEOREM AnswersAreTrueCorrect == Spec => []AnswersAreTrue
<1>1. Inv => AnswersAreTrue
  BY DEF Inv, StoreOK, CallOK, TrueAnswer, AnswersAreTrue
<1>2. QED
  BY <1>1, AlwaysInv, PTL

(* A row whose bytes are gone lost them to a promotion that deleted what   *)
(* it had copied and has not committed, or that has, and whose locator     *)
(* another unit overwrote with the one it had loaded before.               *)
THEOREM LostOnlyByPromotionCorrect == Spec => []LostOnlyByPromotion
<1>1. Inv => LostOnlyByPromotion
  BY DEF Inv
<1>2. QED
  BY <1>1, AlwaysInv, PTL

(* An object no row names belongs to a unit that has not committed, to a   *)
(* deleted blob, or to one whose locator another unit wrote over: its own  *)
(* or a stale one.                                                         *)
THEOREM OrphansAreAccountedCorrect == Spec => []OrphansAreAccounted
<1>1. Inv => OrphansAreAccounted
  BY DEF Inv
<1>2. QED
  BY <1>1, AlwaysInv, PTL

(* A finished download delivered the blob it was signed for, and was let   *)
(* in within the lifetime of its signature.                                *)
THEOREM ServedIsTheBlobCorrect == Spec => []ServedIsTheBlob
<1>1. Inv => ServedIsTheBlob
  BY DEF Inv, TasksInv, CallOf, TimeInv, InTime, ServedIsTheBlob
<1>2. QED
  BY <1>1, AlwaysInv, PTL

(* A reference names a blob that was committed with it, unless the blob    *)
(* has been deleted since.                                                 *)
THEOREM ReferenceNamesABlobCorrect == Spec => []ReferenceNamesABlob
<1>1. Inv => ReferenceNamesABlob
  BY DEF Inv
<1>2. QED
  BY <1>1, AlwaysInv, PTL

-----------------------------------------------------------------------------
(* The lifecycle of a row's status.                                        *)

StatusStep == \A b \in DOMAIN rows \cap DOMAIN rows' :
  \/ rows'[b].status = rows[b].status /\ told'[b] = told[b]
  \/ Along(rows[b].status, rows'[b].status) /\ Tells[told'[b]] = rows'[b].status
  \/ \E r \in Requests : Stale(r, b)

LEMMA OnlyACommitWrites == ASSUME [Next]_vars, \A r \in Requests : ~Commit(r) PROVE rows' = rows /\ told' = told
<1>1. ASSUME NEW r \in Requests,
             \/ UploadTemp(r) \/ CreatePending(r) \/ Promote(r) \/ DeleteBlob(r)
             \/ StartProcessing(r) \/ FinishProcessing(r) \/ FailProcessing(r) \/ Sign(r) \/ AskUrl(r)
      PROVE  rows' = rows /\ told' = told
  BY <1>1 DEF UploadTemp, CreatePending, Promote, DeleteBlob, StartProcessing, FinishProcessing, FailProcessing,
              Sign, AskUrl
<1>2. ASSUME NEW r \in Requests,
             \/ Stored(r) \/ StoreRefused(r) \/ Select(r) \/ Flush(r) \/ FlushFails(r) \/ Attach(r)
             \/ Unstored(r) \/ Lost(r)
      PROVE  rows' = rows /\ told' = told
  BY <1>2 DEF Stored, StoreRefused, Rollback, Select, Flush, FlushFails, Attach, Unstored, Lost
<1>3. ASSUME NEW r \in Requests,
             Redeem(r) \/ RedeemRefused(r) \/ OpenStream(r) \/ Respond(r) \/ Served(r) \/ GiveUrl(r)
      PROVE  rows' = rows /\ told' = told
  BY <1>3 DEF Redeem, RedeemRefused, OpenStream, Respond, Served, GiveUrl
<1>4. CASE (\E e \in Edges : Detach(e)) \/ Tick \/ UNCHANGED vars
  BY <1>4 DEF Detach, Tick, vars
<1>5. QED
  BY <1>1, <1>2, <1>3, <1>4 DEF Next

LEMMA CommitFollows == ASSUME Inv, NEW r \in Requests, Commit(r) PROVE StatusStep
<1>1. /\ task[r].at = "commit" /\ task[r].op \in Units /\ Makes(task[r], r) /\ task[r].base \in Row
      /\ task[r].blob \in Blobs /\ task'[r].out = "committed"
  BY BeforeCommit, CommitIsDone DEF Done
<1>2. told' = IF task[r].op \in DOMAIN Raises THEN [told EXCEPT ![task[r].blob] = Raises[task[r].op]] ELSE told
  BY DEF Commit
<1>3. /\ DOMAIN Raises = {"upload", "start", "finish", "fail"}
      /\ Raises["start"] = "started" /\ Raises["finish"] = "completed" /\ Raises["fail"] = "failed"
      /\ Tells["started"] = "processing" /\ Tells["completed"] = "ready" /\ Tells["failed"] = "failed"
  BY DEF Raises, Tells
<1>4. told \in [Blobs -> DOMAIN Tells] /\ DOMAIN rows \subseteq Blobs
  BY DEF Inv, TypeOK
<1>5. SUFFICES ASSUME NEW b \in DOMAIN rows \cap DOMAIN rows', ~Stale(r, b)
               PROVE  \/ rows'[b].status = rows[b].status /\ told'[b] = told[b]
                      \/ Along(rows[b].status, rows'[b].status) /\ Tells[told'[b]] = rows'[b].status
  BY DEF StatusStep
<1>6. CASE b # task[r].blob
  <2>1. told'[b] = told[b]
    BY <1>2, <1>4, <1>6
  <2>2. rows'[b] = rows[b]
    BY <1>6, CommitCases DEF CommitsRow, CommitsDelete, CommitsNothing
  <2>3. QED
    BY <2>1, <2>2
<1>7. CASE b = task[r].blob
  <2>1. task[r].op \in Changes => /\ task[r].base.status = rows[b].status
                                 /\ task[r].seen.status = rows[b].status
    BY <1>1, <1>5, <1>7 DEF Stale
  <2>2. CASE CommitsDelete(r)
    BY <1>5, <1>7, <2>2 DEF CommitsDelete
  <2>3. CASE CommitsNothing(r)
    <3>1. rows'[b].status = rows[b].status
      BY <2>3 DEF CommitsNothing
    <3>2. CASE task[r].op = "delete"
      BY <1>2, <1>3, <3>1, <3>2
    <3>3. CASE task[r].op # "delete"
      <4>1. task[r].op \in {"start", "fail"} /\ task[r].row.status = rows[b].status
        BY <2>1, <2>3, <3>3 DEF CommitsNothing, Changes
      <4>2. task[r].op = "fail" /\ task[r].row.status = "failed"
        BY <1>1, <2>1, <4>1, FieldsMade DEF Makes, CanStart, Changes
      <4>3. told'[b] = "failed" /\ Tells[told'[b]] = rows'[b].status
        BY <1>2, <1>3, <1>4, <1>7, <3>1, <4>1, <4>2
      <4>4. QED
        BY <3>1, <4>3 DEF Along
    <3>4. QED
      BY <3>2, <3>3
  <2>4. ASSUME NEW row, CommitsRow(r, row)
        PROVE  \/ rows'[b].status = rows[b].status /\ told'[b] = told[b]
               \/ Along(rows[b].status, rows'[b].status) /\ Tells[told'[b]] = rows'[b].status
    <3>1. /\ ~task[r].insert /\ rows'[b] = row
          /\ row.status = IF task[r].row.status # task[r].seen.status THEN task[r].row.status ELSE rows[b].status
      BY <1>5, <1>7, <2>4 DEF CommitsRow
    <3>2. CASE task[r].op = "promote"
      <4>1. task[r].row.status = task[r].base.status
        BY <1>1, <3>2, FieldsMade DEF Makes
      <4>2. task[r].row.status = task[r].seen.status
        BY <2>1, <3>2, <4>1 DEF Changes
      <4>3. QED
        BY <1>2, <1>3, <3>1, <3>2, <4>2
    <3>3. CASE task[r].op \in {"start", "finish", "fail"}
      <4>1. /\ task[r].op = "start" => task[r].base.status = "pending" /\ task[r].row.status = "processing"
            /\ task[r].op = "finish" => task[r].base.status = "processing" /\ task[r].row.status = "ready"
            /\ task[r].op = "fail" => task[r].row.status = "failed"
        BY <1>1, FieldsMade DEF Makes, CanStart, CanFinish
      <4>2. row.status = task[r].row.status
        BY <2>1, <3>1, <3>3 DEF Changes
      <4>3. told'[b] = Raises[task[r].op]
        BY <1>2, <1>3, <1>4, <1>7, <3>3
      <4>4. Tells[told'[b]] = row.status
        BY <1>3, <3>3, <4>1, <4>2, <4>3
      <4>5. Along(rows[b].status, row.status)
        BY <2>1, <3>3, <4>1, <4>2 DEF Along, Changes
      <4>6. QED
        BY <3>1, <4>4, <4>5
    <3>4. QED
      BY <1>1, <2>4, <3>1, <3>2, <3>3 DEF Makes, CommitsRow, Units, Creating
  <2>5. QED
    BY <2>2, <2>3, <2>4, CommitCases
<1>8. QED
  BY <1>6, <1>7

(* The status of a row moves along pending, processing, ready, or to       *)
(* failed, and the event committed with the move tells the new status,     *)
(* unless the blob changed its status after the unit that commits, a       *)
(* promotion included, had loaded it.                                      *)
THEOREM StatusFollowsLifecycleCorrect == Spec => StatusFollowsLifecycle
<1>1. Inv /\ [Next]_vars => StatusStep
  <2> SUFFICES ASSUME Inv, [Next]_vars PROVE StatusStep
    OBVIOUS
  <2>1. CASE \E r \in Requests : Commit(r)
    BY <2>1, CommitFollows
  <2>2. CASE \A r \in Requests : ~Commit(r)
    BY <2>2, OnlyACommitWrites DEF StatusStep
  <2>3. QED
    BY <2>1, <2>2
<1>2. Inv /\ [Next]_vars => [\A b \in DOMAIN rows \cap DOMAIN rows' :
        \/ rows'[b].status = rows[b].status /\ told'[b] = told[b]
        \/ Along(rows[b].status, rows'[b].status) /\ Tells[told'[b]] = rows'[b].status
        \/ \E r \in Requests : Stale(r, b)]_vars
  BY <1>1 DEF StatusStep
<1>3. QED
  BY <1>2, AlwaysInv, PTL DEF Spec, StatusFollowsLifecycle
=============================================================================
