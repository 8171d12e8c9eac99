-------------------------- MODULE StorageAdapters ---------------------------
(***************************************************************************)
(* The object storage behind the port StorageAdapter: the local file       *)
(* system, S3 (also Aliyun OSS) and MinIO.  A method of an adapter is the  *)
(* list of requests it awaits one after another; between two of them the   *)
(* calls of other tasks and other processes move.  What the caller gets:   *)
(*    "ok"       a result (True of delete_object, a stream, a URL)         *)
(*    "false"    delete_object found nothing to delete                     *)
(*    "missing"  ObjectNotFoundError                                       *)
(*    "error"    any other StorageError                                    *)
(* The local adapter never awaits, so a method of it is one request.       *)
(***************************************************************************)
EXTENDS Naturals, Sequences

CONSTANTS Requests,   \* tasks that may call the adapter, also the names of
                      \* the object keys they mint (a uuid each)
          Old,        \* a key, and a blob, from before the run
          Providers,  \* values of STORAGE_PROVIDER the instance covers
          MaxFaults   \* bound on failed store requests and lost tasks

ASSUME StorageAssumption ==
  /\ Old \notin Requests
  /\ Providers \subseteq {"local", "s3", "minio"}
  /\ MaxFaults \in Nat

VARIABLES provider,  \* the configured one
          bucket,    \* whether the default bucket exists
          objects,   \* key -> the blob whose bytes it holds, a partial function
          call,      \* the adapter call a request is inside
          faults     \* faults so far

storageVars == <<provider, bucket, objects, call, faults>>

\* The function f with v at k.
With(f, k, v) == [x \in DOMAIN f \cup {k} |-> IF x = k THEN v ELSE f[x]]

Keys == Requests \cup {Old}
Answers == {"none", "ok", "false", "missing", "error"}

(* What may be left of a method's requests.                                *)
Plans == {<<>>, <<"write">>, <<"write", "head">>, <<"head">>, <<"read">>, <<"unlink">>, <<"remove">>,
          <<"exists">>, <<"exists", "head">>, <<"exists", "remove">>,
          <<"bucket", "write", "head">>, <<"create", "write", "head">>}

(* seen records whether the key was there, at the call and ever since: it  *)
(* is history, read by no action.                                          *)
NoCall == [op |-> "none", key |-> Old, from |-> Old, todo |-> <<>>, gone |-> "error",
           ans |-> "none", seen |-> {}]
CallType ==
  [op : {"none", "put", "delete", "url", "stream", "read", "copy"}, key : Keys, from : Keys,
   todo : Plans, gone : {"error", "false", "missing"}, ans : Answers, seen : SUBSET BOOLEAN]

-----------------------------------------------------------------------------
(* The methods: requests in order, and the answer when the object an       *)
(* existence check asks for is not there.  "except Exception" of the       *)
(* remote adapters turns their own ObjectNotFoundError into StorageError.  *)

Method(requests, gone) == [todo |-> requests, gone |-> gone]

LocalPut == Method(<<"write">>, "error")
LocalDelete == Method(<<"unlink">>, "false")
LocalUrl == Method(<<"exists">>, "missing")
LocalStream == Method(<<"exists", "head">>, "missing")
LocalRead == Method(<<"read">>, "error")
LocalCopy == Method(<<"write">>, "missing")

\* Mutant of S3Delete: no check that the object is there.
S3DeleteBlind == Method(<<"remove">>, "false")

S3Put == Method(<<"write", "head">>, "error")
S3Delete == Method(<<"exists", "remove">>, "false")
S3Url == Method(<<"exists">>, "error")
S3Stream == Method(<<"exists", "head">>, "error")
S3Read == Method(<<"read">>, "error")
S3Copy == Method(<<"write", "head">>, "error")

MinIOPut == Method(<<"bucket", "write", "head">>, "error")
MinIODelete == Method(<<"exists", "remove">>, "false")
MinIOUrl == Method(<<"exists">>, "error")
MinIOStream == Method(<<"exists", "head">>, "error")
MinIORead == Method(<<"read">>, "error")
MinIOCopy == Method(<<"bucket", "write", "head">>, "error")

Adapter ==
  [local |-> [put |-> LocalPut, delete |-> LocalDelete, url |-> LocalUrl,
              stream |-> LocalStream, read |-> LocalRead, copy |-> LocalCopy],
   s3    |-> [put |-> S3Put, delete |-> S3Delete, url |-> S3Url,
              stream |-> S3Stream, read |-> S3Read, copy |-> S3Copy],
   minio |-> [put |-> MinIOPut, delete |-> MinIODelete, url |-> MinIOUrl,
              stream |-> MinIOStream, read |-> MinIORead, copy |-> MinIOCopy]]

There(key, objs) == key \in DOMAIN objs

(* r enters a method.  from is the blob whose bytes are put, or the key a  *)
(* copy reads; skip leaves out the existence check a method begins with.   *)
Call(r, op, key, from, skip) ==
  LET m == Adapter[provider][op] IN
  /\ call' = [call EXCEPT ![r] =
       [op |-> op, key |-> key, from |-> from, gone |-> m.gone, ans |-> "none",
        todo |-> IF skip /\ Head(m.todo) = "exists" THEN Tail(m.todo) ELSE m.todo,
        seen |-> {There(key, objects)}]]
  /\ UNCHANGED <<provider, bucket, objects, faults>>

Answered(r) == call[r].ans # "none"

-----------------------------------------------------------------------------
(* The requests.                                                           *)

At(r, request) == call[r].todo # <<>> /\ Head(call[r].todo) = request

Present(r) == There(call[r].key, objects)

(* r's request leaves the store with objs, and r with todo, ans and, when  *)
(* it read a body, the bytes.                                              *)
Outcome(r, objs, todo, ans) ==
  /\ objects' = objs
  /\ call' = [q \in Requests |->
       LET c == IF q # r THEN call[q]
                ELSE [call[r] EXCEPT !.todo = todo, !.ans = ans,
                        !.from = IF At(r, "read") /\ Present(r) THEN objects[call[r].key] ELSE @]
       IN  IF call[q].todo = <<>> THEN c
           ELSE [c EXCEPT !.seen = @ \cup {There(c.key, objs)}]]

Answer(r, objs, ans) == Outcome(r, objs, <<>>, ans)

(* The next request of the method, or its result after the last.           *)
Proceed(r, objs) ==
  LET rest == Tail(call[r].todo) IN Outcome(r, objs, rest, IF rest = <<>> THEN "ok" ELSE "none")

(* head_bucket: on a 404 the bucket is created.                            *)
HeadBucket(r) ==
  /\ At(r, "bucket")
  /\ IF bucket THEN Proceed(r, objects)
     ELSE Outcome(r, objects, [call[r].todo EXCEPT ![1] = "create"], "none")
  /\ UNCHANGED <<provider, bucket, faults>>

(* create_bucket, which the server refuses when another call was faster.   *)
CreateBucket(r) ==
  /\ At(r, "create")
  /\ bucket' = TRUE
  /\ IF bucket THEN Answer(r, objects, "error") ELSE Proceed(r, objects)
  /\ UNCHANGED <<provider, faults>>

(* put_object and copy_object: the server needs the bucket, and the source *)
(* of a copy.  The local adapter makes the directory it writes to.         *)
Writable(r) == (bucket \/ provider = "local") /\ (call[r].op = "copy" => call[r].from \in DOMAIN objects)
Written(r) ==
  With(objects, call[r].key, IF call[r].op = "copy" THEN objects[call[r].from] ELSE call[r].from)

Write(r) ==
  /\ At(r, "write")
  /\ IF Writable(r) THEN Proceed(r, Written(r)) ELSE Answer(r, objects, call[r].gone)
  /\ UNCHANGED <<provider, bucket, faults>>

(* The head_object after a write, or before a stream is opened: a stream   *)
(* reports the 404 as ObjectNotFoundError.                                 *)
HeadObject(r) ==
  /\ At(r, "head")
  /\ IF Present(r) THEN Proceed(r, objects)
     ELSE Answer(r, objects, IF call[r].op = "stream" THEN "missing" ELSE "error")
  /\ UNCHANGED <<provider, bucket, faults>>

(* object_exists, called by another method of the adapter.                 *)
ObjectExists(r) ==
  /\ At(r, "exists")
  /\ IF Present(r) THEN Proceed(r, objects) ELSE Answer(r, objects, call[r].gone)
  /\ UNCHANGED <<provider, bucket, faults>>

Without(key) == [k \in DOMAIN objects \ {key} |-> objects[k]]

(* delete_object of the server succeeds whether or not the key is there.   *)
Remove(r) ==
  /\ At(r, "remove")
  /\ Proceed(r, Without(call[r].key))
  /\ UNCHANGED <<provider, bucket, faults>>

(* exists() and unlink() of the local adapter. *)
Unlink(r) ==
  /\ At(r, "unlink")
  /\ IF Present(r) THEN Proceed(r, Without(call[r].key)) ELSE Answer(r, objects, "false")
  /\ UNCHANGED <<provider, bucket, faults>>

(* The body of a stream is requested when the response is written, not     *)
(* when the stream was opened.                                             *)
ReadBody(r) ==
  /\ At(r, "read")
  /\ IF Present(r) THEN Proceed(r, objects) ELSE Answer(r, objects, "error")
  /\ UNCHANGED <<provider, bucket, faults>>

(* A request fails: the store is down, or its answer is lost after it took *)
(* effect; a refusal of head_bucket other than 404 is swallowed.           *)
StoreFails(r) ==
  /\ faults < MaxFaults
  /\ call[r].todo # <<>>
  /\ faults' = faults + 1
  /\ \/ Answer(r, objects, "error")
     \/ At(r, "bucket") /\ Proceed(r, objects)
     \/ At(r, "write") /\ Writable(r) /\ Answer(r, Written(r), "error")
     \/ At(r, "remove") /\ Answer(r, Without(call[r].key), "error")
  /\ UNCHANGED <<provider, bucket>>

StorageInit ==
  /\ provider \in Providers
  /\ bucket \in BOOLEAN
  /\ objects \in {<<>>, With(<<>>, Old, Old)}
  /\ DOMAIN objects # {} => bucket
  /\ call = [r \in Requests |-> NoCall]
  /\ faults = 0

StorageNext == \E r \in Requests :
  \/ HeadBucket(r) \/ CreateBucket(r) \/ Write(r) \/ HeadObject(r)
  \/ ObjectExists(r) \/ Remove(r) \/ Unlink(r) \/ ReadBody(r) \/ StoreFails(r)

-----------------------------------------------------------------------------
(* What the port promises whichever adapter is configured: an answer is    *)
(* one the store could have given at some moment of the call.  A result    *)
(* needs the object to have been there, a refusal needs it to have been    *)
(* absent, and an object reported deleted was there and is gone.           *)
AnswersAreTrue == \A r \in Requests :
  LET c == call[r] IN
  /\ c.ans = "ok" => TRUE \in c.seen
  /\ c.ans = "false" => FALSE \in c.seen
  /\ c.ans = "missing" /\ c.op # "copy" => FALSE \in c.seen
  /\ c.op = "delete" /\ c.ans = "ok" => FALSE \in c.seen
=============================================================================
