------------------------------ MODULE S3Client ------------------------------
(***************************************************************************)
(* The client SDK of the object store (sdk/services/s3minio): one call of a   *)
(* service through it.  A helper builds the request, for an upload from a     *)
(* file that others may write meanwhile or from a multipart part that was      *)
(* read before; an adapter sends it over gRPC or HTTP; requests and replies   *)
(* get lost; and the helper turns the adapter's response into a verdict.       *)
(*                                                                         *)
(* A reply is what the adapters tell apart: [refused, code, data, junk].  Over *)
(* gRPC refused is an error of the call, over HTTP a status of 300 and up.     *)
(* The code is the code inside the reply, of which only "0" is CodeOK, or      *)
(* "none" where the body has no such field; a healthy probe says "0".  data:   *)
(* the payload is there.  junk: not JSON.                                      *)
(***************************************************************************)
EXTENDS Naturals

CONSTANTS
  MaxSize,   \* bound on the length of a file
  MaxCalls   \* bound on calls

ASSUME S3Assumption == MaxSize \in Nat \ {0} /\ MaxCalls \in Nat

Via    == {"grpc", "http"}
Upload == {"uploadFile", "uploadMultipart"}
Link   == {"presigned", "viewURL"}
Probe  == {"health", "ready"}
Fetch  == {"downloadFile", "view"}
Op     == Upload \cup Link \cup Probe \cup Fetch

Code   == {"0", "200", "other", "none"}
Reply  == [refused : BOOLEAN, code : Code, data : BOOLEAN, junk : BOOLEAN]
NoReply == [refused |-> TRUE, code |-> "other", data |-> FALSE, junk |-> TRUE]

VARIABLES
  pc,       \* how far the call is
  op, via,  \* which call it is, over which adapter
  file,     \* bytes the source holds that are still to be read
  size,     \* Size of the upload request
  content,  \* length of its Content
  reply,    \* what came back
  verdict,  \* what the helper returned last
  calls,
  \* History.
  done,     \* the service has done what this call asks
  got,      \* the bytes it stored of this call
  heard     \* the reply reached the client

s3Vars == <<pc, op, via, file, size, content, reply, verdict, calls, done, got, heard>>

S3TypeOK ==
  /\ pc \in {"idle", "open", "read", "built", "sent", "served"}
  /\ op \in Op /\ via \in Via
  /\ {file, size, content, got} \subseteq 0 .. MaxSize
  /\ reply \in Reply
  /\ verdict \in {"none", "ok", "error"}
  /\ calls \in 0 .. MaxCalls
  /\ {done, heard} \subseteq BOOLEAN

S3Init ==
  /\ pc = "idle" /\ op \in Op /\ via \in Via
  /\ file \in 0 .. MaxSize /\ size = 0 /\ content = 0
  /\ reply = NoReply /\ verdict = "none" /\ calls = 0
  /\ done = FALSE /\ got = 0 /\ heard = FALSE

Goes(from, to) == pc = from /\ pc' = to
Fails(from) == Goes(from, "idle") /\ verdict' = "error"

-----------------------------------------------------------------------------
(* The helper builds the request.                                           *)

Call(o, v) ==
  /\ Goes("idle", IF o \in Upload THEN "open" ELSE "built")
  /\ calls < MaxCalls /\ calls' = calls + 1
  /\ op' = o /\ via' = v
  /\ size' = 0 /\ content' = 0 /\ reply' = NoReply /\ verdict' = "none"
  /\ done' = FALSE /\ got' = 0 /\ heard' = FALSE
  /\ UNCHANGED file

(* BuildUploadRequestForFile: the length at Stat, for a multipart part the length its *)
(* header has, of which a part may have been read already.                             *)
Stat ==
  /\ \/ op = "uploadFile" /\ size' = file
     \/ op = "uploadMultipart" /\ size' \in file .. MaxSize
  /\ Goes("open", "read")
  /\ UNCHANGED <<op, via, file, content, reply, verdict, calls, done, got, heard>>

OpenFails ==
  /\ op = "uploadFile" /\ Fails("open")
  /\ UNCHANGED <<op, via, file, size, content, reply, calls, done, got, heard>>

(* Mutant: fewer bytes than Stat found are taken for the file. *)
ReadFileLeniently ==
  /\ op = "uploadFile"
  /\ Goes("read", "built") /\ content' = (IF file < size THEN file ELSE size)
  /\ UNCHANGED <<op, via, file, size, reply, verdict, calls, done, got, heard>>

(* io.ReadFull: a file that has become shorter is an error. *)
ReadFile ==
  /\ op = "uploadFile"
  /\ \/ file >= size /\ Goes("read", "built") /\ content' = size /\ UNCHANGED verdict
     \/ file < size /\ Fails("read") /\ UNCHANGED content
  /\ UNCHANGED <<op, via, file, size, reply, calls, done, got, heard>>

(* Of a multipart part only nothing at all is one; what there is makes the content. *)
ReadPart ==
  /\ op = "uploadMultipart"
  /\ \/ ~(file = 0 /\ size > 0) /\ Goes("read", "built") /\ content' = file /\ UNCHANGED verdict
     \/ file = 0 /\ size > 0 /\ Fails("read") /\ UNCHANGED content
  /\ UNCHANGED <<op, via, file, size, reply, calls, done, got, heard>>

(* Another process writes the file. *)
WriteFile ==
  /\ op = "uploadFile" /\ pc \in {"open", "read"}
  /\ file' \in 0 .. MaxSize
  /\ UNCHANGED <<pc, op, via, size, content, reply, verdict, calls, done, got, heard>>

-----------------------------------------------------------------------------
(* The adapter sends it; the service serves it, or something is lost on the way. *)

(* download_file and view are not there over gRPC. *)
Sends == via = "http" \/ op \notin Fetch

Send ==
  /\ \/ Sends /\ Goes("built", "sent") /\ UNCHANGED verdict
     \/ Fails("built")
  /\ UNCHANGED <<op, via, file, size, content, reply, calls, done, got, heard>>

(* How a call is answered.  What the service did: over HTTP by code 0 or 200, and a     *)
(* proxy may garble the body; an upload may come without data.  What it did not do is    *)
(* refused, by the status or, where replies have a code, by the code; or a proxy on the   *)
(* HTTP way answers in its place, 2xx with a body that says nothing.                       *)
Answers(did) ==
  IF did
  THEN {r \in Reply : /\ ~r.refused /\ r.code # "other"
                      /\ via = "grpc" => r.code = "0" /\ ~r.junk}
  ELSE {r \in Reply : \/ r.refused
                      \/ r.code = "other" /\ (via = "grpc" \/ op \in Upload \cup Link)
                      \/ r.code = "none" /\ via = "http"}

Serve(did) ==
  /\ Goes("sent", "served")
  /\ done' = did
  /\ got' = IF did /\ op \in Upload THEN content ELSE 0
  /\ reply' \in Answers(did)
  /\ UNCHANGED <<op, via, file, size, content, verdict, calls, heard>>

(* The request or the reply is lost, or the client's time is up. *)
Lose ==
  /\ \E at \in {"sent", "served"} : Fails(at)
  /\ UNCHANGED <<op, via, file, size, content, reply, calls, done, got, heard>>

-----------------------------------------------------------------------------
(* The adapters: the code and the data of the response, or an error.        *)

Response(err, code, data) == [err |-> err, code |-> code, data |-> data]

(* pb: an error of the call passes, otherwise the reply is copied, data only if there. *)
Wire == Response(reply.refused, reply.code, reply.data)

(* A probe's status becomes CodeOK or 503, and ready is health again; download_file and *)
(* view are errors.                                                                       *)
GrpcProbe == Response(Wire.err, IF Wire.code = "0" THEN "0" ELSE "other", TRUE)
OverGrpc  == IF op \in Probe THEN GrpcProbe ELSE [Wire EXCEPT !.err = @ \/ ~Sends]

(* The envelope has to be JSON; a field that is not in it is left at zero, and zero is  *)
(* CodeOK.  An upload's data is never nil.                                               *)
Decoded(code) == IF code = "none" THEN "0" ELSE code
HttpUpload == Response(reply.refused \/ reply.junk, Decoded(reply.code), TRUE)
HttpLink   == Response(reply.refused \/ reply.junk, Decoded(reply.code), reply.data)

(* Of the others only the status counts: it is an error, but for ready it is the code. *)
HttpHealth == Response(reply.refused, "0", TRUE)
HttpReady  == Response(FALSE, IF reply.refused THEN "other" ELSE "200", TRUE)
HttpFetch  == Response(reply.refused, "200", TRUE)

OverHttp ==
  CASE op \in Upload -> HttpUpload
    [] op \in Link   -> HttpLink
    [] op = "health" -> HttpHealth
    [] op = "ready"  -> HttpReady
    [] op \in Fetch  -> HttpFetch

(* Mutant: the code is not looked at. *)
AcceptsAnyCode(res) == ~res.err /\ (op \in Upload => res.data)

(* The helpers' checks: the code is CodeOK, and an upload has data; without a link the *)
(* object's name takes its place.  view has no helper.                                  *)
Accepts(res) ==
  /\ ~res.err
  /\ op # "view" => res.code = "0"
  /\ op \in Upload => res.data

Return ==
  /\ Goes("served", "idle")
  /\ verdict' = IF Accepts(IF via = "grpc" THEN OverGrpc ELSE OverHttp) THEN "ok" ELSE "error"
  /\ heard' = TRUE
  /\ UNCHANGED <<op, via, file, size, content, reply, calls, done, got>>

S3Next ==
  \/ \E o \in Op, v \in Via : Call(o, v)
  \/ Stat \/ OpenFails \/ ReadFile \/ ReadPart \/ WriteFile
  \/ Send \/ \E did \in BOOLEAN : Serve(did)
  \/ Lose \/ Return

S3Spec == S3Init /\ [][S3Next]_s3Vars

-----------------------------------------------------------------------------
(* Properties. *)

(* A 2xx answer over HTTP that says nothing of the call: no code, in a body that has to *)
(* be JSON only where a code is looked for.                                               *)
SaysNothing ==
  /\ via = "http" /\ ~reply.refused /\ reply.code = "none"
  /\ op \in Upload \cup Link => ~reply.junk

(* The helpers tell the truth: what they call a success the service has done, over both *)
(* adapters, unless an HTTP answer said nothing of it; and over gRPC they call what it   *)
(* has done, and answered, a success, unless an upload comes without data.                *)
TrueVerdict ==
  /\ verdict = "ok" => done \/ SaysNothing
  /\ verdict = "error" /\ heard /\ done /\ via = "grpc" => op \in Upload /\ ~reply.data

(* An upload from a file that somebody writes meanwhile stores as many bytes as its     *)
(* request says, or nothing.                                                              *)
NeverTruncated == done /\ op = "uploadFile" => got = size

(* What the README says, that the helpers are transport-neutral and used by both adapters: *)
(* a service that is ready is found ready.                                                   *)
ReadyWhenReady == op = "ready" /\ heard /\ done => verdict = "ok"

(* TrueVerdict without its exception: what a helper calls a success the service has done. *)
(* A missing code read as CodeOK violates it.                                               *)
OkMeansDone == verdict = "ok" => done
=============================================================================
