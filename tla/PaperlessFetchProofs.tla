-------------------------- MODULE PaperlessFetchProofs --------------------------
(***************************************************************************)
(* What HTTPFetcher.Fetch returns and refuses is right however often the   *)
(* document is edited between its requests, for any contents: CallSound    *)
(* is inductive, and the three properties are its last three conjuncts.    *)
(***************************************************************************)
EXTENDS PaperlessFetch, TLAPS

Running == {"metadata", "download", "again"}

Statuses == RequestErrors \cup {"none", "ok", "invalid_config", "oversized", "not_found",
                                "archive_missing", "version_changed"}

\* Everything has its type.
Typed ==
  /\ document \in Files \cup {Deleted}
  /\ request \in Requests
  /\ pc \in Running \cup {"start", "end"}
  /\ answer \in [status : Statuses, bytes : Contents \cup {NoContent}]
  /\ during \subseteq Files \cup {Deleted}
  /\ after \subseteq Files \cup {Deleted}

\* Only a finished call has an answer, and only a valid request gets further
\* than the first check; the sets of documents follow the document.
Progress ==
  /\ pc # "end" => answer.status = "none"
  /\ pc \in Running => Valid(request) /\ document \in during
  /\ pc = "metadata" => request.representation = "archive"
  /\ pc = "again" => document \in after /\ request.representation = "archive"

\* The checksum is of an archive the document had since the call began.
ChecksumSeen ==
  pc \in {"download", "again"} /\ request.representation = "archive" =>
    \E d \in during \cap Files : d.archive \in Contents /\ checksum = Md5(d.archive)

\* What was downloaded before the second look has the version asked for and the
\* checksum, and was the document's when it was served.
BytesSeen ==
  pc = "again" =>
    /\ answer.bytes \in Contents
    /\ Matches(answer.bytes)
    /\ \E d \in during \ {Deleted} : answer.bytes \in {d.original, d.archive}

CallSound ==
  /\ Typed /\ Progress /\ ChecksumSeen /\ BytesSeen
  /\ FetchedWasThere /\ ArchiveStillThere /\ RefusalsDeserved

LEMMA InitSound == Init => CallSound
  BY DEF Init, CallSound, Typed, Statuses, Progress, ChecksumSeen, BytesSeen, NoAnswer, Running,
         FetchedWasThere, ArchiveStillThere, RefusalsDeserved

(* The first check refuses or sends the call to its first request. *)
LEMMA StartSound == CallSound /\ Start => CallSound'
  BY DEF CallSound, Typed, Statuses, Progress, ChecksumSeen, BytesSeen, Running, FetchedWasThere,
         ArchiveStillThere, RefusalsDeserved, Start, Refuse, Answer, Goto, Valid, Requests, Matches

(* A request that fails blames the document only if it is gone. *)
LEMMA FailureSound == CallSound /\ RequestFails => CallSound'
  BY DEF CallSound, Typed, Statuses, Progress, ChecksumSeen, BytesSeen, Running, FetchedWasThere,
         ArchiveStillThere, RefusalsDeserved, RequestFails, RequestErrors, Refuse, Answer

(* The first metadata give the checksum of the archive there is, or blame the
   document for having none. *)
LEMMA MetadataSound == CallSound /\ Metadata => CallSound'
<1> SUFFICES ASSUME CallSound, Metadata PROVE CallSound'
  OBVIOUS
<1> USE DEF CallSound, Typed, Statuses, Progress, Metadata, Running
<1>1. document \in Files /\ document \in during /\ request.representation = "archive"
  OBVIOUS
<1>2. CASE document.archive = NoContent
  BY <1>1, <1>2 DEF ChecksumSeen, BytesSeen, FetchedWasThere, ArchiveStillThere,
                    RefusalsDeserved, Refuse, Answer
<1>3. CASE document.archive # NoContent
  BY <1>1, <1>3 DEF ChecksumSeen, BytesSeen, FetchedWasThere, ArchiveStillThere,
                    RefusalsDeserved, Goto, Files
<1>4. QED
  BY <1>2, <1>3

(* The download gives the document's bytes, the archive's only if there is one. *)
LEMMA ServedIs ==
  ASSUME NEW d \in Files, Valid(request), request \in Requests
  PROVE  LET bytes == Served(d, Query(request)) IN
         /\ bytes \in Contents
         /\ request.representation = "original" => bytes = d.original
         /\ request.representation = "archive" =>
              bytes = IF d.archive # NoContent THEN d.archive ELSE d.original
  BY DEF Files, Served, Query, Valid, Requests

(* Bytes that match neither blame the document unjustly. *)
LEMMA MismatchDeserved ==
  ASSUME CallSound, pc = "download", document # Deleted,
         ~Matches(Served(document, Query(request)))
  PROVE  \E d \in during :
           \/ d = Deleted
           \/ d[request.representation] = NoContent
           \/ Sha256(d[request.representation]) # request.version
<1> DEFINE bytes == Served(document, Query(request))
<1>1. /\ document \in Files /\ document \in during /\ Valid(request) /\ request \in Requests
      /\ request.representation \in {"original", "archive"}
  BY DEF CallSound, Typed, Progress, Running, Valid
<1>2. CASE request.representation = "original"
  BY <1>1, <1>2, ServedIs DEF Matches
<1>3. CASE request.representation = "archive" /\ document.archive = NoContent
  BY <1>1, <1>3
<1>4. CASE request.representation = "archive" /\ document.archive # NoContent
  <2>1. bytes = document.archive /\ bytes \in Contents
    BY <1>1, <1>4, ServedIs
  <2>2. CASE Sha256(bytes) # request.version
    BY <1>1, <1>4, <2>1, <2>2
  <2>3. CASE Sha256(bytes) = request.version
    <3>1. Md5(bytes) # checksum
      BY <1>4, <2>3 DEF Matches
    <3>2. PICK d \in during \cap Files : d.archive \in Contents /\ checksum = Md5(d.archive)
      BY <1>4 DEF CallSound, ChecksumSeen
    <3>3. Sha256(d.archive) # Sha256(bytes)
      BY <2>1, <3>1, <3>2, Sha256Assumption
    <3>4. QED
      BY <1>4, <2>3, <3>2, <3>3
  <2>4. QED
    BY <2>2, <2>3
<1>5. QED
  BY <1>1, <1>2, <1>3, <1>4

LEMMA DownloadSound == CallSound /\ Download => CallSound'
<1> SUFFICES ASSUME CallSound, Download PROVE CallSound'
  OBVIOUS
<1> DEFINE bytes == Served(document, Query(request))
<1>1. /\ document \in Files /\ document # Deleted /\ document \in during
      /\ Valid(request) /\ request \in Requests /\ answer.status = "none"
      /\ answer \in [status : Statuses, bytes : Contents \cup {NoContent}]
      /\ request.representation \in {"original", "archive"} /\ pc = "download"
  BY DEF CallSound, Typed, Progress, Running, Download, Valid
<1>2. bytes \in Contents /\ bytes \in {document.original, document.archive}
  BY <1>1, ServedIs
<1>3. UNCHANGED <<document, request, checksum, during>> /\ after' = {document}
  BY DEF Download
<1>4. Typed' /\ (ChecksumSeen' \/ pc' # "again")
  BY <1>1, <1>2, <1>3 DEF CallSound, Typed, ChecksumSeen, Download, Refuse, Answer, Running, Statuses
<1>5. CASE Refuse("oversized")
  BY <1>1, <1>3, <1>4, <1>5 DEF Refuse, Answer, CallSound, Progress, Running, ChecksumSeen,
        BytesSeen, FetchedWasThere, ArchiveStillThere, RefusalsDeserved
<1>6. CASE Refuse("version_changed") /\ ~Matches(bytes)
  BY <1>1, <1>3, <1>4, <1>6, MismatchDeserved DEF Refuse, Answer, CallSound, Progress, Running,
        ChecksumSeen, BytesSeen, FetchedWasThere, ArchiveStillThere, RefusalsDeserved
<1>7. CASE Matches(bytes) /\ request.representation = "original" /\ Answer("ok", bytes)
  <2>1. bytes = document.original
    BY <1>1, <1>7, ServedIs
  <2>2. QED
    BY <1>1, <1>3, <1>4, <1>7, <2>1 DEF Answer, CallSound, Progress, Running, ChecksumSeen,
          BytesSeen, FetchedWasThere, ArchiveStillThere, RefusalsDeserved, Matches
<1>8. CASE /\ Matches(bytes) /\ request.representation = "archive"
           /\ pc' = "again" /\ answer' = [answer EXCEPT !.bytes = bytes]
  <2>1. answer'.status = answer.status /\ answer'.bytes = bytes
    BY <1>1, <1>8
  <2>2. QED
    BY <1>1, <1>2, <1>3, <1>4, <1>8, <2>1 DEF CallSound, Progress, Running, ChecksumSeen,
          BytesSeen, FetchedWasThere, ArchiveStillThere, RefusalsDeserved, Matches
<1>9. QED
  BY <1>1, <1>5, <1>6, <1>7, <1>8 DEF Download

(* The second look finds an archive with the checksum of the bytes, or blames the
   document for one that has not the version asked for. *)
LEMMA AgainSound == CallSound /\ Again => CallSound'
<1> SUFFICES ASSUME CallSound, Again PROVE CallSound'
  OBVIOUS
<1>1. /\ document \in Files /\ document # Deleted /\ document \in during /\ document \in after
      /\ request.representation = "archive" /\ pc = "again"
      /\ answer.bytes \in Contents /\ Matches(answer.bytes)
  BY DEF CallSound, Typed, Progress, BytesSeen, Running, Again
<1>2. UNCHANGED <<document, request, checksum, during, after>> /\ pc' = "end" /\ Typed'
  BY DEF Again, Refuse, Answer, CallSound, Typed, Running, Statuses
<1>3. Progress' /\ ChecksumSeen' /\ BytesSeen'
  BY <1>2 DEF Progress, ChecksumSeen, BytesSeen, Running
<1>4. CASE document.archive = NoContent /\ Refuse("archive_missing")
  BY <1>1, <1>2, <1>3, <1>4 DEF Refuse, Answer, CallSound, FetchedWasThere, ArchiveStillThere,
        RefusalsDeserved
<1>5. CASE document.archive # NoContent /\ Md5(document.archive) # checksum
           /\ Refuse("version_changed")
  <2>1. Sha256(document.archive) # request.version
    BY <1>1, <1>5, Sha256Assumption DEF Matches, Files
  <2>2. QED
    BY <1>1, <1>2, <1>3, <1>5, <2>1 DEF Refuse, Answer, CallSound, FetchedWasThere,
          ArchiveStillThere, RefusalsDeserved
<1>6. CASE document.archive # NoContent /\ Md5(document.archive) = checksum
           /\ Answer("ok", answer.bytes)
  <2>1. answer'.status = "ok" /\ answer'.bytes = answer.bytes
    BY <1>6 DEF Answer
  <2>2. PICK d \in during \ {Deleted} : answer.bytes \in {d.original, d.archive}
    BY <1>1 DEF CallSound, BytesSeen
  <2>3. FetchedWasThere'
    BY <1>1, <1>2, <2>1, <2>2 DEF FetchedWasThere, Matches
  <2>4. document.archive \in Held(after, "archive")
    BY <1>1, <1>6 DEF Held
  <2>5. Md5(document.archive) = Md5(answer.bytes)
    BY <1>1, <1>6 DEF Matches
  <2>6. ArchiveStillThere'
    BY <1>2, <2>1, <2>4, <2>5 DEF ArchiveStillThere, Alike
  <2>7. QED
    BY <1>2, <1>3, <2>1, <2>3, <2>6 DEF CallSound, RefusalsDeserved
<1>7. QED
  BY <1>1, <1>4, <1>5, <1>6 DEF Again

(* An edit adds to what there was and touches no finished call. *)
LEMMA EditSound == CallSound /\ Edit => CallSound'
<1> SUFFICES ASSUME CallSound, Edit PROVE CallSound'
  OBVIOUS
<1>1. /\ UNCHANGED <<request, pc, checksum, answer>> /\ answer.status = "none"
      /\ during \subseteq during'
  BY DEF Edit, CallSound, Progress
<1>2. Typed' /\ Progress'
  BY <1>1 DEF CallSound, Typed, Progress, Edit, Running, Valid
<1>3. ChecksumSeen' /\ BytesSeen'
  BY <1>1 DEF CallSound, ChecksumSeen, BytesSeen, Matches
<1>4. QED
  BY <1>1, <1>2, <1>3 DEF CallSound, FetchedWasThere, ArchiveStillThere, RefusalsDeserved

(* CallSound holds throughout every call. *)
THEOREM FetchSound == Spec => []CallSound
<1>1. CallSound /\ UNCHANGED vars => CallSound'
  BY DEF vars, CallSound, Typed, Progress, ChecksumSeen, BytesSeen, Matches, Valid,
         FetchedWasThere, ArchiveStillThere, RefusalsDeserved, Held, Alike
<1>2. CallSound /\ [Next]_vars => CallSound'
  BY <1>1, StartSound, FailureSound, MetadataSound, DownloadSound, AgainSound, EditSound DEF Next
<1>3. QED
  BY <1>2, InitSound, PTL DEF Spec

(* The bytes Fetch returns are the document's, in the version asked for. *)
THEOREM FetchedAlwaysWasThere == Spec => []FetchedWasThere
<1>1. CallSound => FetchedWasThere
  BY DEF CallSound
<1>2. QED
  BY <1>1, FetchSound, PTL

(* What is returned as an archive has the MD5 of an archive the document had after
   the bytes were served, so Fetch's second look at the metadata is not in vain. *)
THEOREM ArchiveAlwaysStillThere == Spec => []ArchiveStillThere
<1>1. CallSound => ArchiveStillThere
  BY DEF CallSound
<1>2. QED
  BY <1>1, FetchSound, PTL

(* Fetch blames the document only when it has changed, is missing or is gone. *)
THEOREM RefusalsAlwaysDeserved == Spec => []RefusalsDeserved
<1>1. CallSound => RefusalsDeserved
  BY DEF CallSound
<1>2. QED
  BY <1>1, FetchSound, PTL
================================================================================
