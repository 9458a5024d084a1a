----------------------------- MODULE PaperlessFetch -----------------------------
(***************************************************************************)
(* HTTPFetcher.Fetch of integrations/paperless/agent/http_fetcher.go: one  *)
(* call is up to three requests to a Paperless server that others go on    *)
(* editing: for an archive its metadata, the download, and the metadata    *)
(* again.  The server keeps no history: what a request sees is the         *)
(* document as it is at that instant.                                      *)
(***************************************************************************)
EXTENDS Integers

CONSTANTS Contents,      \* byte strings a document may have
          Oversized,     \* those beyond MaxBytes
          NoContent, Deleted,
          Malformed,     \* a version that is not a lowercase SHA-256
          Sha256(_), Md5(_),
          MaxEdits       \* bound: so often the document is edited

\* Two byte strings with one SHA-256 are one byte string; MD5 promises nothing.
ASSUME Sha256Assumption == \A c, d \in Contents : Sha256(c) = Sha256(d) => c = d

VARIABLES document,  \* the server's document: its files, or Deleted
          edits,     \* how often it was edited
          request,   \* what the caller asked for
          pc,        \* the next request of the call
          checksum,  \* the archive checksum of the first metadata
          answer,    \* status and bytes returned
          during,    \* documents there were since the call began
          after      \* documents there were since the download

vars == <<document, edits, request, pc, checksum, answer, during, after>>

Files == [original : Contents, archive : Contents \cup {NoContent}]
Requests == [representation : {"original", "archive", "thumbnail"},
             version : {Sha256(c) : c \in Contents} \cup {Malformed}]
NoAnswer == [status |-> "none", bytes |-> NoContent]
RequestErrors == {"unauthorized", "failed"}

Valid(r) == r.representation \in {"original", "archive"} /\ r.version # Malformed

\* The download endpoint serves the archive only if there is one, else the
\* original; original=true asks for the original whatever there is.
Served(d, query) == IF query # "original=true" /\ d.archive # NoContent THEN d.archive ELSE d.original
Query_Dropped(r) == ""
Query(r) == IF r.representation = "original" THEN "original=true" ELSE ""

Init ==
  /\ document \in Files
  /\ edits = 0
  /\ request \in Requests
  /\ pc = "start"
  /\ checksum = NoContent
  /\ answer = NoAnswer
  /\ during = {}
  /\ after = {}

Goto(step) == pc' = step /\ UNCHANGED answer
Answer(status, bytes) == pc' = "end" /\ answer' = [status |-> status, bytes |-> bytes]
Refuse(status) == Answer(status, NoContent)

Start ==
  /\ pc = "start"
  /\ during' = {document}
  /\ IF ~Valid(request) THEN Refuse("invalid_config")
     ELSE Goto(IF request.representation = "archive" THEN "metadata" ELSE "download")
  /\ UNCHANGED <<document, edits, request, checksum, after>>

\* getBytes may fail at any of the requests, and then so does the call.
RequestFails ==
  /\ pc \in {"metadata", "download", "again"}
  /\ \/ \E e \in RequestErrors : Refuse(e)
     \/ document = Deleted /\ Refuse("not_found")
  /\ UNCHANGED <<document, edits, request, checksum, during, after>>

Metadata ==
  /\ pc = "metadata" /\ document # Deleted
  /\ IF document.archive = NoContent
     THEN Refuse("archive_missing") /\ UNCHANGED checksum
     ELSE Goto("download") /\ checksum' = Md5(document.archive)
  /\ UNCHANGED <<document, edits, request, during, after>>

\* The bytes must have the version asked for, and those of an archive the
\* checksum of the metadata.
Matches_LabelOnly(bytes) == request.representation = "archive" => Md5(bytes) = checksum
Matches(bytes) ==
  /\ Sha256(bytes) = request.version
  /\ request.representation = "archive" => Md5(bytes) = checksum

Download_NoSecondLook ==
  LET bytes == Served(document, Query(request)) IN
  /\ pc = "download" /\ document # Deleted
  /\ IF bytes \in Oversized THEN Refuse("oversized")
     ELSE IF ~Matches(bytes) THEN Refuse("version_changed") ELSE Answer("ok", bytes)
  /\ after' = {document}
  /\ UNCHANGED <<document, edits, request, checksum, during>>
Download ==
  LET bytes == Served(document, Query(request)) IN
  /\ pc = "download" /\ document # Deleted
  /\ \/ bytes \in Oversized /\ Refuse("oversized")
     \/ bytes \notin Oversized /\ ~Matches(bytes) /\ Refuse("version_changed")
     \/ /\ bytes \notin Oversized /\ Matches(bytes)
        /\ IF request.representation = "original" THEN Answer("ok", bytes)
           ELSE pc' = "again" /\ answer' = [answer EXCEPT !.bytes = bytes]
  /\ after' = {document}
  /\ UNCHANGED <<document, edits, request, checksum, during>>

Again ==
  /\ pc = "again" /\ document # Deleted
  /\ IF document.archive = NoContent THEN Refuse("archive_missing")
     ELSE IF Md5(document.archive) # checksum THEN Refuse("version_changed")
     ELSE Answer("ok", answer.bytes)
  /\ UNCHANGED <<document, edits, request, checksum, during, after>>

\* Others upload, run the OCR again, drop the archive or delete the document.
Edit ==
  /\ edits < MaxEdits /\ document # Deleted /\ pc # "end"
  /\ document' \in (Files \cup {Deleted}) \ {document}
  /\ edits' = edits + 1
  /\ during' = IF pc = "start" THEN during ELSE during \cup {document'}
  /\ after' = IF pc = "again" THEN after \cup {document'} ELSE after
  /\ UNCHANGED <<request, pc, checksum, answer>>

Next == Start \/ RequestFails \/ Metadata \/ Download \/ Again \/ Edit

Spec == Init /\ [][Next]_vars

--------------------------------------------------------------------------------
(* Properties *)

Held(D, representation) ==
  {d[representation] : d \in D \ {Deleted}} \ {NoContent}
Alike(c, C) == \E x \in C : Md5(x) = Md5(c)

(* What Fetch returns has the version asked for and is what the document had
   under that version at one instant of the call,
   however the document is edited meanwhile. *)
FetchedWasThere ==
  answer.status = "ok" =>
    /\ Sha256(answer.bytes) = request.version
    /\ \E d \in during \ {Deleted} :
         \/ answer.bytes = d.original
         \/ request.representation = "archive" /\ answer.bytes = d.archive

(* What Fetch returns as an archive has the MD5 of an archive the document still
   had once the bytes had been served: an archive that was replaced or dropped
   before is not returned, and of what the server fell back to only an original
   that cannot be told, by its MD5, from an archive that was there afterwards. *)
ArchiveStillThere ==
  answer.status = "ok" /\ request.representation = "archive" =>
    Alike(answer.bytes, Held(after, "archive"))

(* A refusal that blames the document is deserved: if the representation asked
   for has the version asked for all along, Fetch does not answer that it
   changed, is missing or is gone. *)
RefusalsDeserved ==
  answer.status \in {"version_changed", "archive_missing", "not_found"} =>
    \E d \in during :
      \/ d = Deleted
      \/ d[request.representation] = NoContent
      \/ Sha256(d[request.representation]) # request.version
================================================================================
