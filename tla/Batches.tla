-------------------------------- MODULE Batches --------------------------------
(***************************************************************************)
(* Who delivers many files at once, and what they report: the upload of    *)
(* client.py in batches, with the ingest endpoint that answers it, and the *)
(* directory runs of ingest_corpus.py and ingest_manifest.py.              *)
(*                                                                         *)
(* A batch is sent again when no usable answer comes, while the server may *)
(* be at work on it still.  What happens to one document is short here,    *)
(* its steps are in Lifecycle; nothing is deleted.                         *)
(***************************************************************************)
EXTENDS Integers, Sequences, FiniteSets

CONSTANTS Uploader, File, Bytes,   \* uploading clients; names of files; contents
          KindOf, OcrOf,         \* what a content is, and what OCR makes of it
          Case, NoCase,          \* dossiers
          Url, NoUrl,            \* provenance
          Manifests,                \* manifests: file -> its url and what it was hashed from
          Orders,                \* what a client is told: files, dossier, attempts
          FirstDisk, Edits, RunCase,   \* the contents, the changes on disk and the runs looked at
          BatchSize, MaxEdits, MaxFaults, MaxHandlers, MaxRegistered   \* bounds but the first

ASSUME BatchesAssumption ==
  /\ KindOf \in [Bytes -> {"digital", "scan", "broken", "empty"}]
  /\ OcrOf \in [Bytes -> Bytes] /\ \A k \in Bytes : KindOf[k] = "scan" => KindOf[OcrOf[k]] = "digital"
  /\ NoCase \notin Case /\ NoUrl \notin Url /\ "none" \notin Uploader
  /\ BatchSize \in Nat \ {0} /\ MaxRegistered \in Nat /\ MaxHandlers \in Nat
  /\ FirstDisk \subseteq [File -> Bytes] /\ Edits \subseteq File \X Bytes /\ RunCase \subseteq Case
  /\ \A o \in Orders : o[1] \in Seq(File) /\ o[2] \in Case \cup {NoCase} /\ o[3] \in Nat \ {0}

DocId   == 1 .. MaxRegistered
Handler == 1 .. MaxHandlers

VARIABLES
  disk,      \* the content of each file, as it is now
  archive,   \* the documents: key, state, provenance at registration, dossiers
  found,     \* the documents the index has
  scopes,    \* the dossiers the entry of a document carries
  handlers,  \* the ingest requests the server is at work on
  uploads,   \* what each client is doing
  job,       \* a directory run
  edits, faults

bvars == <<disk, archive, found, scopes, handlers, uploads, job, edits, faults>>

Unused == [key |-> "none", state |-> "none", source |-> NoUrl, cases |-> {}]
Free   == [pc |-> "free", caller |-> "none", todo |-> <<>>, case |-> NoCase, doc |-> 0, results |-> <<>>]
Silent == [pc |-> "idle", files |-> <<>>, case |-> NoCase, retries |-> 1, at |-> 1, attempt |-> 1, sent |-> <<>>,
           indexed |-> 0, skipped |-> 0, failures |-> 0, good |-> {}]
NoJob  == [pc |-> "idle", kind |-> "none", manifest |-> <<>>, case |-> NoCase, contents |-> <<>>,
           todo |-> {}, file |-> "none", doc |-> 0, outcomes |-> {}]

BInit ==
  /\ disk \in FirstDisk
  /\ archive = [d \in DocId |-> Unused] /\ found = {} /\ scopes = [d \in DocId |-> {}]
  /\ handlers = [h \in Handler |-> Free] /\ uploads = [c \in Uploader |-> Silent]
  /\ job = NoJob /\ edits = 0 /\ faults = 0

-----------------------------------------------------------------------------
(* A document, in short. *)

LiveWith(k) == {d \in DocId : archive[d].key = k /\ archive[d].state \notin {"none", "superseded"}}
InIndex(k)  == {d \in found : archive[d].key = k}
Fresh == CHOOSE d \in DocId : archive[d].state = "none" /\ \A e \in DocId : archive[e].state = "none" => d <= e

\* ingest: the live document of these bytes, whose provenance stays what it
\* was, or a new one; and the dossier.
Registers(k, case, url, d) ==
  IF LiveWith(k) # {}
  THEN d \in LiveWith(k) /\ archive' = [archive EXCEPT ![d].cases = @ \cup {case}]
  ELSE /\ Unused \in {archive[e] : e \in DocId} /\ d = Fresh
       /\ archive' = [archive EXCEPT ![d] = [key |-> k, state |-> "registered", source |-> url, cases |-> {case}]]

\* process: on from the state it finds.
After(d) ==
  IF archive[d].state \notin {"registered", "extractable"} THEN archive[d].state
  ELSE CASE KindOf[archive[d].key] = "digital" -> "indexed"
         [] KindOf[archive[d].key] = "scan"    -> "unprocessable_ocr"
         [] OTHER                              -> "failed"
Indexes(d) ==
  IF After(d) = "indexed" /\ archive[d].state # "indexed"
  THEN found' = found \cup {d} /\ scopes' = [scopes EXCEPT ![d] = archive[d].cases]
  ELSE UNCHANGED <<found, scopes>>
Processes(d) == archive' = [archive EXCEPT ![d].state = After(d)] /\ Indexes(d)
\* It fails or ends halfway: at most the entry is there.
ProcessBreaks(d) == UNCHANGED archive /\ (Indexes(d) \/ UNCHANGED <<found, scopes>>)
\* set_dossiers: an entry that is there gets the dossiers of its document.
Tells(d) ==
  /\ scopes' = IF d \in found THEN [scopes EXCEPT ![d] = archive[d].cases] ELSE scopes
  /\ UNCHANGED <<archive, found>>

\* recover: the document gets the key of its OCR, or gives way to its owner.
Gives(d, owner) ==
  archive' = [archive EXCEPT ![owner].cases = @ \cup archive[d].cases,
                             ![d].cases = {}, ![d].state = "superseded"]
Rekeys(d) ==
  /\ LiveWith(OcrOf[archive[d].key]) = {}
  /\ archive' = [archive EXCEPT ![d].key = OcrOf[@], ![d].state = "extractable"]

-----------------------------------------------------------------------------
(* The endpoint: one file after the other. *)

Fault == faults < MaxFaults /\ faults' = faults + 1
Turn(h, r) == handlers' = [handlers EXCEPT ![h] = r]
\* The result of a file.
Result(h, result) ==
  Turn(h, [handlers[h] EXCEPT !.pc = "next", !.doc = 0, !.todo = Tail(@), !.results = Append(@, result)])

\* Does the index have this content?
TakeFile(h) ==
  LET r == handlers[h] IN
  /\ r.pc = "next" /\ r.todo # <<>>
  /\ IF KindOf[Head(r.todo)] = "empty" THEN Result(h, "error")
     ELSE Turn(h, [r EXCEPT !.pc = IF InIndex(Head(r.todo)) # {} THEN "add" ELSE "register"])
  /\ UNCHANGED <<disk, archive, found, scopes, uploads, job, edits, faults>>

\* It does: the document gets the dossier only, and is committed.
AddFile(h) ==
  LET r == handlers[h] IN
  /\ r.pc = "add"
  /\ \E d \in LiveWith(Head(r.todo)) :
       /\ archive' = [archive EXCEPT ![d].cases = @ \cup {r.case}]
       /\ IF r.case \in archive[d].cases THEN Result(h, "skipped")
          ELSE Turn(h, [r EXCEPT !.pc = "tell", !.doc = d])
  /\ UNCHANGED <<disk, found, scopes, uploads, job, edits, faults>>

\* After the commit, the entry of the document that gained a dossier.
Told(pc) == IF pc = "tell" THEN "added_to_dossier" ELSE "superseded"
TellIndex(h) ==
  /\ handlers[h].pc \in {"tell", "tell owner"}
  /\ Tells(handlers[h].doc) /\ Result(h, Told(handlers[h].pc))
  /\ UNCHANGED <<disk, uploads, job, edits, faults>>

\* It does not: the content is registered, or its document gets the dossier.
RegisterFile(h) ==
  LET r == handlers[h] IN
  /\ r.pc = "register"
  /\ \E d \in DocId : Registers(Head(r.todo), r.case, NoUrl, d) /\ Turn(h, [r EXCEPT !.pc = "process", !.doc = d])
  /\ UNCHANGED <<disk, found, scopes, uploads, job, edits, faults>>

\* The service of the originals' keys refuses: a 503 for the whole batch.
KeysRefused(h) ==
  /\ Fault /\ LET r == handlers[h] IN
     r.pc = "register" \/ (r.pc = "process" /\ archive[r.doc].state \in {"registered", "extractable"})
  /\ Turn(h, [handlers[h] EXCEPT !.pc = "503"])
  /\ UNCHANGED <<disk, archive, found, scopes, uploads, job, edits>>

ProcessFile(h) ==
  LET d == handlers[h].doc IN
  /\ handlers[h].pc = "process"
  /\ Processes(d)
  /\ IF After(d) = "unprocessable_ocr" THEN Turn(h, [handlers[h] EXCEPT !.pc = "recover"])
     ELSE Result(h, After(d))
  /\ UNCHANGED <<disk, uploads, job, edits, faults>>

\* Who comes second finds another state, which is an error.
RecoverFile(h) ==
  LET r == handlers[h] IN
  /\ r.pc = "recover"
  /\ \/ /\ archive[r.doc].state # "unprocessable_ocr"
        /\ Result(h, "error") /\ UNCHANGED archive
     \/ /\ archive[r.doc].state = "unprocessable_ocr" /\ Rekeys(r.doc)
        /\ Turn(h, [r EXCEPT !.pc = "process"])
     \/ /\ archive[r.doc].state = "unprocessable_ocr"
        /\ \E owner \in LiveWith(OcrOf[archive[r.doc].key]) :
             Gives(r.doc, owner) /\ Turn(h, [r EXCEPT !.pc = "tell owner", !.doc = owner])
  /\ UNCHANGED <<disk, found, scopes, uploads, job, edits, faults>>

AtWork == {"add", "tell", "register", "process", "recover", "tell owner"}
\* A step of a file fails, for a while or for good: the batch goes on.
FileFails(h, result) ==
  /\ Fault /\ handlers[h].pc \in AtWork
  /\ IF handlers[h].pc = "process" THEN ProcessBreaks(handlers[h].doc) ELSE UNCHANGED <<archive, found, scopes>>
  /\ Result(h, result)
  /\ UNCHANGED <<disk, uploads, job, edits>>

\* The server ends, and with it the request.
ServerDies(h) ==
  /\ Fault /\ handlers[h].pc \in AtWork \cup {"next"}
  /\ IF handlers[h].pc = "process" THEN ProcessBreaks(handlers[h].doc) ELSE UNCHANGED <<archive, found, scopes>>
  /\ Turn(h, [handlers[h] EXCEPT !.pc = "lost"])
  /\ UNCHANGED <<disk, uploads, job, edits>>

Answers200(h) ==
  /\ handlers[h].pc = "next" /\ handlers[h].todo = <<>>
  /\ Turn(h, [handlers[h] EXCEPT !.pc = "200"])
  /\ UNCHANGED <<disk, archive, found, scopes, uploads, job, edits, faults>>

\* Nobody waits for the answer any more.
Unheard(h) ==
  /\ handlers[h].pc \in {"200", "503", "lost"} /\ handlers[h].caller = "none"
  /\ Turn(h, Free)
  /\ UNCHANGED <<disk, archive, found, scopes, uploads, job, edits, faults>>

-----------------------------------------------------------------------------
(* The client. *)

\* One file or a directory, in order; NoCase leaves the dossier to the server,
\* which refuses.
StartUpload(c, files, case, retries) ==
  /\ uploads[c].pc = "idle"
  /\ uploads' = [uploads EXCEPT ![c] = [Silent EXCEPT !.pc = "post", !.files = files, !.case = case, !.retries = retries]]
  /\ UNCHANGED <<disk, archive, found, scopes, handlers, job, edits, faults>>

Chunk(u) == SubSeq(u.files, u.at, IF u.at + BatchSize - 1 < Len(u.files) THEN u.at + BatchSize - 1 ELSE Len(u.files))
NextBatch(u) ==
  LET on == [u EXCEPT !.at = u.at + Len(Chunk(u)), !.attempt = 1, !.sent = <<>>] IN
  IF on.at > Len(u.files) THEN [on EXCEPT !.pc = "done"] ELSE [on EXCEPT !.pc = "post"]
GiveUp(u) == NextBatch([u EXCEPT !.failures = @ + Len(Chunk(u))])

\* A batch without a dossier is refused before a byte is read: a 400.
Refused(case) == case = NoCase
\* The bytes are read again for every attempt.
PostFiles(c) ==
  LET u == uploads[c]
      sent == [i \in DOMAIN Chunk(u) |-> disk[Chunk(u)[i]]] IN
  /\ u.pc = "post"
  /\ IF Refused(u.case)
     THEN uploads' = [uploads EXCEPT ![c] = GiveUp(u)] /\ UNCHANGED handlers
     ELSE \E h \in Handler :
            /\ handlers[h] = Free /\ \A g \in Handler : handlers[g] = Free => h <= g
            /\ Turn(h, [Free EXCEPT !.pc = "next", !.caller = c, !.todo = sent, !.case = u.case])
            /\ uploads' = [uploads EXCEPT ![c] = [u EXCEPT !.pc = "wait", !.sent = sent]]
  /\ UNCHANGED <<disk, archive, found, scopes, job, edits, faults>>

\* Each file of the answer is counted.
Count(u, states) ==
  LET these(S) == {i \in DOMAIN states : states[i] \in S} IN
  [u EXCEPT !.indexed = @ + Cardinality(these({"indexed"})),
            !.skipped = @ + Cardinality(these({"skipped"})),
            !.failures = @ + Cardinality(DOMAIN states \ these({"indexed", "skipped"})),
            !.good = @ \cup {u.sent[i] : i \in these({"indexed", "skipped"})}]
ReadAnswer(c) ==
  /\ uploads[c].pc = "wait"
  /\ \E h \in Handler :
       /\ handlers[h].caller = c /\ handlers[h].pc = "200"
       /\ Turn(h, Free)
       /\ uploads' = [uploads EXCEPT ![c] = NextBatch(Count(uploads[c], handlers[h].results))]
  /\ UNCHANGED <<disk, archive, found, scopes, job, edits, faults>>

\* A 503, a lost connection, a timeout, an answer that cannot be read: again,
\* a number of times.
NoAnswer(c) ==
  LET u == uploads[c] IN
  /\ Fault /\ u.pc = "wait"
  /\ \E h \in Handler : handlers[h].caller = c /\ Turn(h, [handlers[h] EXCEPT !.caller = "none"])
  /\ uploads' = [uploads EXCEPT ![c] =
       IF u.attempt < u.retries THEN [u EXCEPT !.pc = "post", !.attempt = @ + 1, !.sent = <<>>] ELSE GiveUp(u)]
  /\ UNCHANGED <<disk, archive, found, scopes, job, edits>>

-----------------------------------------------------------------------------
(* The directory runs. *)

\* ingest_corpus.
StartCorpus(case) ==
  /\ job.pc = "idle"
  /\ job' = [NoJob EXCEPT !.pc = "next", !.kind = "corpus", !.case = case, !.todo = File]
  /\ UNCHANGED <<disk, archive, found, scopes, handlers, uploads, edits, faults>>

\* ingest_manifest_corpus: every file is listed and is what was hashed, or
\* nothing is ingested; nor is it on another backend than the one for it, or
\* without a completed check of the source.
StartManifest(case, manifest, allowed) ==
  /\ job.pc = "idle"
  /\ job' = IF allowed /\ \A f \in File : f \in DOMAIN manifest /\ manifest[f].sha = disk[f]
            THEN [NoJob EXCEPT !.pc = "next", !.kind = "manifest", !.case = case, !.manifest = manifest,
                               !.contents = disk, !.todo = File]
            ELSE [NoJob EXCEPT !.pc = "refused"]
  /\ UNCHANGED <<disk, archive, found, scopes, handlers, uploads, edits, faults>>

\* Mutant: the bytes are read when their turn comes.
DataFromDisk(f) == disk[f]
\* What was checked is what is ingested; the corpus run reads as it goes.
Data(f) == IF job.kind = "manifest" THEN job.contents[f] ELSE disk[f]

IngestFile(f) ==
  /\ job.pc = "next" /\ f \in job.todo
  /\ \E d \in DocId :
       /\ Registers(Data(f), job.case, IF job.kind = "manifest" THEN job.manifest[f].url ELSE NoUrl, d)
       /\ job' = [job EXCEPT !.pc = "process", !.file = f, !.doc = d, !.todo = @ \ {f}]
  /\ UNCHANGED <<disk, found, scopes, handlers, uploads, edits, faults>>

Outcome(ok) == job' = [job EXCEPT !.pc = "next", !.file = "none", !.doc = 0,
                                  !.outcomes = @ \cup {[file |-> job.file, doc |-> job.doc, ok |-> ok]}]

\* Ok in a manifest run: it is indexed, with the provenance of the manifest.
JobProcess ==
  LET d == job.doc IN
  /\ job.pc = "process"
  /\ Processes(d)
  /\ IF job.kind = "corpus" /\ After(d) = "unprocessable_ocr" THEN job' = [job EXCEPT !.pc = "recover"]
     ELSE Outcome(/\ After(d) = "indexed"
                  /\ job.kind = "manifest" => archive[d].source = job.manifest[job.file].url)
  /\ UNCHANGED <<disk, handlers, uploads, edits, faults>>

JobRecover ==
  LET d == job.doc IN
  /\ job.pc = "recover"
  /\ \/ /\ archive[d].state # "unprocessable_ocr"
        /\ job' = [job EXCEPT !.pc = "failed"] /\ UNCHANGED archive
     \/ /\ archive[d].state = "unprocessable_ocr" /\ Rekeys(d)
        /\ job' = [job EXCEPT !.pc = "process"]
     \/ /\ archive[d].state = "unprocessable_ocr"
        /\ \E owner \in LiveWith(OcrOf[archive[d].key]) :
             Gives(d, owner) /\ job' = [job EXCEPT !.pc = "tell", !.doc = owner]
  /\ UNCHANGED <<disk, found, scopes, handlers, uploads, edits, faults>>

JobTells ==
  /\ job.pc = "tell" /\ Tells(job.doc) /\ Outcome(FALSE)
  /\ UNCHANGED <<disk, handlers, uploads, edits, faults>>

\* A failure ends a corpus run; a manifest run reports it and goes on, unless
\* it is the key service.
JobFails ==
  /\ Fault /\ job.pc \in {"next", "process", "recover", "tell"} /\ (job.pc = "next" => job.todo # {})
  /\ IF job.pc = "process" THEN ProcessBreaks(job.doc) ELSE UNCHANGED <<archive, found, scopes>>
  /\ \/ job' = [job EXCEPT !.pc = "failed"]
     \/ job.kind = "manifest" /\ job.pc = "process" /\ Outcome(FALSE)
  /\ UNCHANGED <<disk, handlers, uploads, edits>>

JobEnds ==
  /\ job.pc = "next" /\ job.todo = {}
  /\ job' = [job EXCEPT !.pc = "done", !.contents = <<>>]
  /\ UNCHANGED <<disk, archive, found, scopes, handlers, uploads, edits, faults>>

\* A file gets other bytes, while somebody is at work.
Edit(f, k) ==
  /\ job.pc # "idle" \/ \E c \in Uploader : uploads[c].pc # "idle"
  /\ edits < MaxEdits /\ k # disk[f]
  /\ disk' = [disk EXCEPT ![f] = k] /\ edits' = edits + 1
  /\ UNCHANGED <<archive, found, scopes, handlers, uploads, job, faults>>

BNext ==
  \/ \E h \in Handler :
       \/ TakeFile(h) \/ AddFile(h) \/ TellIndex(h) \/ RegisterFile(h)
       \/ KeysRefused(h) \/ ProcessFile(h) \/ RecoverFile(h)
       \/ FileFails(h, "retryable") \/ FileFails(h, "error")
       \/ ServerDies(h) \/ Answers200(h) \/ Unheard(h)
  \/ \E c \in Uploader :
       \/ \E o \in Orders : StartUpload(c, o[1], o[2], o[3])
       \/ PostFiles(c) \/ ReadAnswer(c) \/ NoAnswer(c)
  \/ \E case \in RunCase : StartCorpus(case) \/ \E m \in Manifests, allowed \in BOOLEAN : StartManifest(case, m, allowed)
  \/ \E f \in File : IngestFile(f)
  \/ \E e \in Edits : Edit(e[1], e[2])
  \/ JobProcess \/ JobRecover \/ JobTells \/ JobFails \/ JobEnds

BSpec == BInit /\ [][BNext]_bvars

-----------------------------------------------------------------------------
\* A search that names no dossier finds these bytes, or their OCR, in a
\* document that the database has in this dossier.
Delivered(k, case) == \E d \in found : archive[d].key \in {k, OcrOf[k]} /\ case \in archive[d].cases

\* What is reported is true, whatever was lost, sent twice, answered late or
\* changed on disk meanwhile, and with other deliveries of the same bytes: a
\* client counts every file once, and one it counts as indexed or skipped is
\* in the index and, by the database, in the dossier it was sent to; so is a
\* file a directory run calls indexed, and in a manifest run its document holds
\* the bytes that the manifest lists and was registered with the url that
\* stands beside them.  The dossiers field of the entry, which a search in one
\* dossier reads, is not part of it: the endpoint may end between the commit of a
\* membership and set_dossiers, or find the content indexed meanwhile by another
\* delivery, and a directory run never calls it for what is indexed already.
ReportsAreTrue ==
  /\ \A c \in Uploader : LET u == uploads[c] IN
       /\ u.pc = "done" => u.indexed + u.skipped + u.failures = Len(u.files)
       /\ \A k \in u.good : Delivered(k, u.case)
  /\ \A o \in job.outcomes : o.ok =>
       /\ o.doc \in found /\ job.case \in archive[o.doc].cases
       /\ job.kind = "manifest" =>
            /\ archive[o.doc].state = "indexed"
            /\ archive[o.doc].key \in {job.manifest[o.file].sha, OcrOf[job.manifest[o.file].sha]}
            /\ archive[o.doc].source = job.manifest[o.file].url
=============================================================================
