------------------------------ MODULE MediaStore ------------------------------
(***************************************************************************)
(* Where the clips of an item are kept: the bytes in R2 or S3, one row of  *)
(* `artifacts` per object (media_store.py, storage/, db/artifacts.py), and *)
(* the three programs that write them: the job that produces the item, the *)
(* daily purge of expired media (storage/retention.py, `ops maintain`) and *)
(* the migration of a run to another bucket (storage/migration.py).  None  *)
(* of them locks anything; bytes and rows are changed by separate calls.   *)
(*                                                                         *)
(* Keys of different items are disjoint, so one item is followed.  Its     *)
(* take number m is the talking head (m even) or the demo (m odd) of       *)
(* attempt m \div 2.  A download that fails leaves the clip at the         *)
(* provider's address, and the later nodes try again under another key.    *)
(* Time: a row expires two or three days after it was classified, and by   *)
(* then the job is over.                                                   *)
(***************************************************************************)
EXTENDS Integers, Sequences, FiniteSets

CONSTANTS
  MaxAttempts,  \* qc.max_attempts
  MaxFaults,    \* bound: processes that end early, downloads that fail
  Video,        \* the bytes of the assembled video
  Lost, None

Takes == 0..(2 * MaxAttempts - 1)
Backends == {"r2", "s3"}

\* Storage keys: clip-{n} below the item's directory or its demo's, and the video.
VideoKey == [dir |-> "item", n |-> -1]
Keys == [dir : {"item", "demo"}, n : Takes] \cup {VideoKey}

\* A uri, and a row of artifacts.
Pointers == [key : Keys, at : Backends]
ArtifactRows == [class : {"keep", "intermediate", "rejected"}, at : Backends, due : BOOLEAN,
                 sha : Takes \cup {Video}]

ASSUME MediaAssumption ==
  /\ MaxAttempts \in Nat \ {0}
  /\ MaxFaults \in Nat
  /\ Video \notin Takes
  /\ None \notin Takes \cup {Video, Lost} \cup Pointers \cup ArtifactRows
  /\ Lost \notin Pointers

VARIABLES
  storage,  \* the deployment's backend: "r2", "dual" or "s3"
  mine,     \* where the job's process writes: as configured when it started
  pc, n,    \* the item's node, and the take it is at
  pointer,  \* of each clip of the item: its uri, which names a backend and a key
  verdict,  \* "none", "passed" or "dropped"
  writing,  \* objects the current node still has to store, in order
  half,     \* the first of them has its bytes but not its row
  done,     \* the effect behind each take: None, Lost, or completed with that pointer
  rows,     \* artifacts, by key
  objects,  \* bytes, by backend and key
  purge,    \* what the purge has left to do: the rows it listed
  cut,      \* it has deleted the bytes of the first of them
  copy,     \* the rows the migration listed and has not dealt with
  stage,    \* what it does with the first of them
  faults

jobVars == <<mine, pc, n, pointer, verdict, writing, half, done>>
storeVars == <<rows, objects>>
upkeepVars == <<purge, cut, copy, stage>>
mediaVars == <<storage, jobVars, storeVars, upkeepVars, faults>>

\* build_media_storage: where a new process writes, and where it deletes a row of b.
WriteBackend == IF storage = "r2" THEN "r2" ELSE "s3"
DeleteBackend(b) == IF storage = "dual" THEN b ELSE storage

MediaInit ==
  /\ storage \in {"r2", "dual"} /\ mine = WriteBackend
  /\ pc = "take" /\ n = 0
  /\ pointer = [m \in Takes |-> None]
  /\ verdict = "none"
  /\ writing = << >> /\ half = FALSE
  /\ done = [m \in Takes |-> None]
  /\ rows = [k \in Keys |-> None]
  /\ objects = [b \in Backends |-> [k \in Keys |-> None]]
  /\ purge = << >> /\ cut = FALSE
  /\ copy = << >> /\ stage = "get"
  /\ faults = 0

-------------------------------------------------------------------------------
(* Storing an object                                                       *)

\* The keys of take m: of _durable_replicate_clip, and of persist_item_media.
DurableKey(m) == [dir |-> IF m % 2 = 0 THEN "item" ELSE "demo", n |-> m \div 2]
ItemKey(m) == [dir |-> "item", n |-> m]

Write(what, k) == [what |-> what, key |-> k]

\* _record: ArtifactRecord.from_stored and the upsert by its id, which is the key's.
Row(w) == [class |-> "keep", at |-> mine, due |-> FALSE, sha |-> w.what]

\* put_from_url, put_bytes: the bytes replace whatever the key had.
PutBytes ==
  /\ writing # << >> /\ ~half
  /\ objects' = [objects EXCEPT ![mine][Head(writing).key] = Head(writing).what]
  /\ half' = TRUE
  /\ UNCHANGED <<storage, mine, pc, n, pointer, verdict, writing, done, rows, upkeepVars, faults>>

\* The clips of a video node are returned with their pointers, those of node_assembly
\* and node_upscale are not; mark_succeeded follows the durable write.
RecordRow ==
  LET w == Head(writing)
      stored == [key |-> w.key, at |-> mine]
  IN
  /\ writing # << >> /\ half
  /\ rows' = [rows EXCEPT ![w.key] = Row(w)]
  /\ writing' = Tail(writing)
  /\ half' = FALSE
  /\ pointer' = IF pc \in {"media", "take", "qc"}
                 THEN [pointer EXCEPT ![w.what] = stored] ELSE pointer
  /\ done' = IF pc = "media" THEN [done EXCEPT ![w.what] = stored] ELSE done
  /\ UNCHANGED <<storage, mine, pc, n, verdict, objects, upkeepVars, faults>>

Unstored == {m \in 0..n : pointer[m] = None}

\* fetch_media: each download works or returns nothing.
Fetched(ms) == SUBSET ms

\* The elements of a finite set, those of lower rank r first.
InOrder(S, r) == [i \in 1..Cardinality(S) |->
  CHOOSE x \in S : Cardinality({y \in S : r[y] < r[x]}) = i - 1]

\* persist_item_media: the clips without a pointer whose download works this time.
ItemWrites(S) ==
  LET clips == InOrder(S, [m \in S |-> m])
  IN [i \in DOMAIN clips |-> Write(clips[i], ItemKey(clips[i]))]

-------------------------------------------------------------------------------
(* The nodes of the item                                                   *)

Fault == faults < MaxFaults /\ faults' = faults + 1

\* make_gen_node and node_product_demo, up to the clip: a completed effect returns its
\* artifact; a new one is stored, or keeps the provider's address.
Generate ==
  /\ pc = "take" /\ writing = << >>
  /\ pc' = "media"
  /\ \/ /\ done[n] # None
        /\ pointer' = [pointer EXCEPT ![n] = IF done[n] = Lost THEN None ELSE done[n]]
        /\ UNCHANGED <<writing, done>>
        /\ UNCHANGED faults
     \/ /\ done[n] = None
        /\ writing' = <<Write(n, DurableKey(n))>>
        /\ UNCHANGED <<pointer, done, faults>>
     \/ /\ done[n] = None /\ Fault
        /\ done' = [done EXCEPT ![n] = Lost]
        /\ UNCHANGED <<pointer, writing>>
  /\ UNCHANGED <<storage, mine, n, verdict, half, storeVars, upkeepVars>>

\* _video_failure_update: the item ends, and its clips are left as they were stored.
ClipFails ==
  /\ pc = "take" /\ writing = << >> /\ done[n] = None
  /\ pc' = "over"
  /\ UNCHANGED <<storage, mine, n, pointer, verdict, writing, half, done, storeVars, upkeepVars, faults>>

\* The rest of the node: persist_item_media over all the clips.
PersistItem ==
  /\ pc = "media" /\ writing = << >>
  /\ \E S \in Fetched(Unstored) : writing' = ItemWrites(S)
  /\ pc' = IF n % 2 = 0 THEN "take" ELSE "qc"
  /\ n' = IF n % 2 = 0 THEN n + 1 ELSE n
  /\ UNCHANGED <<storage, mine, pointer, verdict, half, done, storeVars, upkeepVars, faults>>

\* classify_item_retention over the clips that have a pointer and a row.
Classified(class) ==
  rows' = [k \in Keys |->
    IF rows[k] # None /\ \E m \in 0..n : pointer[m] # None /\ pointer[m].key = k
    THEN [rows[k] EXCEPT !.class = class[k], !.due = FALSE] ELSE rows[k]]

Qc ==
  /\ pc = "qc" /\ writing = << >>
  /\ \/ /\ verdict' = "passed"
        /\ Classified([k \in Keys |->
             IF pointer[n] # None /\ k = pointer[n].key THEN "keep" ELSE "intermediate"])
        /\ pc' = "assembly"
        /\ UNCHANGED n
     \/ /\ n + 1 \in Takes
        /\ n' = n + 1
        /\ pc' = "take"
        /\ UNCHANGED <<verdict, rows>>
     \/ /\ n + 1 \notin Takes          \* node_drop
        /\ verdict' = "dropped"
        /\ Classified([k \in Keys |-> "rejected"])
        /\ pc' = "over"
        /\ UNCHANGED n
  /\ UNCHANGED <<storage, mine, pointer, writing, half, done, objects, upkeepVars, faults>>

\* node_assembly: the rendered video, then persist_item_media; or no video.
Assemble ==
  /\ pc = "assembly" /\ writing = << >>
  /\ \/ /\ \E S \in Fetched(Unstored) :
             writing' = <<Write(Video, VideoKey)>> \o ItemWrites(S)
        /\ pc' = "upscale"
     \/ pc' = "over" /\ UNCHANGED writing
  /\ UNCHANGED <<storage, mine, n, pointer, verdict, half, done, storeVars, upkeepVars, faults>>

\* node_upscale: nothing new, or another video for the same key.
Upscale ==
  /\ pc = "upscale" /\ writing = << >>
  /\ \/ UNCHANGED writing
     \/ \E S \in Fetched(Unstored) :
          writing' = Append(ItemWrites(S), Write(Video, VideoKey))
  /\ pc' = "over"
  /\ UNCHANGED <<storage, mine, n, pointer, verdict, half, done, storeVars, upkeepVars, faults>>

Over == pc = "over" /\ writing = << >>

\* The job's attempt ends: in another process the item starts over, and only the ledger
\* remembers; or this was its last attempt.
CrashJob ==
  /\ ~Over /\ Fault
  /\ mine' = WriteBackend
  /\ pc' \in {"take", "over"} /\ n' = 0
  /\ pointer' = [m \in Takes |-> None]
  /\ verdict' = "none"
  /\ writing' = << >> /\ half' = FALSE
  /\ UNCHANGED <<storage, done, storeVars, upkeepVars>>

-------------------------------------------------------------------------------
(* Expiry and purge                                                        *)

\* expires_at_for: the clips classified together expire together, in two or three days.
Expire(class) ==
  LET aged == {k \in Keys : rows[k] # None /\ rows[k].class = class /\ ~rows[k].due} IN
  /\ Over /\ aged # {}
  /\ rows' = [k \in Keys |-> IF k \in aged THEN [rows[k] EXCEPT !.due = TRUE] ELSE rows[k]]
  /\ UNCHANGED <<storage, jobVars, objects, upkeepVars, faults>>

\* A query of artifacts, ordered by storage_key.
Rank(k) == k.n + (IF k.dir = "demo" THEN 2 * MaxAttempts ELSE 0)

Listed(ks) ==
  LET s == InOrder(ks, [k \in ks |-> Rank(k)])
  IN [i \in DOMAIN s |-> [key |-> s[i], sha |-> rows[s[i]].sha, from |-> DeleteBackend(rows[s[i]].at)]]

\* Faulty variants: the deliverable is listed as well, or the superseded takes are not.
ExpiredOrKept == {k \in Keys : rows[k] # None /\ (rows[k].due \/ rows[k].class = "keep")}
ExpiredRejected == {k \in Keys : rows[k] # None /\ rows[k].due /\ rows[k].class = "rejected"}

Expired == {k \in Keys : rows[k] # None /\ rows[k].due}

\* purge_expired, once a day, by one `ops maintain` at a time.
StartPurge ==
  /\ purge = << >> /\ Expired # {}
  /\ purge' = Listed(Expired)
  /\ UNCHANGED <<storage, jobVars, storeVars, cut, copy, stage, faults>>

\* Bytes first, row second.
PurgeBytes ==
  LET a == Head(purge) IN
  /\ purge # << >> /\ ~cut
  /\ objects' = [objects EXCEPT ![a.from][a.key] = None]
  /\ cut' = TRUE
  /\ UNCHANGED <<storage, jobVars, rows, purge, copy, stage, faults>>

PurgeRow ==
  /\ purge # << >> /\ cut
  /\ rows' = [rows EXCEPT ![Head(purge).key] = None]
  /\ purge' = Tail(purge)
  /\ cut' = FALSE
  /\ UNCHANGED <<storage, jobVars, objects, copy, stage, faults>>

\* A delete raises, or the command dies: what is left waits for the next purge.
CrashPurge ==
  /\ purge # << >> /\ Fault
  /\ purge' = << >>
  /\ cut' = FALSE
  /\ UNCHANGED <<storage, jobVars, storeVars, copy, stage>>

-------------------------------------------------------------------------------
(* The move from R2 to S3                                                  *)

Movable == {k \in Keys : rows[k] # None /\ rows[k].at = "r2"}

\* The deployment is reconfigured: new objects go to S3; once the jobs are drained and
\* nothing is left in R2, it is not read any more.
Cutover ==
  /\ \/ storage = "r2" /\ storage' = "dual"
     \/ storage = "dual" /\ Over /\ Movable = {} /\ storage' = "s3"
  /\ UNCHANGED <<jobVars, storeVars, upkeepVars, faults>>

\* migrate_run_objects, once the jobs are drained: by_run lists the rows; those of S3
\* are skipped.
StartCopy ==
  /\ Over /\ copy = << >> /\ Movable # {}
  /\ copy' = Listed(Movable)
  /\ stage' = "get"
  /\ UNCHANGED <<storage, jobVars, storeVars, purge, cut, faults>>

Stop == copy' = << >> /\ stage' = "get"

\* The bytes are read, compared with the row listed and written; get or put may raise.
CopyObject ==
  LET a == Head(copy) IN
  /\ copy # << >> /\ stage = "get"
  /\ \/ /\ objects["r2"][a.key] = a.sha
        /\ objects' = [objects EXCEPT !["s3"][a.key] = a.sha]
        /\ stage' = "verify"
        /\ UNCHANGED copy
     \/ /\ objects["r2"][a.key] # a.sha
        /\ Stop
        /\ UNCHANGED objects
  /\ UNCHANGED <<storage, jobVars, rows, purge, cut, faults>>

\* head_object: size and checksum are those of what was sent.
Verified(bytes, sent) == bytes = sent

VerifyCopy ==
  LET a == Head(copy) IN
  /\ copy # << >> /\ stage = "verify"
  /\ IF Verified(objects["s3"][a.key], a.sha) THEN stage' = "switch" /\ UNCHANGED copy ELSE Stop
  /\ UNCHANGED <<storage, jobVars, storeVars, purge, cut, faults>>

\* set_storage_backend: an UPDATE, of no row if the purge was faster.
SwitchBackend ==
  LET k == Head(copy).key IN
  /\ copy # << >> /\ stage = "switch"
  /\ rows' = IF rows[k] = None THEN rows ELSE [rows EXCEPT ![k].at = "s3"]
  /\ copy' = Tail(copy)
  /\ stage' = "get"
  /\ UNCHANGED <<storage, jobVars, objects, purge, cut, faults>>

CrashCopy ==
  /\ copy # << >> /\ Fault
  /\ Stop
  /\ UNCHANGED <<storage, jobVars, storeVars, purge, cut>>

-------------------------------------------------------------------------------
JobStep ==
  Generate \/ ClipFails \/ PutBytes \/ RecordRow \/ PersistItem \/ Qc \/ Assemble \/ Upscale

PurgeStep == StartPurge \/ PurgeBytes \/ PurgeRow

MediaNext ==
  \/ JobStep \/ CrashJob
  \/ \E class \in {"rejected", "intermediate"} : Expire(class)
  \/ PurgeStep \/ CrashPurge
  \/ Cutover \/ StartCopy \/ CopyObject \/ VerifyCopy \/ SwitchBackend \/ CrashCopy

MediaSpec == MediaInit /\ [][MediaNext]_mediaVars

\* The maintenance workflow runs every day; nothing obliges anybody to migrate.
LiveMediaSpec == MediaSpec /\ WF_mediaVars(PurgeStep)

-------------------------------------------------------------------------------
\* object_inventory: the rows whose bytes the backend they name does not have.
Missing == {k \in Keys : rows[k] # None /\ objects[rows[k].at][k] = None}

\* resolve_signed_uris: the uris the API turns into addresses that can be opened.
Signs(b) == storage \in {"dual", b}

\* What has not expired can be read: the row of an object names a backend that has its
\* bytes, whatever the job, the purge and the migration were doing when one of them died;
\* and the last take of an approved item is kept, its row and the uri that the run's
\* events and results keep for ever, if it is still signed, both lead to its own bytes.
MediaIsReadable ==
  /\ \A k \in Missing : rows[k].due
  /\ verdict = "passed" /\ pointer[n] # None =>
       LET k == pointer[n].key IN
       /\ rows[k] # None /\ rows[k].class = "keep"
       /\ objects[rows[k].at][k] = n
       /\ Signs(pointer[n].at) => objects[pointer[n].at][k] = n

\* An expired object is removed, its row too, even if a purge dies half way or meets
\* a migration of the same run.
ExpiredIsPurged ==
  LET overdue == {k \in Keys : rows[k] # None /\ rows[k].due}
  IN overdue # {} ~> overdue = {}

-------------------------------------------------------------------------------
(* Why it holds: what the proof of MediaIsReadable carries from step to    *)
(* step.                                                                   *)

Writes == [what : Takes \cup {Video}, key : Keys]
ListedRows == [key : Keys, sha : Takes \cup {Video}, from : Backends]

MediaTypeOK ==
  /\ storage \in {"r2", "dual", "s3"} /\ mine \in Backends
  /\ pc \in {"take", "media", "qc", "assembly", "upscale", "over"} /\ n \in Takes
  /\ pointer \in [Takes -> Pointers \cup {None}]
  /\ verdict \in {"none", "passed", "dropped"}
  /\ writing \in Seq(Writes) /\ half \in BOOLEAN
  /\ done \in [Takes -> Pointers \cup {None, Lost}]
  /\ rows \in [Keys -> ArtifactRows \cup {None}]
  /\ objects \in [Backends -> [Keys -> Takes \cup {Video, None}]]
  /\ purge \in Seq(ListedRows) /\ cut \in BOOLEAN
  /\ copy \in Seq(ListedRows) /\ stage \in {"get", "verify", "switch"}

\* Nothing expires, is purged or moves before the item's job is over.
UpkeepAfterJob ==
  \/ Over
  \/ purge = << >> /\ copy = << >> /\ \A k \in Keys : rows[k] # None => ~rows[k].due

\* Only a demo passes or drops an item, and it is the last take.
VerdictOnDemo ==
  /\ pc \in {"take", "media", "qc"} => verdict = "none"
  /\ verdict = "passed" => pc \in {"assembly", "upscale", "over"}
  /\ pc \in {"qc", "assembly", "upscale"} \/ verdict = "passed" => n % 2 = 1

\* The clips that the item does not have yet.
NoClipYet == \A m \in Takes : m > n \/ (m = n /\ pc = "take") => pointer[m] = None

\* What the current node has left to write: never over a clip that its pointer is kept of.
WriteIsDue(w) ==
  \/ pc = "media" /\ w = Write(n, DurableKey(n))
  \/ /\ pc \in {"take", "qc", "upscale", "over"}
     /\ \E m \in 0..n :
          /\ w = Write(m, ItemKey(m))
          /\ pc = "take" => m < n
          /\ pc \in {"upscale", "over"} => pointer[m] = None
  \/ pc \in {"upscale", "over"} /\ w = Write(Video, VideoKey)

PendingWrites ==
  /\ \A i \in DOMAIN writing : WriteIsDue(writing[i])
  /\ half => /\ writing # << >>
             /\ objects[mine][Head(writing).key] = Head(writing).what

\* Take m is stored under k, and can be read through its row and through uri p.
StoredAs(m, p) ==
  /\ rows[p.key] # None /\ rows[p.key].sha = m
  /\ objects[rows[p.key].at][p.key] = m
  /\ objects[p.at][p.key] = m

\* The ledger's demos, while the job may still be given them.
LedgerIsStored ==
  ~Over => \A m \in Takes :
    m % 2 = 1 /\ done[m] \in Pointers => done[m].key = DurableKey(m) /\ StoredAs(m, done[m])

\* The demo at hand, and the deliverable.
DemoIsStored ==
  /\ (n % 2 = 1 /\ pc \in {"media", "qc"}) \/ verdict = "passed"
  /\ pointer[n] # None
  => /\ pointer[n].key \in {DurableKey(n), ItemKey(n)}
     /\ StoredAs(n, pointer[n])
     /\ verdict = "passed" =>
          rows[pointer[n].key].class = "keep" /\ ~rows[pointer[n].key].due

\* Bytes go before their row, and only those that have expired.
RowsHaveBytes ==
  \A k \in Keys : rows[k] # None /\ ~rows[k].due => objects[rows[k].at][k] # None

PurgeOnlyExpired ==
  \A i \in DOMAIN purge : rows[purge[i].key] # None => rows[purge[i].key].due

\* A migration moves what the rows name, and switches a row to bytes that S3 has.
CopyIsCurrent ==
  /\ \A i \in DOMAIN copy : rows[copy[i].key] # None => rows[copy[i].key].sha = copy[i].sha
  /\ copy # << >> /\ stage # "get" =>
       LET k == Head(copy).key IN
       rows[k] # None /\ ~rows[k].due => objects["s3"][k] = Head(copy).sha

MediaInv ==
  /\ MediaTypeOK /\ UpkeepAfterJob /\ VerdictOnDemo /\ NoClipYet /\ PendingWrites
  /\ LedgerIsStored /\ DemoIsStored /\ RowsHaveBytes /\ PurgeOnlyExpired /\ CopyIsCurrent

===============================================================================
