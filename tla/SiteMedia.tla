----------------------------- MODULE SiteMedia -----------------------------
(***************************************************************************)
(* The pictures of the site's slots (site_media_service.py) while an       *)
(* operator moves the files on the server's disk to the bucket             *)
(* (scripts/backfill_media_to_r2.py). The script selects the rows of a     *)
(* table, then takes one column after the other: it uploads the file,      *)
(* rewrites the column in a transaction of its own and notes the rewrite   *)
(* in a file. Meanwhile an admin replaces or clears the picture of a slot, *)
(* which removes the files the row pointed to.                             *)
(***************************************************************************)
EXTENDS Integers, FiniteSets

CONSTANTS
    Slot,        \* keys of site_media_assets
    Column,      \* image_url, thumbnail_url, zoom_url
    Section,     \* rows of about_ and home_ tables, which store an image_id only
    Admin,       \* admin requests at a time
    Operator,    \* runs of the script at a time
    NoTask,      \* a run between two tasks
    AtFirst,     \* where the columns may point before the first run
    MaxUpload,   \* bound: pictures an admin uploads
    MaxFault,    \* bound: crashes, failed uploads and deletions
    MaxSweep     \* bound: times the bucket is emptied

\* What the constants must satisfy; the MC module assumes it.
SiteMediaAssumption ==
    /\ {MaxUpload, MaxFault, MaxSweep} \subseteq Nat
    /\ AtFirst \subseteq {"nothing", "external", "disk"}

VARIABLES
    url,      \* the URL columns of site_media_assets
    disk,     \* files under static/products
    object,   \* objects under products/ in the bucket
    request,  \* admin requests under way
    run,      \* runs of the script under way
    rewrites, \* columns the rewrite log has an entry of
    uploads,  \* pictures uploaded so far
    faults,   \* crashes, failed uploads and deletions so far
    sweeps    \* times the bucket was emptied so far

siteVars == <<url, disk, object, request, run, rewrites, uploads, faults, sweeps>>

\* Picture 0 of a slot is the one on the disk; an upload has a name of its own.
Picture == 0..MaxUpload
Key == (Slot \X Column \X Picture) \cup Section
Place == [at : {"nothing", "external", "disk", "bucket"}, picture : Picture]
Nowhere == [at |-> "nothing", picture |-> 0]
OnDisk == [at |-> "disk", picture |-> 0]
InBucket(v) == [at |-> "bucket", picture |-> v]

\* What a run has to process: a column as it was selected, or a section.
Column1 == [slot : Slot, column : Column, shown : Place]
Task == Column1 \cup Section
NoRun == [stage |-> "idle"]
Run == {NoRun} \cup
    [stage : {"columns", "uploaded", "rewritten", "sections"}, todo : SUBSET Task,
     task : Task \cup {NoTask}, dry : BOOLEAN, force : BOOLEAN]

NoRequest == [stage |-> "idle"]
Request == {NoRequest} \cup
    [stage : {"asked", "read", "written"}, slot : Slot, new : Place,
     old : [Column -> Place]]

SiteMediaTypeOK ==
    /\ url \in [Slot -> [Column -> Place]]
    /\ disk \subseteq Key
    /\ object \in [Key -> {"absent", "stored", "swept"}]
    /\ \A a \in Admin : request[a] \in Request
    /\ \A o \in Operator : run[o] \in Run
    /\ rewrites \subseteq Slot \X Column
    /\ uploads \in Picture /\ faults \in 0..MaxFault /\ sweeps \in 0..MaxSweep

\* The files of the pictures are there; those of a section may be.
SiteMediaInit ==
    /\ \E at \in [Slot -> AtFirst], found \in SUBSET Section :
          /\ url = [s \in Slot |-> [c \in Column |-> [at |-> at[s], picture |-> 0]]]
          /\ disk = found \cup {<<s, c, 0>> : s \in {x \in Slot : at[x] = "disk"}, c \in Column}
    /\ object = [k \in Key |-> "absent"]
    /\ request = [a \in Admin |-> NoRequest]
    /\ run = [o \in Operator |-> NoRun]
    /\ rewrites = {}
    /\ uploads = 0 /\ faults = 0 /\ sweeps = 0

Stored(keys) == [k \in Key |-> IF k \in keys THEN "stored" ELSE object[k]]
Removed(keys) == [k \in Key |-> IF k \in keys THEN "absent" ELSE object[k]]

(***************************************************************************)
(* set_asset_image and clear_asset_image: the new picture is uploaded, the *)
(* row read and updated in one transaction, and the files the row pointed  *)
(* to when it was read are removed after the commit.                       *)
(***************************************************************************)
\* process_image uploads the variants first; when one upload fails it deletes
\* the others, and nothing has changed.
SetPicture(a, s) ==
    /\ request[a] = NoRequest /\ uploads < MaxUpload
    /\ uploads' = uploads + 1
    /\ object' = Stored({<<s, c, uploads'>> : c \in Column})
    /\ request' = [request EXCEPT ![a] = [stage |-> "asked", slot |-> s,
                       new |-> InBucket(uploads'), old |-> url[s]]]
    /\ UNCHANGED <<url, disk, run, rewrites, faults, sweeps>>

ClearPicture(a, s) ==
    /\ request[a] = NoRequest
    /\ \E c \in Column : url[s][c] # Nowhere
    /\ request' = [request EXCEPT ![a] = [stage |-> "asked", slot |-> s,
                       new |-> Nowhere, old |-> url[s]]]
    /\ UNCHANGED <<url, disk, object, run, rewrites, uploads, faults, sweeps>>

\* SELECT without FOR UPDATE.
ReadSlot(a) ==
    /\ request[a].stage = "asked"
    /\ request' = [request EXCEPT ![a] =
                      [@ EXCEPT !.stage = "read", !.old = url[request[a].slot]]]
    /\ UNCHANGED <<url, disk, object, run, rewrites, uploads, faults, sweeps>>

WriteSlot(a) ==
    /\ request[a].stage = "read"
    /\ url' = [url EXCEPT ![request[a].slot] = [c \in Column |-> request[a].new]]
    /\ request' = [request EXCEPT ![a].stage = "written"]
    /\ UNCHANGED <<disk, object, run, rewrites, uploads, faults, sweeps>>

\* The files of the row as it is by now.
FilesNow(a, at) == {<<request[a].slot, c, url[request[a].slot][c].picture>> :
                       c \in {x \in Column : url[request[a].slot][x].at = at}}

\* _unlink_image_files: each URL as its shape says, best effort.
Files(a, at) == {<<request[a].slot, c, request[a].old[c].picture>> :
                    c \in {x \in Column : request[a].old[x].at = at}}

UnlinkOld(a) ==
    /\ request[a].stage = "written"
    /\ \/ /\ object' = Removed(Files(a, "bucket"))
          /\ UNCHANGED faults
       \/ /\ Files(a, "bucket") # {} /\ faults < MaxFault
          /\ faults' = faults + 1
          /\ UNCHANGED object
    /\ disk' = disk \ Files(a, "disk")
    /\ request' = [request EXCEPT ![a] = NoRequest]
    /\ UNCHANGED <<url, run, rewrites, uploads, sweeps>>

\* The request's process stops.
RequestStops(a) ==
    /\ request[a] # NoRequest /\ faults < MaxFault
    /\ faults' = faults + 1
    /\ request' = [request EXCEPT ![a] = NoRequest]
    /\ UNCHANGED <<url, disk, object, run, rewrites, uploads, sweeps>>

(***************************************************************************)
(* The script. backfill() processes the columns of the rows it selected,   *)
(* then the sections; --dry-run changes nothing, --force uploads also what *)
(* the row already finds in the bucket.                                    *)
(***************************************************************************)
StartRun(o, dry, force) ==
    /\ run[o] = NoRun
    /\ run' = [run EXCEPT ![o] = [stage |-> "columns", dry |-> dry, force |-> force,
                  task |-> NoTask,
                  todo |-> {[slot |-> s, column |-> c, shown |-> url[s][c]] :
                               s \in Slot, c \in Column}]]
    /\ UNCHANGED <<url, disk, object, request, rewrites, uploads, faults, sweeps>>

StartSections(o) ==
    /\ run[o].stage = "columns" /\ run[o].todo = {}
    /\ run' = [run EXCEPT ![o] = [@ EXCEPT !.stage = "sections", !.todo = Section]]
    /\ UNCHANGED <<url, disk, object, request, rewrites, uploads, faults, sweeps>>

EndRun(o) ==
    /\ run[o].stage = "sections" /\ run[o].todo = {}
    /\ run' = [run EXCEPT ![o] = NoRun]
    /\ UNCHANGED <<url, disk, object, request, rewrites, uploads, faults, sweeps>>

KeyOf(t) == <<t.slot, t.column, t.shown.picture>>

\* Only a forced run moves anything.
ToMoveForced(t, force) == force /\ t.shown.at \in {"disk", "bucket"}

\* _process_url gets past the tests on the shape of the URL.
ToMove(t, force) == t.shown.at = "disk" \/ (force /\ t.shown.at = "bucket")

PassedOver(o, t) == [run EXCEPT ![o].todo = @ \ {t}]

\* Nothing, an external URL, already in the bucket, no file, or a dry run.
SkipColumn(o, t) ==
    /\ run[o].stage = "columns" /\ t \in run[o].todo
    /\ ~ToMove(t, run[o].force) \/ KeyOf(t) \notin disk \/ run[o].dry
    /\ run' = PassedOver(o, t)
    /\ UNCHANGED <<url, disk, object, request, rewrites, uploads, faults, sweeps>>

UploadColumn(o, t) ==
    /\ run[o].stage = "columns" /\ t \in run[o].todo /\ ~run[o].dry
    /\ ToMove(t, run[o].force) /\ KeyOf(t) \in disk
    /\ object' = Stored({KeyOf(t)})
    /\ run' = IF t.shown.at = "disk"
              THEN [run EXCEPT ![o] = [@ EXCEPT !.todo = run[o].todo \ {t}, !.task = t,
                                               !.stage = "uploaded"]]
              ELSE PassedOver(o, t)
    /\ UNCHANGED <<url, disk, request, rewrites, uploads, faults, sweeps>>

\* An unreadable file or a storage error is counted and the run continues.
UploadFails(o, t) ==
    /\ run[o].stage \in {"columns", "sections"} /\ t \in run[o].todo /\ ~run[o].dry
    /\ run[o].stage = "columns" => ToMove(t, run[o].force)
    /\ faults < MaxFault
    /\ faults' = faults + 1
    /\ run' = PassedOver(o, t)
    /\ UNCHANGED <<url, disk, object, request, rewrites, uploads, sweeps>>

\* The UPDATE of one column, committed on its own; it does not look at what the
\* column holds by now.
RewriteColumn(o) ==
    LET t == run[o].task IN
    /\ run[o].stage = "uploaded"
    /\ url' = [url EXCEPT ![t.slot][t.column] = InBucket(t.shown.picture)]
    /\ run' = [run EXCEPT ![o].stage = "rewritten"]
    /\ UNCHANGED <<disk, object, request, rewrites, uploads, faults, sweeps>>

\* _RewriteLog.record, after the commit.
LogRewrite(o) ==
    LET t == run[o].task IN
    /\ run[o].stage = "rewritten"
    /\ rewrites' = rewrites \cup {<<t.slot, t.column>>}
    /\ run' = [run EXCEPT ![o] = [@ EXCEPT !.stage = "columns", !.task = NoTask]]
    /\ UNCHANGED <<url, disk, object, request, uploads, faults, sweeps>>

\* _process_derived_image: the object's name follows from the image_id.
ProcessSection(o, d) ==
    /\ run[o].stage = "sections" /\ d \in run[o].todo
    /\ object' = Stored(IF d \in disk /\ ~run[o].dry THEN {d} ELSE {})
    /\ run' = PassedOver(o, d)
    /\ UNCHANGED <<url, disk, request, rewrites, uploads, faults, sweeps>>

RunStops(o) ==
    /\ run[o] # NoRun /\ faults < MaxFault
    /\ faults' = faults + 1
    /\ run' = [run EXCEPT ![o] = NoRun]
    /\ UNCHANGED <<url, disk, object, request, rewrites, uploads, sweeps>>

\* The reason for --force: the bucket was emptied.
EmptyBucket ==
    /\ sweeps < MaxSweep
    /\ sweeps' = sweeps + 1
    /\ object' = [k \in Key |-> IF object[k] = "stored" THEN "swept" ELSE object[k]]
    /\ UNCHANGED <<url, disk, request, run, rewrites, uploads, faults>>

RequestNext(a) ==
    \/ \E s \in Slot : SetPicture(a, s) \/ ClearPicture(a, s)
    \/ ReadSlot(a) \/ WriteSlot(a) \/ UnlinkOld(a) \/ RequestStops(a)

Process(o) ==
    \/ StartSections(o) \/ EndRun(o) \/ RewriteColumn(o) \/ LogRewrite(o)
    \/ run[o] # NoRun /\ \E t \in run[o].todo :
          SkipColumn(o, t) \/ UploadColumn(o, t) \/ UploadFails(o, t) \/ ProcessSection(o, t)

StartLive(o) == StartRun(o, FALSE, FALSE)

SiteMediaNext ==
    \/ \E a \in Admin : RequestNext(a)
    \/ \E o \in Operator :
          \/ Process(o) \/ RunStops(o)
          \/ \E dry, force \in BOOLEAN : StartRun(o, dry, force)
    \/ EmptyBucket

\* A run goes on until it ends; the operator runs the script again, and not
\* always as a dry run, until a run is clean (design.md:94).
SiteMediaFairness ==
    \A o \in Operator : WF_siteVars(Process(o)) /\ SF_siteVars(StartLive(o))

SiteMediaSpec == SiteMediaInit /\ [][SiteMediaNext]_siteVars /\ SiteMediaFairness

(***************************************************************************)
(* Properties.                                                             *)
(***************************************************************************)
\* A column never points to a file or an object that was removed: whatever an
\* admin replaces or clears while the script uploads and rewrites, the upload
\* comes before the URL, and the removal after it (set_asset_image,
\* _process_url). An emptied bucket is no removal.
MediaReachable ==
    \A s \in Slot, c \in Column :
        LET k == <<s, c, url[s][c].picture>> IN
        /\ url[s][c].at = "bucket" => object[k] # "absent"
        /\ url[s][c].at = "disk" => k \in disk

\* Resumable: whatever uploads fail and however often the script is stopped, in
\* the end no column points to the disk and the picture of every section is in
\* the bucket (design.md:94, "until re-run is clean").
EverythingMoved ==
    <>[](/\ \A s \in Slot, c \in Column : url[s][c].at # "disk"
         /\ \A d \in Section \cap disk : object[d] # "absent")

\* The rewrite log can map every column in the bucket back to the disk
\* (backfill_media_to_r2.py:32). It cannot: a run that is stopped between the
\* commit and the entry is not made up for by the next one, which skips the column.
EveryRewriteLogged ==
    \A s \in Slot, c \in Column :
        (url[s][c] = InBucket(0) /\ \A o \in Operator : run[o] = NoRun)
            => <<s, c>> \in rewrites

\* A picture an admin put up is not replaced by the one before it. It is, when
\* the script selected the column before.
ReplacementStays ==
    [][\A s \in Slot, c \in Column :
          url[s][c].picture > 0 => url'[s][c].picture # 0 \/ url'[s][c].at = "nothing"]_siteVars
=============================================================================
