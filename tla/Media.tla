------------------------------- MODULE Media -------------------------------
(***************************************************************************)
(* The media of products: galleries (product_image_service.py), videos     *)
(* with their transcoding (product_video_service.py) and the objects in    *)
(* storage both refer to (image_service.py, video_service.py).             *)
(*                                                                         *)
(* One process serves: gallery and video requests run on its event loop,   *)
(* one at a time; images are processed in threads beside it, and so is the *)
(* video the drain loop works on. Rows change in transactions; objects are *)
(* stored before a row refers to them and removed, if storage answers,     *)
(* after it is gone.                                                       *)
(***************************************************************************)
EXTENDS Integers, FiniteSets

CONSTANTS
    Product,
    MaxImage, MaxVideo,  \* bounds: images and videos that are ever added
    Upload,              \* image uploads being processed at the same time
    MAX_IMAGES_PER_PRODUCT,
    MaxCrashes           \* bound: restarts of the process

ASSUME MediaAssumption ==
    /\ MaxImage \in Nat /\ MaxVideo \in Nat /\ MaxCrashes \in Nat
    /\ MAX_IMAGES_PER_PRODUCT \in Nat \ {0}

VARIABLES
    product,   \* products that have a row
    image,     \* product_images
    images,    \* ids given out to images so far
    upload,    \* add_image calls between their reads and their insert
    video,     \* product_videos
    videos,    \* ids given out to videos so far
    worker,    \* the drain, in the middle of a transcode
    removal,   \* deactivate_product or delete_product, between transactions
    stored,    \* objects and source files that exist
    lent,      \* images whose thumbnail became a poster (history)
    copied,    \* images whose URLs were imported again (history)
    raced,     \* products whose gallery was emptied under an upload (history)
    crashes

gallery == <<image, images, upload, copied, raced>>
clips == <<video, videos, worker, lent>>
vars == <<product, gallery, clips, removal, stored, crashes>>

Image == 1..MaxImage
Video == 1..MaxVideo
Nothing == [there |-> FALSE]
Idle == [busy |-> FALSE]

Main(i) == <<"main", i>>
Thumb(i) == <<"thumb", i>>
Source(v) == <<"source", v>>
Mp4(v) == <<"mp4", v>>
Object == {"main", "thumb"} \X Image \cup {"source", "mp4"} \X Video

\* file: whose objects the row's URLs name, 0 for those of another site. An
\* import may name its own (put into storage for it) or another image's.
ImageRow == [there : {TRUE}, product : Product, order : Nat, primary : BOOLEAN,
             file : Image \cup {0}]
Poster == Image \cup {0}  \* 0: one of the video's own, or none
VideoRow == [there : {TRUE}, product : Product, poster : Poster, leased : BOOLEAN,
             status : {"queued", "transcoding", "ready", "failed"}]

MediaTypeOK ==
    /\ product \subseteq Product
    /\ image \in [Image -> ImageRow \cup {Nothing}]
    /\ images \in 0..MaxImage /\ videos \in 0..MaxVideo
    /\ upload \in [Upload -> [busy : {TRUE}, product : Product, image : Image,
                              order : Nat, primary : BOOLEAN] \cup {Idle}]
    /\ video \in [Video -> VideoRow \cup {Nothing}]
    /\ worker \in [busy : {TRUE}, video : Video, done : BOOLEAN, poster : Poster] \cup {Idle}
    /\ removal \in [busy : {TRUE}, product : Product, delete : BOOLEAN,
                    left : {"gallery", "row"}] \cup {Idle}
    /\ stored \subseteq Object
    /\ lent \subseteq Image /\ copied \subseteq Image /\ raced \subseteq Product
    /\ crashes \in 0..MaxCrashes

Init ==
    /\ product = Product
    /\ image = [i \in Image |-> Nothing] /\ images = 0
    /\ upload = [u \in Upload |-> Idle]
    /\ video = [v \in Video |-> Nothing] /\ videos = 0
    /\ worker = Idle /\ removal = Idle
    /\ stored = {} /\ lent = {} /\ copied = {} /\ raced = {}
    /\ crashes = 0

Gallery(p) == {i \in Image : image[i].there /\ image[i].product = p}
VideoOf(p) == {v \in Video : video[v].there /\ video[v].product = p}
ImageObjects(i) ==
    LET f == image[i].file IN IF f = 0 THEN {} ELSE {Main(f), Thumb(f)}

\* A row shows the objects of image f.
Shown(f) == \E i \in Image : image[i].there /\ image[i].file = f

\* Objects go best-effort: all of them, or none when storage does not answer.
Unlink(objects) == stored' \in {stored \ objects, stored}

\* No other request runs on the event loop between the transactions of one.
LoopFree == removal = Idle

(***************************************************************************)
(* Galleries.                                                              *)
(***************************************************************************)
NextOrder(p) ==
    IF Gallery(p) = {} THEN 0
    ELSE 1 + CHOOSE n \in {image[i].order : i \in Gallery(p)} :
                 \A i \in Gallery(p) : image[i].order <= n

\* ORDER BY sort_order, created_at
Before(i, j) == image[i].order < image[j].order \/ (image[i].order = image[j].order /\ i < j)
First(S) == CHOOSE i \in S : \A j \in S \ {i} : Before(i, j)

\* add_image, up to the processing of the file.
StartUpload(u, p) ==
    /\ upload[u] = Idle /\ images < MaxImage
    /\ p \in product /\ Cardinality(Gallery(p)) < MAX_IMAGES_PER_PRODUCT
    /\ upload' = [upload EXCEPT ![u] =
           [busy |-> TRUE, product |-> p, image |-> images + 1,
            order |-> NextOrder(p), primary |-> Gallery(p) = {}]]
    /\ images' = images + 1
    /\ UNCHANGED <<product, image, copied, raced, clips, removal, stored, crashes>>

\* The insert meets the foreign key of the product and the unique index on
\* its primary image.
Insertable(new) ==
    /\ new.product \in product
    /\ ~(new.primary /\ \E i \in Gallery(new.product) : image[i].primary)

\* The objects are stored, then the row; they stay when it is refused.
FinishUpload(u) ==
    LET new == upload[u]
    IN  /\ new.busy
        /\ stored' = stored \cup {Main(new.image), Thumb(new.image)}
        /\ image' = IF Insertable(new)
                    THEN [image EXCEPT ![new.image] =
                              [there |-> TRUE, product |-> new.product, order |-> new.order,
                               primary |-> new.primary, file |-> new.image]]
                    ELSE image
        /\ upload' = [upload EXCEPT ![u] = Idle]
        /\ UNCHANGED <<product, images, copied, raced, clips, removal, crashes>>

FailUpload(u) ==
    /\ upload[u].busy
    /\ upload' = [upload EXCEPT ![u] = Idle]
    /\ UNCHANGED <<product, image, images, copied, raced, clips, removal, stored, crashes>>

\* add_existing_image_variants, also for a row of a CSV import: URLs of another
\* site, of objects put into storage before, or of those of another image.
ImportImage(p) ==
    LET n == images + 1
    IN  /\ LoopFree /\ images < MaxImage
        /\ p \in product /\ Cardinality(Gallery(p)) < MAX_IMAGES_PER_PRODUCT
        /\ images' = n
        /\ \E file \in {0, n} \cup {f \in Image : Main(f) \in stored} :
               /\ image' = [image EXCEPT ![n] =
                      [there |-> TRUE, product |-> p, order |-> NextOrder(p),
                       primary |-> Gallery(p) = {}, file |-> file]]
               /\ stored' = stored \cup (IF file = n THEN {Main(n), Thumb(n)} ELSE {})
               /\ copied' = copied \cup ({file} \ {0, n})
        /\ UNCHANGED <<product, upload, raced, clips, removal, crashes>>

\* An upload found images in the gallery that is empty by now.
RacedBy(p) == IF \E u \in Upload : upload[u].busy /\ upload[u].product = p /\ ~upload[u].primary
              THEN {p} ELSE {}

\* Fault: no other image is promoted.
PromotedNone(i) == [image EXCEPT ![i] = Nothing]

\* The gallery without image i: the first one left is promoted for a primary.
Promoted(i) ==
    LET left == Gallery(image[i].product) \ {i}
    IN  [j \in Image |->
            IF j = i THEN Nothing
            ELSE IF image[i].primary /\ left /= {} /\ j = First(left)
            THEN [image[j] EXCEPT !.primary = TRUE] ELSE image[j]]

DeleteImage(i) ==
    /\ LoopFree /\ image[i].there
    /\ image' = Promoted(i)
    /\ raced' = raced \cup (IF Gallery(image[i].product) = {i}
                            THEN RacedBy(image[i].product) ELSE {})
    /\ Unlink(ImageObjects(i))
    /\ UNCHANGED <<product, images, upload, copied, clips, removal, crashes>>

\* reorder_images
ReorderImages(p) ==
    /\ LoopFree
    /\ \E place \in [Gallery(p) -> 0..(Cardinality(Gallery(p)) - 1)] :
           /\ \A i, j \in Gallery(p) : place[i] = place[j] => i = j
           /\ image' = [i \in Image |-> IF i \in Gallery(p)
                                        THEN [image[i] EXCEPT !.order = place[i]] ELSE image[i]]
    /\ UNCHANGED <<product, images, upload, copied, raced, clips, removal, stored, crashes>>

\* set_primary
SetPrimary(i) ==
    /\ LoopFree /\ image[i].there
    /\ image' = [j \in Image |-> IF j \in Gallery(image[i].product)
                                 THEN [image[j] EXCEPT !.primary = j = i] ELSE image[j]]
    /\ UNCHANGED <<product, images, upload, copied, raced, clips, removal, stored, crashes>>

(***************************************************************************)
(* Videos.                                                                 *)
(***************************************************************************)
Status(v) == IF video[v].there THEN video[v].status ELSE "none"
Transcoding(v) == Status(v) = "transcoding"

\* What unlink_video_files removes for a row: the poster's URL may be the one
\* of an image's thumbnail.
VideoFiles(v) ==
    {Source(v)} \cup (IF Status(v) = "ready" THEN {Mp4(v)} ELSE {})
    \cup (IF video[v].poster = 0 THEN {} ELSE {Thumb(video[v].poster)})

\* queue_video_upload_path: a video that is done or failed is replaced.
QueueVideo(p) ==
    /\ LoopFree /\ videos < MaxVideo
    /\ p \in product
    /\ \A v \in VideoOf(p) : Status(v) \notin {"queued", "transcoding"}
    /\ videos' = videos + 1
    /\ video' = [v \in Video |->
           IF v = videos + 1
           THEN [there |-> TRUE, product |-> p, status |-> "queued", poster |-> 0,
                 leased |-> FALSE]
           ELSE IF v \in VideoOf(p) THEN Nothing ELSE video[v]]
    /\ \E gone \in {UNION {VideoFiles(v) : v \in VideoOf(p)}, {}} :
           stored' = (stored \ gone) \cup {Source(videos + 1)}
    /\ UNCHANGED <<product, gallery, worker, lent, removal, crashes>>

\* delete_video, in any status.
DeleteVideo(v) ==
    /\ LoopFree /\ video[v].there
    /\ video' = [video EXCEPT ![v] = Nothing]
    /\ Unlink(VideoFiles(v))
    /\ UNCHANGED <<product, gallery, videos, worker, lent, removal, crashes>>

\* Fault: a lease that ran out is not noticed.
ExpiredNever(v) == FALSE

Expired(v) == Transcoding(v) /\ ~video[v].leased

Live == \E v \in Video : Transcoding(v) /\ video[v].leased

\* _claim_one_queued: the oldest, unless a lease is live.
Claimable ==
    IF Live THEN {}
    ELSE {v \in Video : /\ Status(v) = "queued"
                        /\ \A w \in Video : Status(w) = "queued" => v <= w}

\* drain_video_transcodes, its first transaction.
Drain ==
    /\ worker = Idle
    /\ Claimable /= {} \/ \E v \in Video : Expired(v)
    /\ video' = [v \in Video |->
           IF Expired(v) THEN [video[v] EXCEPT !.status = "failed"]
           ELSE IF v \in Claimable
           THEN [video[v] EXCEPT !.status = "transcoding", !.leased = TRUE]
           ELSE video[v]]
    /\ worker' = IF Claimable = {} THEN Idle
                 ELSE [busy |-> TRUE, video |-> CHOOSE v \in Claimable : TRUE,
                       done |-> FALSE, poster |-> 0]
    /\ stored' = stored \ {Source(v) : v \in {w \in Video : Expired(w)}}
    /\ UNCHANGED <<product, gallery, videos, lent, removal, crashes>>

\* A worker refreshes its lease; without one it runs out.
LeaseExpires(v) ==
    /\ Transcoding(v) /\ video[v].leased
    /\ ~(worker.busy /\ worker.video = v)
    /\ video' = [video EXCEPT ![v].leased = FALSE]
    /\ UNCHANGED <<product, gallery, videos, worker, lent, removal, stored, crashes>>

\* _primary_thumbnail: the primary image's, then that of the first.
Borrowed(v) ==
    LET G == IF video[v].there THEN Gallery(video[v].product) ELSE {}
        primary == {i \in G : image[i].primary}
    IN  IF G = {} THEN 0
        ELSE LET i == First(IF primary = {} THEN G ELSE primary)
             IN  image[i].file

\* The outputs are uploaded, with a poster of their own or a borrowed one.
UploadOutputs ==
    /\ worker.busy /\ ~worker.done
    /\ \E poster \in {0, Borrowed(worker.video)} :
           worker' = [worker EXCEPT !.done = TRUE, !.poster = poster]
    /\ stored' = stored \cup {Mp4(worker.video)}
    /\ UNCHANGED <<product, gallery, video, videos, lent, removal, crashes>>

\* _update_ready_if_owned
MarkReady ==
    LET v == worker.video
    IN  /\ worker.busy /\ worker.done
        /\ video' = IF Transcoding(v)
                    THEN [video EXCEPT ![v].status = "ready", ![v].poster = worker.poster,
                                       ![v].leased = FALSE]
                    ELSE video
        /\ lent' = IF Transcoding(v) THEN lent \cup ({worker.poster} \ {0}) ELSE lent
        /\ stored' = stored \ {Source(v)}
        /\ worker' = Idle
        /\ UNCHANGED <<product, gallery, videos, removal, crashes>>

\* ffmpeg, the storage, the refresh of the lease or an update failed:
\* _update_failed_if_owned. What was uploaded stays.
FailTranscode ==
    LET v == worker.video
    IN  /\ worker.busy
        /\ video' = IF Transcoding(v)
                    THEN [video EXCEPT ![v].status = "failed", ![v].leased = FALSE] ELSE video
        /\ stored' = stored \ {Source(v)}
        /\ worker' = Idle
        /\ UNCHANGED <<product, gallery, videos, lent, removal, crashes>>

(***************************************************************************)
(* deactivate_product and delete_product: video, gallery and row go in     *)
(* transactions of their own.                                              *)
(***************************************************************************)
StartRemoval(p, delete) ==
    /\ LoopFree /\ p \in product
    /\ removal' = [busy |-> TRUE, product |-> p, delete |-> delete, left |-> "gallery"]
    /\ video' = [v \in Video |-> IF v \in VideoOf(p) THEN Nothing ELSE video[v]]
    /\ Unlink(UNION {VideoFiles(v) : v \in VideoOf(p)})
    /\ UNCHANGED <<product, gallery, videos, worker, lent, crashes>>

\* Fault: only the objects of the images are removed.
WithoutGalleryObjects(p) == image

\* delete_images_for_product
WithoutGallery(p) == [i \in Image |-> IF i \in Gallery(p) THEN Nothing ELSE image[i]]

RemoveGallery ==
    LET p == removal.product
    IN  /\ removal.busy /\ removal.left = "gallery"
        /\ image' = WithoutGallery(p)
        /\ raced' = raced \cup RacedBy(p)
        /\ Unlink(UNION {ImageObjects(i) : i \in Gallery(p)})
        /\ removal' = [removal EXCEPT !.left = "row"]
        /\ UNCHANGED <<product, images, upload, copied, clips, crashes>>

\* The deletion of the row takes images added meanwhile with it, or is
\* refused by orders, recipes or batches that refer to it.
EndRemoval ==
    LET p == removal.product
    IN  /\ removal.busy /\ removal.left = "row"
        /\ \/ /\ removal.delete
              /\ product' = product \ {p}
              /\ image' = WithoutGallery(p)
           \/ UNCHANGED <<product, image>>
        /\ removal' = Idle
        /\ UNCHANGED <<images, upload, copied, raced, clips, stored, crashes>>

\* The process is killed and started again.
Crash ==
    /\ crashes < MaxCrashes
    /\ crashes' = crashes + 1
    /\ upload' = [u \in Upload |-> Idle]
    /\ worker' = Idle /\ removal' = Idle
    /\ UNCHANGED <<product, image, images, copied, raced, video, videos, lent, stored>>

GalleryNext ==
    \/ \E u \in Upload : (\E p \in Product : StartUpload(u, p)) \/ FinishUpload(u) \/ FailUpload(u)
    \/ \E p \in Product : ImportImage(p) \/ ReorderImages(p)
    \/ \E i \in Image : DeleteImage(i) \/ SetPrimary(i)

VideoNext ==
    \/ \E p \in Product : QueueVideo(p)
    \/ \E v \in Video : DeleteVideo(v) \/ LeaseExpires(v)
    \/ Drain \/ UploadOutputs \/ MarkReady \/ FailTranscode

RemovalNext ==
    \/ \E p \in Product, delete \in BOOLEAN : StartRemoval(p, delete)
    \/ RemoveGallery \/ EndRemoval

Next == GalleryNext \/ VideoNext \/ RemovalNext \/ Crash

Spec == Init /\ [][Next]_vars

\* The drain loop ticks, transcodes have a time limit, and time passes.
Fairness ==
    /\ WF_vars(Drain)
    /\ WF_vars(UploadOutputs \/ MarkReady \/ FailTranscode)
    /\ \A v \in Video : WF_vars(LeaseExpires(v))

FairSpec == Spec /\ Fairness

(***************************************************************************)
(* Properties.                                                             *)
(***************************************************************************)

\* Whatever uploads, imports, replacements, deletions, removals and restarts
\* overlap, what a row shows exists in storage: an image, unless an import took
\* its URLs for another row, and its thumbnail, unless that was lent as a
\* poster; a video that is ready; the source of one that waits.
MediaKept ==
    /\ \A i \in Image : Shown(i) /\ i \notin copied =>
           Main(i) \in stored /\ (i \in lent \/ Thumb(i) \in stored)
    /\ \A v \in Video : /\ Status(v) = "ready" => Mp4(v) \in stored
                        /\ Status(v) = "queued" => Source(v) \in stored

\* A gallery that is not empty has exactly one primary image, unless it was
\* emptied under an upload that took it for one with images.
OnePrimary ==
    \A p \in Product \ raced :
        Gallery(p) /= {} => Cardinality({i \in Gallery(p) : image[i].primary}) = 1

\* A video that waits or is in work is ready, failed or gone some day, also
\* when the process that works on it is killed.
VideoSettles ==
    \A v \in Video : Status(v) \in {"queued", "transcoding"}
                     ~> Status(v) \notin {"queued", "transcoding"}

\* Not kept by the code (see the README):
\* the thumbnail of an image is there as long as the image;
ThumbnailsKept ==
    \A i \in Image : Shown(i) /\ i \notin copied => Thumb(i) \in stored

\* an image is there as long as a row shows it, also when two rows do;
CopiesKept == \A i \in Image : Shown(i) => Main(i) \in stored

\* a gallery that is not empty has a primary image, also after such a race;
AlwaysOnePrimary ==
    \A p \in Product : Gallery(p) /= {} => \E i \in Gallery(p) : image[i].primary

\* a gallery stays within its limit;
GalleryBounded == \A p \in Product : Cardinality(Gallery(p)) <= MAX_IMAGES_PER_PRODUCT

\* a video in storage has a row or is being worked on;
NoOrphanVideo ==
    \A v \in Video : Mp4(v) \in stored =>
        Status(v) \in {"transcoding", "ready"} \/ (worker.busy /\ worker.video = v)

\* a product that is not deleted in the end keeps its media.
RefusedKeepsMedia ==
    [][removal.busy /\ removal.delete /\ EndRemoval => removal.product \notin product']_vars
=============================================================================
