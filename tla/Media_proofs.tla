---------------------------- MODULE Media_proofs ----------------------------
(***************************************************************************)
(* What a row shows exists in storage (MediaKept), for any products,       *)
(* uploads and numbers of images and videos: whatever overlaps, is refused *)
(* by the storage, or dies between two steps; and a gallery has one        *)
(* primary image (OnePrimary).                                             *)
(***************************************************************************)
EXTENDS Media, FiniteSetTheorems, WellFoundedInduction, TLAPS

ImageLike(x) ==
    \/ x = Nothing
    \/ x = [there |-> TRUE, product |-> x.product, order |-> x.order,
            primary |-> x.primary, file |-> x.file]
ClipLike(x) ==
    \/ x = Nothing
    \/ x = [there |-> TRUE, product |-> x.product, status |-> x.status,
            poster |-> x.poster, leased |-> x.leased]
WorkerLike(x) ==
    \/ x = Idle
    \/ x = [busy |-> TRUE, video |-> x.video, done |-> x.done, poster |-> x.poster]

ImagesLike ==
    image = [i \in Image |-> image[i]] /\ \A i \in Image : ImageLike(image[i])
ClipsLike ==
    /\ video = [v \in Video |-> video[v]] /\ \A v \in Video : ClipLike(video[v])
    /\ WorkerLike(worker)
    /\ videos \in Nat

\* An image that no import took is shown by its own row at most.
OwnsFile(i) == image[i].there /\ image[i].file = i /\ i \notin copied
NamedOnce ==
    \A i \in Image : image[i].there =>
        image[i].file \in Image \cup {0} /\ image[i].file \in {i, 0} \cup copied
ImagesKept ==
    \A i \in Image : OwnsFile(i) =>
        Main(i) \in stored /\ (i \in lent \/ Thumb(i) \in stored)
ClipsKept ==
    \A v \in Video : /\ Status(v) = "ready" => Mp4(v) \in stored
                     /\ Status(v) = "queued" => Source(v) \in stored

\* A poster that goes with its video is one that was lent.
PostersLent ==
    \A v \in Video : video[v].there =>
        v <= videos /\ (video[v].poster = 0 \/ video[v].poster \in lent)

\* The drain works on a video that is in work, failed or gone, and nobody
\* removes what it has uploaded.
Working ==
    worker.busy =>
        /\ worker.video \in Video /\ worker.video <= videos
        /\ Status(worker.video) \notin {"queued", "ready"}
        /\ worker.done => Mp4(worker.video) \in stored

MediaInv ==
    /\ ImagesLike /\ NamedOnce /\ ImagesKept
    /\ ClipsLike /\ ClipsKept /\ PostersLent /\ Working

LEMMA Distinct ==
    \A a, b :
        /\ Main(a) = Main(b) => a = b
        /\ Thumb(a) = Thumb(b) => a = b
        /\ Source(a) = Source(b) => a = b
        /\ Mp4(a) = Mp4(b) => a = b
        /\ Main(a) # Thumb(b) /\ Main(a) # Source(b) /\ Main(a) # Mp4(b)
        /\ Thumb(a) # Source(b) /\ Thumb(a) # Mp4(b)
        /\ Source(a) # Mp4(b)
  BY DEF Main, Thumb, Source, Mp4

LEMMA InitInv == ASSUME Init PROVE MediaInv
  BY DEF Init, MediaInv, ImagesLike, ClipsLike, ImageLike, ClipLike, WorkerLike, Nothing,
     NamedOnce, OwnsFile, ImagesKept, ClipsKept, PostersLent, Working, Status, Idle

-----------------------------------------------------------------------------
(* Galleries.                                                              *)

\* Images change; storage loses nothing of videos.
LEMMA ImagesMove ==
    ASSUME MediaInv, ImagesLike', NamedOnce', ImagesKept', UNCHANGED clips,
           \A v \in Video : /\ Mp4(v) \in stored => Mp4(v) \in stored'
                            /\ Source(v) \in stored => Source(v) \in stored'
    PROVE  MediaInv'
<1>1. UNCHANGED <<video, videos, worker, lent>>
  BY DEF clips
<1>2. ClipsLike' /\ PostersLent'
  BY <1>1 DEF MediaInv, ClipsLike, PostersLent
<1>3. ClipsKept' /\ Working'
  BY <1>1 DEF MediaInv, ClipsKept, Working, Status
<1> QED
  BY <1>2, <1>3 DEF MediaInv

LEMMA AllAlone ==
    ASSUME MediaInv, UNCHANGED <<image, copied, clips, stored>> PROVE MediaInv'
<1>1. ImagesLike' /\ NamedOnce' /\ ImagesKept'
  BY DEF MediaInv, ImagesLike, NamedOnce, OwnsFile, ImagesKept, clips
<1> QED
  BY <1>1, ImagesMove

\* Each row that is left shows what it did.
LEMMA RowsStay ==
    ASSUME MediaInv, ImagesLike', UNCHANGED <<copied, clips, stored>>,
           \A i \in Image : image'[i].there =>
                                image[i].there /\ image'[i].file = image[i].file
    PROVE  MediaInv'
<1>1. NamedOnce' /\ ImagesKept'
  BY DEF MediaInv, NamedOnce, OwnsFile, ImagesKept, clips
<1> QED
  BY <1>1, ImagesMove

\* A row is added: with objects of its own that are there by now, with those
\* of another site, or with those of another image.
LEMMA RowInserted ==
    ASSUME MediaInv, NEW n, NEW row, ImageLike(row), row.there,
           image' = [image EXCEPT ![n] = row], UNCHANGED clips,
           n \in Image => row.file \in Image \cup {0},
           stored \subseteq stored', copied' = copied \cup ({row.file} \ {0, n}),
           row.file = n => Main(n) \in stored' /\ Thumb(n) \in stored'
    PROVE  MediaInv'
<1>1. ImagesLike'
  BY DEF MediaInv, ImagesLike
<1>2. \A i \in Image : \/ i = n /\ image'[i] = row
                       \/ image'[i] = image[i]
  BY DEF MediaInv, ImagesLike
<1>3. NamedOnce'
  BY <1>2 DEF MediaInv, NamedOnce
<1>4. ASSUME NEW i \in Image, OwnsFile(i)'
      PROVE  Main(i) \in stored' /\ (i \in lent' \/ Thumb(i) \in stored')
  <2>1. CASE i = n /\ image'[i] = row
    BY <2>1, <1>4 DEF OwnsFile
  <2>2. CASE image'[i] = image[i]
    BY <2>2, <1>4 DEF OwnsFile, MediaInv, ImagesKept, clips
  <2> QED
    BY <2>1, <2>2, <1>2
<1> QED
  BY <1>1, <1>3, <1>4, ImagesMove DEF ImagesKept

LEMMA FinishUploadKeeps ==
    ASSUME MediaInv, NEW u \in Upload, FinishUpload(u) PROVE MediaInv'
<1> DEFINE n == upload[u].image
           row == [there |-> TRUE, product |-> upload[u].product, order |-> upload[u].order,
                   primary |-> upload[u].primary, file |-> n]
<1>1. /\ stored' = stored \cup {Main(n), Thumb(n)}
      /\ image' = [image EXCEPT ![n] = row] \/ image' = image
      /\ UNCHANGED <<copied, clips>>
  BY DEF FinishUpload
<1>2. ImageLike(row) /\ row.there /\ row.file = n
  BY DEF ImageLike
<1> HIDE DEF row, n
<1>3. CASE image' = [image EXCEPT ![n] = row]
  BY <1>1, <1>2, <1>3, RowInserted
<1>4. CASE image' = image
  <2>1. ImagesLike' /\ NamedOnce' /\ ImagesKept'
    BY <1>1, <1>4 DEF MediaInv, ImagesLike, NamedOnce, OwnsFile, ImagesKept, clips
  <2> QED
    BY <2>1, <1>1, ImagesMove
<1> QED
  BY <1>1, <1>3, <1>4

LEMMA ImportKeeps ==
    ASSUME MediaInv, NEW p \in Product, ImportImage(p) PROVE MediaInv'
<1> DEFINE n == images + 1
           row(f) == [there |-> TRUE, product |-> p, order |-> NextOrder(p),
                      primary |-> Gallery(p) = {}, file |-> f]
<1>1. PICK f \in {0, n} \cup {g \in Image : Main(g) \in stored} :
          /\ image' = [image EXCEPT ![n] = row(f)]
          /\ stored' = stored \cup (IF f = n THEN {Main(n), Thumb(n)} ELSE {})
          /\ copied' = copied \cup ({f} \ {0, n})
  BY DEF ImportImage
<1>2. UNCHANGED clips
  BY DEF ImportImage
<1>3. ImageLike(row(f)) /\ row(f).there /\ row(f).file = f
  BY DEF ImageLike
<1> HIDE DEF row, n
<1> QED
  BY <1>1, <1>2, <1>3, RowInserted

\* A row that is sorted or made primary is the row it was.
LEMMA RowEdited ==
    ASSUME MediaInv, UNCHANGED <<copied, clips, stored>>, image' = [i \in Image |-> image'[i]],
           \A i \in Image : \/ image'[i] = image[i]
                            \/ \E n : image[i].there /\ image'[i] = [image[i] EXCEPT !.order = n]
                            \/ \E b : image[i].there /\ image'[i] = [image[i] EXCEPT !.primary = b]
    PROVE  MediaInv'
<1>1. ASSUME NEW i \in Image
      PROVE  /\ ImageLike(image'[i])
             /\ image'[i].there => image[i].there /\ image'[i].file = image[i].file
  <2>1. ImageLike(image[i])
    BY DEF MediaInv, ImagesLike
  <2>2. CASE image'[i] = image[i]
    BY <2>1, <2>2
  <2>3. ASSUME image[i].there,
               \/ \E n : image'[i] = [image[i] EXCEPT !.order = n]
               \/ \E b : image'[i] = [image[i] EXCEPT !.primary = b]
        PROVE  /\ ImageLike(image'[i])
               /\ image'[i].file = image[i].file
    BY <2>1, <2>3 DEF ImageLike, Nothing
  <2> QED
    BY <2>2, <2>3
<1> QED
  BY <1>1, RowsStay DEF ImagesLike

LEMMA ReorderKeeps ==
    ASSUME MediaInv, NEW p \in Product, ReorderImages(p) PROVE MediaInv'
<1>1. UNCHANGED <<copied, clips, stored>>
  BY DEF ReorderImages
<1> PICK place :
        image' = [i \in Image |-> IF i \in Gallery(p)
                                  THEN [image[i] EXCEPT !.order = place[i]] ELSE image[i]]
  BY DEF ReorderImages
<1>2. \A i \in Image : i \in Gallery(p) => image[i].there
  BY DEF Gallery
<1> QED
  BY <1>1, <1>2, RowEdited

LEMMA SetPrimaryKeeps ==
    ASSUME MediaInv, NEW i \in Image, SetPrimary(i) PROVE MediaInv'
<1>1. /\ UNCHANGED <<copied, clips, stored>>
      /\ image' = [j \in Image |-> IF j \in Gallery(image[i].product)
                                   THEN [image[j] EXCEPT !.primary = j = i] ELSE image[j]]
  BY DEF SetPrimary
<1>2. \A j \in Image : j \in Gallery(image[i].product) => image[j].there
  BY DEF Gallery
<1> QED
  BY <1>1, <1>2, RowEdited

\* Images are dropped, with the objects of theirs that the storage lets go.
LEMMA ImagesDropped ==
    ASSUME MediaInv, NEW S \in SUBSET Image, NEW objects,
           objects \subseteq UNION {ImageObjects(i) : i \in S}, \A i \in S : image[i].there,
           stored' \in {stored \ objects, stored},
           UNCHANGED <<copied, clips>>, image' = [i \in Image |-> image'[i]],
           \A i \in Image :
               \/ image'[i] = Nothing
               \/ i \notin S /\ image'[i] = image[i]
               \/ i \notin S /\ image[i].there /\ image'[i] = [image[i] EXCEPT !.primary = TRUE]
    PROVE  MediaInv'
<1>1. ASSUME NEW i \in Image
      PROVE  /\ ImageLike(image'[i])
             /\ image'[i].there =>
                    i \notin S /\ image[i].there /\ image'[i].file = image[i].file
  <2>1. ImageLike(image[i])
    BY DEF MediaInv, ImagesLike
  <2>2. CASE image'[i] = Nothing
    BY <2>2 DEF ImageLike, Nothing
  <2>3. CASE i \notin S /\ image'[i] = image[i]
    BY <2>1, <2>3
  <2>4. CASE i \notin S /\ image[i].there /\ image'[i] = [image[i] EXCEPT !.primary = TRUE]
    BY <2>1, <2>4 DEF ImageLike, Nothing
  <2> QED
    BY <2>2, <2>3, <2>4
<1>2. ImagesLike'
  BY <1>1 DEF ImagesLike
<1>3. ASSUME NEW i \in Image, i \notin S, i \notin copied
      PROVE  Main(i) \notin objects /\ Thumb(i) \notin objects
  <2>1. ASSUME NEW k \in S PROVE Main(i) \notin ImageObjects(k) /\ Thumb(i) \notin ImageObjects(k)
    <3>1. image[k].file # i \/ image[k].file = 0
      BY <1>3 DEF MediaInv, NamedOnce
    <3> QED
      BY <3>1, Distinct DEF ImageObjects
  <2> QED
    BY <2>1
<1>4. NamedOnce' /\ ImagesKept'
  <2>1. NamedOnce'
    BY <1>1 DEF MediaInv, NamedOnce
  <2> SUFFICES ASSUME NEW i \in Image, OwnsFile(i)'
               PROVE  Main(i) \in stored' /\ (i \in lent' \/ Thumb(i) \in stored')
    BY <2>1 DEF ImagesKept
  <2>2. i \notin S /\ i \notin copied /\ Main(i) \in stored /\ (i \in lent \/ Thumb(i) \in stored)
    BY <1>1 DEF OwnsFile, MediaInv, ImagesKept
  <2> QED
    BY <2>2, <1>3 DEF clips
<1>5. \A v : Mp4(v) \notin objects /\ Source(v) \notin objects
  BY Distinct DEF ImageObjects
<1> QED
  BY <1>2, <1>4, <1>5, ImagesMove

LEMMA DeleteImageKeeps ==
    ASSUME MediaInv, NEW i \in Image, DeleteImage(i) PROVE MediaInv'
<1> DEFINE left == Gallery(image[i].product) \ {i}
<1>1. /\ stored' \in {stored \ ImageObjects(i), stored}
      /\ image' = Promoted(i) /\ UNCHANGED <<copied, clips>> /\ image[i].there
  BY DEF DeleteImage, Unlink
<1>2. ImageObjects(i) \subseteq UNION {ImageObjects(j) : j \in {i}}
  OBVIOUS
<1>3. left # {} /\ First(left) \in left => image[First(left)].there
  BY DEF Gallery
<1>4. image' = [j \in Image |->
                  IF j = i THEN Nothing
                  ELSE IF image[i].primary /\ left # {} /\ j = First(left)
                  THEN [image[j] EXCEPT !.primary = TRUE] ELSE image[j]]
  BY <1>1 DEF Promoted
<1>5. ASSUME NEW j \in Image
      PROVE  \/ image'[j] = Nothing
             \/ j # i /\ image'[j] = image[j]
             \/ j # i /\ image[j].there /\ image'[j] = [image[j] EXCEPT !.primary = TRUE]
  <2>1. CASE j # i /\ ~image[j].there
    BY <1>4, <2>1 DEF MediaInv, ImagesLike, ImageLike, Nothing
  <2>2. CASE j = i \/ image[j].there
    BY <1>4, <2>2
  <2> QED
    BY <2>1, <2>2
<1> HIDE DEF left
<1>6. image' = [j \in Image |-> image'[j]]
  BY <1>4
<1> DEFINE S == {i}
           objects == ImageObjects(i)
<1>7. /\ S \in SUBSET Image
      /\ objects \subseteq UNION {ImageObjects(j) : j \in S} /\ \A j \in S : image[j].there
      /\ stored' \in {stored \ objects, stored} /\ UNCHANGED <<copied, clips>>
      /\ \A j \in Image :
             \/ image'[j] = Nothing
             \/ j \notin S /\ image'[j] = image[j]
             \/ j \notin S /\ image[j].there /\ image'[j] = [image[j] EXCEPT !.primary = TRUE]
  BY <1>1, <1>2, <1>5
<1> HIDE DEF S, objects
<1> QED
  BY <1>6, <1>7, ImagesDropped

LEMMA RemoveGalleryKeeps == ASSUME MediaInv, RemoveGallery PROVE MediaInv'
<1> DEFINE S == Gallery(removal.product)
           objects == UNION {ImageObjects(i) : i \in S}
<1>1. /\ stored' \in {stored \ objects, stored}
      /\ image' = WithoutGallery(removal.product) /\ UNCHANGED <<copied, clips>>
  BY DEF RemoveGallery, Unlink
<1>2. S \subseteq Image /\ \A i \in S : image[i].there
  BY DEF Gallery
<1>3. objects \subseteq UNION {ImageObjects(i) : i \in S}
  OBVIOUS
<1>4. image' = [i \in Image |-> IF i \in S THEN Nothing ELSE image[i]]
  BY <1>1 DEF WithoutGallery
<1> HIDE DEF S, objects
<1> QED
  BY <1>1, <1>2, <1>3, <1>4, ImagesDropped

LEMMA EndRemovalKeeps == ASSUME MediaInv, EndRemoval PROVE MediaInv'
<1>1. UNCHANGED <<copied, clips, stored>>
  BY DEF EndRemoval
<1>2. CASE UNCHANGED image
  BY <1>1, <1>2, AllAlone
<1>3. CASE image' = WithoutGallery(removal.product)
  <2>1. /\ image' = [i \in Image |-> image'[i]]
        /\ \A i \in Image : image'[i] = Nothing \/ image'[i] = image[i]
    BY <1>3 DEF WithoutGallery
  <2>2. \A i \in Image : image'[i].there => image[i].there /\ image'[i].file = image[i].file
    BY <2>1 DEF Nothing
  <2>3. ImagesLike'
    BY <2>1 DEF MediaInv, ImagesLike, ImageLike
  <2> QED
    BY <1>1, <2>2, <2>3, RowsStay
<1> QED
  BY <1>2, <1>3 DEF EndRemoval

LEMMA GalleryKeeps == ASSUME MediaInv, GalleryNext PROVE MediaInv'
<1>1. ASSUME NEW u \in Upload, (\E p \in Product : StartUpload(u, p)) \/ FailUpload(u)
      PROVE  MediaInv'
  BY <1>1, AllAlone DEF StartUpload, FailUpload
<1>2. ASSUME NEW u \in Upload, FinishUpload(u) PROVE MediaInv'
  BY <1>2, FinishUploadKeeps
<1>3. ASSUME NEW p \in Product, ImportImage(p) \/ ReorderImages(p) PROVE MediaInv'
  BY <1>3, ImportKeeps, ReorderKeeps
<1>4. ASSUME NEW i \in Image, DeleteImage(i) \/ SetPrimary(i) PROVE MediaInv'
  BY <1>4, DeleteImageKeeps, SetPrimaryKeeps
<1> QED
  BY <1>1, <1>2, <1>3, <1>4 DEF GalleryNext

-----------------------------------------------------------------------------
(* Videos.                                                                 *)

\* Videos change; storage loses of images only thumbnails that were lent.
LEMMA ClipsMove ==
    ASSUME MediaInv, UNCHANGED <<image, copied>>, lent \subseteq lent',
           ClipsLike', ClipsKept', PostersLent', Working',
           \A i \in Image : /\ Main(i) \in stored => Main(i) \in stored'
                            /\ Thumb(i) \in stored => i \in lent' \/ Thumb(i) \in stored'
    PROVE  MediaInv'
<1>1. ImagesLike' /\ NamedOnce' /\ ImagesKept'
  BY DEF MediaInv, ImagesLike, NamedOnce, OwnsFile, ImagesKept
<1> QED
  BY <1>1 DEF MediaInv

LEMMA FilesOf ==
    ASSUME MediaInv, NEW v \in Video, video[v].there
    PROVE  /\ \A i \in Image : Main(i) \notin VideoFiles(v)
           /\ \A i \in Image : Thumb(i) \in VideoFiles(v) => i \in lent
           /\ \A w \in Video : Source(w) \in VideoFiles(v) => w = v
           /\ \A w \in Video : Mp4(w) \in VideoFiles(v) => w = v /\ Status(v) = "ready"
<1>1. video[v].poster = 0 \/ video[v].poster \in lent
  BY DEF MediaInv, PostersLent
<1>2. VideoFiles(v) \subseteq {Source(v)} \cup (IF Status(v) = "ready" THEN {Mp4(v)} ELSE {})
                               \cup {Thumb(i) : i \in lent}
  BY <1>1 DEF VideoFiles
<1> QED
  BY <1>2, Distinct

\* Videos are dropped, with the files of theirs that the storage lets go.
LEMMA ClipsDropped ==
    ASSUME MediaInv, NEW S \in SUBSET Video, \A v \in S : video[v].there,
           stored' \in {stored \ UNION {VideoFiles(v) : v \in S}, stored},
           video' = [v \in Video |-> IF v \in S THEN Nothing ELSE video[v]],
           UNCHANGED <<image, copied, videos, worker, lent>>
    PROVE  MediaInv'
<1> DEFINE gone == UNION {VideoFiles(v) : v \in S}
<1>1. /\ \A i \in Image : Main(i) \notin gone
      /\ \A i \in Image : Thumb(i) \in gone => i \in lent
      /\ \A w \in Video : Source(w) \in gone => w \in S
      /\ \A w \in Video : Mp4(w) \in gone => w \in S /\ Status(w) = "ready"
  BY FilesOf
<1> HIDE DEF gone
<1>0. stored' \in {stored \ gone, stored}
  BY DEF gone
<1>2. ASSUME NEW v \in Video
      PROVE  /\ v \in S => ~video'[v].there /\ Status(v)' = "none"
             /\ v \notin S => video'[v] = video[v] /\ Status(v)' = Status(v)
  BY DEF Nothing, Status
<1>3. ClipsLike'
  BY DEF MediaInv, ClipsLike, ClipLike
<1>4. ClipsKept'
  BY <1>0, <1>1, <1>2 DEF MediaInv, ClipsKept
<1>5. PostersLent'
  BY <1>2 DEF MediaInv, PostersLent
<1>6. Working'
  BY <1>0, <1>1, <1>2 DEF MediaInv, Working
<1> QED
  BY <1>0, <1>1, <1>3, <1>4, <1>5, <1>6, ClipsMove

LEMMA DeleteVideoKeeps ==
    ASSUME MediaInv, NEW v \in Video, DeleteVideo(v) PROVE MediaInv'
<1>1. /\ video[v].there /\ video' = [video EXCEPT ![v] = Nothing]
      /\ stored' \in {stored \ VideoFiles(v), stored}
      /\ UNCHANGED <<image, copied, videos, worker, lent>>
  BY DEF DeleteVideo, Unlink, gallery
<1> DEFINE S == {v}
<1>2. video' = [w \in Video |-> IF w \in S THEN Nothing ELSE video[w]]
  BY <1>1 DEF MediaInv, ClipsLike
<1>3. /\ S \in SUBSET Video /\ \A w \in S : video[w].there
      /\ UNION {VideoFiles(w) : w \in S} = VideoFiles(v)
  BY <1>1
<1> HIDE DEF S
<1> QED
  BY <1>1, <1>2, <1>3, ClipsDropped

LEMMA StartRemovalKeeps ==
    ASSUME MediaInv, NEW p \in Product, NEW delete \in BOOLEAN, StartRemoval(p, delete)
    PROVE  MediaInv'
<1> DEFINE S == VideoOf(p)
<1>1. /\ video' = [v \in Video |-> IF v \in S THEN Nothing ELSE video[v]]
      /\ stored' \in {stored \ UNION {VideoFiles(v) : v \in S}, stored}
      /\ UNCHANGED <<image, copied, videos, worker, lent>>
  BY DEF StartRemoval, Unlink, gallery
<1>2. S \subseteq Video /\ \A v \in S : video[v].there
  BY DEF VideoOf
<1> HIDE DEF S
<1> QED
  BY <1>1, <1>2, ClipsDropped

LEMMA QueueKeeps ==
    ASSUME MediaInv, MediaAssumption, NEW p \in Product, QueueVideo(p) PROVE MediaInv'
<1> DEFINE S == VideoOf(p)
           n == videos + 1
           row == [there |-> TRUE, product |-> p, status |-> "queued", poster |-> 0,
                   leased |-> FALSE]
           all == UNION {VideoFiles(v) : v \in S}
<1> PICK gone \in {all, {}} : stored' = (stored \ gone) \cup {Source(n)}
  BY DEF QueueVideo
<1>1. /\ videos < MaxVideo /\ videos' = n
      /\ video' = [v \in Video |-> IF v = n THEN row ELSE IF v \in S THEN Nothing ELSE video[v]]
      /\ UNCHANGED <<image, copied, worker, lent>>
  BY DEF QueueVideo, gallery
<1>2. videos \in Nat /\ n \in Video /\ n > videos
  BY <1>1 DEF MediaInv, ClipsLike, MediaAssumption, Video
<1>3. S \subseteq Video /\ \A v \in S : video[v].there
  BY DEF VideoOf
<1>4. /\ \A i \in Image : Main(i) \notin gone
      /\ \A i \in Image : Thumb(i) \in gone => i \in lent
      /\ \A w \in Video : Source(w) \in gone => w \in S
      /\ \A w \in Video : Mp4(w) \in gone => w \in S /\ Status(w) = "ready"
  BY <1>3, FilesOf
<1> HIDE DEF S, all
<1>5. ASSUME NEW v \in Video
      PROVE  /\ v = n => video'[v] = row /\ Status(v)' = "queued"
             /\ v # n /\ v \in S => video'[v] = Nothing /\ Status(v)' = "none"
             /\ v # n /\ v \notin S => video'[v] = video[v] /\ Status(v)' = Status(v)
  BY <1>1, <1>2 DEF Nothing, Status
<1>6. ClipLike(row) /\ row.there /\ row.poster = 0 /\ ClipLike(Nothing) /\ ~Nothing.there
  BY DEF ClipLike, Nothing
<1> HIDE DEF row
<1>7. ClipsLike'
  <2>1. video' = [v \in Video |-> video'[v]]
    BY <1>1
  <2>2. \A v \in Video : ClipLike(video'[v])
    BY <1>5, <1>6 DEF MediaInv, ClipsLike
  <2> QED
    BY <1>1, <1>2, <2>1, <2>2 DEF MediaInv, ClipsLike
<1>8. ClipsKept'
  BY <1>4, <1>5 DEF MediaInv, ClipsKept
<1>9. PostersLent'
  <2> SUFFICES ASSUME NEW v \in Video, video'[v].there
               PROVE  v <= videos' /\ (video'[v].poster = 0 \/ video'[v].poster \in lent')
    BY DEF PostersLent
  <2>1. CASE v = n
    BY <2>1, <1>1, <1>2, <1>5, <1>6
  <2>2. CASE v # n
    <3>1. video'[v] = video[v]
      BY <2>2, <1>5, <1>6
    <3>2. v <= videos /\ (video[v].poster = 0 \/ video[v].poster \in lent)
      BY <3>1 DEF MediaInv, PostersLent
    <3>3. v \in Int
      BY DEF Video
    <3> QED
      BY <3>1, <3>2, <3>3, <1>1, <1>2
  <2> QED
    BY <2>1, <2>2
<1>10. Working'
  <2> SUFFICES ASSUME worker.busy
               PROVE  /\ worker.video \in Video /\ worker.video <= videos'
                      /\ Status(worker.video)' \notin {"queued", "ready"}
                      /\ worker.done => Mp4(worker.video) \in stored'
    BY <1>1 DEF Working, Status
  <2>1. /\ worker.video \in Video /\ worker.video <= videos /\ worker.video \in Int
        /\ Status(worker.video) \notin {"queued", "ready"}
        /\ worker.done => Mp4(worker.video) \in stored
    BY DEF MediaInv, Working, Video
  <2>2. worker.video # n /\ worker.video <= videos'
    BY <2>1, <1>1, <1>2
  <2>3. UNCHANGED worker
    BY <1>1
  <2>4. Status(worker.video)' \in {"none", Status(worker.video)}
    BY <2>1, <2>2, <2>3, <1>1, <1>2 DEF Status, Nothing
  <2> QED
    BY <2>1, <2>2, <2>4, <1>4
<1> QED
  BY <1>1, <1>4, <1>7, <1>8, <1>9, <1>10, ClipsMove

\* Videos move on, none to 'queued' or 'ready'; storage loses sources of
\* videos that do not wait.
LEMMA ClipsAdvance ==
    ASSUME MediaInv, UNCHANGED <<image, copied, videos, lent>>,
           video' = [v \in Video |-> video'[v]], WorkerLike(worker'),
           \A v \in Video :
               /\ ClipLike(video'[v])
               /\ video'[v].there => /\ video[v].there
                                     /\ video'[v].poster = video[v].poster
               /\ Status(v)' = Status(v) \/ Status(v)' \notin {"queued", "ready"},
           NEW gone, gone \subseteq {Source(v) : v \in {w \in Video : Status(w)' # "queued"}},
           stored' = stored \ gone,
           Working'
    PROVE  MediaInv'
<1>1. /\ \A i \in Image : Main(i) \notin gone /\ Thumb(i) \notin gone
      /\ \A w \in Video : Mp4(w) \notin gone
      /\ \A w \in Video : Source(w) \in gone => Status(w)' # "queued"
  BY Distinct
<1>2. ClipsLike'
  BY DEF MediaInv, ClipsLike
<1>3. ClipsKept'
  BY <1>1 DEF MediaInv, ClipsKept
<1>4. PostersLent'
  BY DEF MediaInv, PostersLent
<1> QED
  BY <1>1, <1>2, <1>3, <1>4, ClipsMove

\* A row of a video changes its status.
LEMMA StatusEdited ==
    ASSUME NEW x, NEW y, NEW s, NEW b, NEW q, ClipLike(x), x.there,
           y = [x EXCEPT !.status = s]
    PROVE  ClipLike(y) /\ y.there /\ y.poster = x.poster /\ y.status = s
<1>1. x = [there |-> TRUE, product |-> x.product, status |-> x.status,
           poster |-> x.poster, leased |-> x.leased]
  BY DEF ClipLike, Nothing
<1>2. y = [there |-> TRUE, product |-> x.product, status |-> s,
           poster |-> x.poster, leased |-> x.leased]
  BY <1>1
<1> QED
  BY <1>2 DEF ClipLike

LEMMA LeaseKeeps ==
    ASSUME MediaInv, NEW v \in Video, LeaseExpires(v) PROVE MediaInv'
<1>1. /\ video' = [video EXCEPT ![v].leased = FALSE]
      /\ UNCHANGED <<image, copied, worker, videos, lent, stored>>
      /\ Status(v) = "transcoding"
  BY DEF LeaseExpires, Transcoding, gallery
<1>2. video = [w \in Video |-> video[w]] /\ \A w \in Video : ClipLike(video[w])
  BY DEF MediaInv, ClipsLike
<1>3. video[v].there /\ video'[v] = [video[v] EXCEPT !.leased = FALSE]
  BY <1>1, <1>2 DEF Status
<1>4. /\ ClipLike(video'[v]) /\ video'[v].there /\ video'[v].poster = video[v].poster
      /\ video'[v].status = video[v].status
  BY <1>2, <1>3 DEF ClipLike, Nothing
<1>5. ASSUME NEW w \in Video
      PROVE  /\ ClipLike(video'[w])
             /\ video'[w].there = video[w].there
             /\ video'[w].there => video'[w].poster = video[w].poster
             /\ Status(w)' = Status(w)
  <2>1. CASE w = v
    BY <2>1, <1>3, <1>4 DEF Status
  <2>2. CASE w # v
    BY <2>2, <1>1, <1>2 DEF Status
  <2> QED
    BY <2>1, <2>2
<1>6. video' = [w \in Video |-> video'[w]]
  BY <1>1, <1>2
<1>7. Working'
  BY <1>1, <1>5 DEF MediaInv, Working
<1>8. stored' = stored \ {} /\ WorkerLike(worker')
  BY <1>1 DEF MediaInv, ClipsLike
<1> QED
  BY <1>1, <1>5, <1>6, <1>7, <1>8, ClipsAdvance

-----------------------------------------------------------------------------
(* The drain.                                                              *)

LEMMA DrainKeeps == ASSUME MediaInv, Drain PROVE MediaInv'
<1> DEFINE gone == {Source(v) : v \in {w \in Video : Expired(w)}}
<1>1. /\ worker = Idle /\ UNCHANGED <<image, copied, videos, lent>> /\ stored' = stored \ gone
      /\ video' = [v \in Video |->
             IF Expired(v) THEN [video[v] EXCEPT !.status = "failed"]
             ELSE IF v \in Claimable
             THEN [video[v] EXCEPT !.status = "transcoding", !.leased = TRUE]
             ELSE video[v]]
      /\ worker' = IF Claimable = {} THEN Idle
                   ELSE [busy |-> TRUE, video |-> CHOOSE v \in Claimable : TRUE,
                         done |-> FALSE, poster |-> 0]
  BY DEF Drain, gallery
<1>2. \A v \in Claimable : v \in Video /\ Status(v) = "queued"
  BY DEF Claimable
<1>3. \A v \in Video : ClipLike(video[v])
  BY DEF MediaInv, ClipsLike
<1>4. ASSUME NEW v \in Video
      PROVE  /\ ClipLike(video'[v])
             /\ video'[v].there => video[v].there /\ video'[v].poster = video[v].poster
             /\ Expired(v) => Status(v)' = "failed"
             /\ v \in Claimable => Status(v)' = "transcoding"
             /\ \/ Status(v)' = Status(v)
                \/ Status(v)' \in {"failed", "transcoding"}
  <2>1. CASE Expired(v)
    <3>1. video[v].there /\ video'[v] = [video[v] EXCEPT !.status = "failed"]
      BY <1>1, <2>1 DEF Expired, Transcoding, Status
    <3>2. /\ ClipLike(video'[v]) /\ video'[v].there
          /\ video'[v].poster = video[v].poster /\ video'[v].status = "failed"
      BY <1>3, <3>1, StatusEdited
    <3>3. v \notin Claimable
      BY <1>2, <2>1 DEF Expired, Transcoding
    <3> QED
      BY <3>1, <3>2, <3>3 DEF Status
  <2>2. CASE ~Expired(v) /\ v \in Claimable
    <3>1. /\ video[v].there
          /\ video'[v] = [video[v] EXCEPT !.status = "transcoding", !.leased = TRUE]
      BY <1>1, <1>2, <2>2 DEF Status
    <3>2. /\ ClipLike(video'[v]) /\ video'[v].there
          /\ video'[v].poster = video[v].poster /\ video'[v].status = "transcoding"
      <4>1. video[v] = [there |-> TRUE, product |-> video[v].product, status |-> video[v].status,
                  poster |-> video[v].poster, leased |-> video[v].leased]
        BY <1>3, <3>1 DEF ClipLike, Nothing
      <4>2. video'[v] = [there |-> TRUE, product |-> video[v].product, status |-> "transcoding",
                  poster |-> video[v].poster, leased |-> TRUE]
        BY <4>1, <3>1
      <4> QED
        BY <4>2 DEF ClipLike
    <3> QED
      BY <2>2, <3>1, <3>2 DEF Status
  <2>3. CASE ~Expired(v) /\ v \notin Claimable
    <3>1. video'[v] = video[v]
      BY <1>1, <2>3
    <3> QED
      BY <1>3, <2>3, <3>1 DEF Status
  <2> QED
    BY <2>1, <2>2, <2>3
<1>5. Working' /\ WorkerLike(worker')
  <2>1. CASE Claimable = {}
    BY <1>1, <2>1 DEF Working, WorkerLike, Idle
  <2>2. CASE Claimable # {}
    <3> DEFINE c == CHOOSE v \in Claimable : TRUE
    <3>1. c \in Claimable
      BY <2>2
    <3>2. worker' = [busy |-> TRUE, video |-> c, done |-> FALSE, poster |-> 0]
      BY <1>1, <2>2
    <3> HIDE DEF c
    <3>3. /\ worker'.video = c /\ worker'.done = FALSE /\ WorkerLike(worker')
      BY <3>2 DEF WorkerLike
    <3>4. c \in Video /\ c <= videos
      BY <1>2, <3>1 DEF MediaInv, PostersLent, Status
    <3>5. (IF video'[c].there THEN video'[c].status ELSE "none") = "transcoding"
      BY <1>4, <3>1, <3>4 DEF Status
    <3> QED
      BY <3>3, <3>4, <3>5, <1>1 DEF Working, Status
  <2> QED
    BY <2>1, <2>2
<1>6. gone \subseteq {Source(v) : v \in {w \in Video : Status(w)' # "queued"}}
  BY <1>4
<1>7. video' = [v \in Video |-> video'[v]]
  BY <1>1
<1> HIDE DEF gone
<1> QED
  BY <1>1, <1>4, <1>5, <1>6, <1>7, ClipsAdvance

LEMMA OutputsKeep == ASSUME MediaInv, UploadOutputs PROVE MediaInv'
<1>1. /\ worker.busy /\ stored' = stored \cup {Mp4(worker.video)}
      /\ UNCHANGED <<image, copied, video, videos, lent>>
  BY DEF UploadOutputs, gallery
<1> PICK poster : worker' = [worker EXCEPT !.done = TRUE, !.poster = poster]
  BY DEF UploadOutputs
<1>2. /\ WorkerLike(worker') /\ worker'.video = worker.video
  BY <1>1 DEF MediaInv, ClipsLike, WorkerLike, Idle
<1>3. ClipsLike' /\ ClipsKept' /\ PostersLent'
  BY <1>1, <1>2 DEF MediaInv, ClipsLike, ClipsKept, PostersLent, Status
<1>4. Working'
  BY <1>1, <1>2 DEF MediaInv, Working, Status
<1> QED
  BY <1>1, <1>3, <1>4, ClipsMove

LEMMA ReadyKeeps == ASSUME MediaInv, MarkReady PROVE MediaInv'
<1> DEFINE v == worker.video
<1>1. /\ worker.busy /\ worker.done /\ worker' = Idle
      /\ stored' = stored \ {Source(v)}
      /\ UNCHANGED <<image, copied, videos>>
  BY DEF MarkReady, gallery
<1>2. /\ v \in Video /\ v <= videos /\ Mp4(v) \in stored
      /\ Status(v) \notin {"queued", "ready"}
  BY <1>1 DEF MediaInv, Working
<1>3. ~worker'.busy /\ WorkerLike(worker')
  BY <1>1 DEF WorkerLike, Idle
<1>4. CASE ~Transcoding(v)
  <2>1. UNCHANGED <<video, lent>>
    BY <1>4 DEF MarkReady
  <2>2. /\ video' = [w \in Video |-> video'[w]]
        /\ \A w \in Video : ClipLike(video'[w]) /\ Status(w)' = Status(w)
    BY <2>1 DEF MediaInv, ClipsLike, Status
  <2>3. {Source(v)} \subseteq {Source(w) : w \in {x \in Video : Status(x)' # "queued"}}
    BY <1>2, <2>2
  <2>4. Working'
    BY <1>3 DEF Working
  <2> HIDE DEF v
  <2> QED
    BY <1>1, <1>3, <2>1, <2>2, <2>3, <2>4, ClipsAdvance
<1>5. CASE Transcoding(v)
  <2>1. /\ v = worker.video
        /\ video' = [video EXCEPT ![v].status = "ready", ![v].poster = worker.poster,
                                  ![v].leased = FALSE]
        /\ lent' = lent \cup ({worker.poster} \ {0})
    BY <1>5 DEF MarkReady
  <2> HIDE DEF v
  <2>2. video = [w \in Video |-> video[w]] /\ \A w \in Video : ClipLike(video[w])
    BY DEF MediaInv, ClipsLike
  <2>3. video[v].there
    BY <1>5 DEF Transcoding, Status
  <2>4. /\ video' = [w \in Video |-> video'[w]]
        /\ \A w \in Video : w # v => video'[w] = video[w]
        /\ video'[v] = [video[v] EXCEPT !.status = "ready", !.poster = worker.poster,
                                        !.leased = FALSE]
    BY <1>2, <2>1, <2>2
  <2>5. /\ ClipLike(video'[v]) /\ video'[v].there /\ video'[v].poster = worker.poster
        /\ video'[v].status = "ready"
    <3> DEFINE x == video[v]
               y == video'[v]
               po == worker.poster
    <3>1. \E p, st, q, l : x = [there |-> TRUE, product |-> p, status |-> st,
                                poster |-> q, leased |-> l]
      BY <1>2, <2>2, <2>3 DEF ClipLike, Nothing
    <3>2. y = [x EXCEPT !.status = "ready", !.poster = po, !.leased = FALSE]
      BY <2>4
    <3> HIDE DEF x, y, po
    <3>3. ClipLike(y) /\ y.there /\ y.poster = po /\ y.status = "ready"
      <4> PICK p, st, q, l : x = [there |-> TRUE, product |-> p, status |-> st,
                                  poster |-> q, leased |-> l]
        BY <3>1
      <4>1. y = [there |-> TRUE, product |-> p, status |-> "ready",
                 poster |-> po, leased |-> FALSE]
        BY <3>2
      <4> QED
        BY <4>1 DEF ClipLike
    <3> QED
      BY <3>3 DEF x, y, po
  <2>6. ClipsLike'
    BY <1>1, <1>3, <2>2, <2>4, <2>5 DEF MediaInv, ClipsLike
  <2>7. ASSUME NEW w \in Video
        PROVE  /\ w = v => Status(w)' = "ready"
               /\ w # v => Status(w)' = Status(w) /\ video'[w] = video[w]
    BY <2>4, <2>5 DEF Status
  <2>8. /\ \A w \in Video : w # v /\ Source(w) \in stored => Source(w) \in stored'
        /\ \A w \in Video : Mp4(w) \in stored => Mp4(w) \in stored'
        /\ \A i \in Image : /\ Main(i) \in stored => Main(i) \in stored'
                            /\ Thumb(i) \in stored => Thumb(i) \in stored'
    BY <1>1, Distinct
  <2>9. ClipsKept'
    BY <1>2, <2>7, <2>8 DEF MediaInv, ClipsKept
  <2>10. lent \subseteq lent' /\ (worker.poster = 0 \/ worker.poster \in lent')
    BY <2>1
  <2>11. PostersLent'
    <3>1. \A w \in Video : video[w].there =>
              w <= videos /\ (video[w].poster = 0 \/ video[w].poster \in lent)
      BY DEF MediaInv, PostersLent
    <3>2. \A w \in Video : video'[w].there =>
              w <= videos /\ (video'[w].poster = 0 \/ video'[w].poster \in lent')
      BY <3>1, <1>2, <2>4, <2>5, <2>10
    <3> QED
      BY <3>2, <1>1 DEF PostersLent
  <2>12. Working'
    BY <1>3 DEF Working
  <2>13. \A i \in Image : /\ Main(i) \in stored => Main(i) \in stored'
                          /\ Thumb(i) \in stored => i \in lent' \/ Thumb(i) \in stored'
    BY <2>8
  <2>14. UNCHANGED <<image, copied>> /\ lent \subseteq lent'
    BY <1>1, <2>10
  <2> QED
    BY <2>6, <2>9, <2>11, <2>12, <2>13, <2>14, ClipsMove
<1> QED
  BY <1>4, <1>5

LEMMA FailKeeps == ASSUME MediaInv, FailTranscode PROVE MediaInv'
<1> DEFINE v == worker.video
<1>1. /\ worker.busy /\ worker' = Idle /\ stored' = stored \ {Source(v)}
      /\ UNCHANGED <<image, copied, videos, lent>>
      /\ video' = IF Transcoding(v)
                  THEN [video EXCEPT ![v].status = "failed", ![v].leased = FALSE] ELSE video
  BY DEF FailTranscode, gallery
<1>2. v \in Video /\ Status(v) \notin {"queued", "ready"}
  BY <1>1 DEF MediaInv, Working
<1>3. ~worker'.busy /\ WorkerLike(worker')
  BY <1>1 DEF WorkerLike, Idle
<1>4. video = [w \in Video |-> video[w]] /\ \A w \in Video : ClipLike(video[w])
  BY DEF MediaInv, ClipsLike
<1> HIDE DEF v
<1>5. ASSUME NEW w \in Video
      PROVE  /\ ClipLike(video'[w])
             /\ video'[w].there => video[w].there /\ video'[w].poster = video[w].poster
             /\ Status(w)' = Status(w) \/ Status(w)' = "failed"
  <2>1. CASE w = v /\ Transcoding(v)
    <3>1. video[w].there
      BY <2>1 DEF Transcoding, Status
    <3>2. video'[w] = [video[w] EXCEPT !.status = "failed", !.leased = FALSE]
      BY <1>1, <1>2, <1>4, <2>1
    <3>3. /\ ClipLike(video'[w]) /\ video'[w].there
          /\ video'[w].poster = video[w].poster /\ video'[w].status = "failed"
      <4> DEFINE x == video[w]
                 y == video'[w]
      <4>1. \E p, st, po, l : x = [there |-> TRUE, product |-> p, status |-> st,
                                   poster |-> po, leased |-> l]
        BY <1>4, <3>1 DEF ClipLike, Nothing
      <4>2. y = [x EXCEPT !.status = "failed", !.leased = FALSE]
        BY <3>2
      <4> HIDE DEF x, y
      <4>3. ClipLike(y) /\ y.there /\ y.poster = x.poster /\ y.status = "failed"
        <5> PICK p, st, po, l : x = [there |-> TRUE, product |-> p, status |-> st,
                                     poster |-> po, leased |-> l]
          BY <4>1
        <5>1. y = [there |-> TRUE, product |-> p, status |-> "failed",
                   poster |-> po, leased |-> FALSE]
          BY <4>2
        <5> QED
          BY <5>1 DEF ClipLike
      <4> QED
        BY <4>3 DEF x, y
    <3> QED
      BY <3>1, <3>3 DEF Status
  <2>2. CASE ~(w = v /\ Transcoding(v))
    <3>1. video'[w] = video[w]
      BY <1>1, <1>4, <2>2
    <3> QED
      BY <1>4, <3>1 DEF Status
  <2> QED
    BY <2>1, <2>2
<1>6. video' = [w \in Video |-> video'[w]]
  BY <1>1, <1>4
<1>8. {Source(v)} \subseteq {Source(w) : w \in {x \in Video : Status(x)' # "queued"}}
  BY <1>2, <1>5
<1>9. Working'
  BY <1>3 DEF Working
<1> QED
  BY <1>1, <1>3, <1>5, <1>6, <1>8, <1>9, ClipsAdvance

-----------------------------------------------------------------------------
LEMMA NextInv == ASSUME MediaInv, MediaAssumption, [Next]_vars PROVE MediaInv'
<1>1. CASE GalleryNext
  BY <1>1, GalleryKeeps
<1>2. CASE VideoNext
  BY <1>2, QueueKeeps, DeleteVideoKeeps, LeaseKeeps, DrainKeeps, OutputsKeep, ReadyKeeps,
     FailKeeps DEF VideoNext
<1>3. CASE RemovalNext
  BY <1>3, StartRemovalKeeps, RemoveGalleryKeeps, EndRemovalKeeps DEF RemovalNext
<1>4. CASE Crash
  <2>1. /\ UNCHANGED <<image, copied, video, videos, lent, stored>> /\ worker' = Idle
    BY <1>4 DEF Crash
  <2>2. ClipsLike' /\ ClipsKept' /\ PostersLent' /\ Working'
    BY <2>1 DEF MediaInv, ClipsLike, ClipsKept, PostersLent, Working, WorkerLike, Status, Idle
  <2> QED
    BY <2>1, <2>2, ClipsMove
<1>5. CASE UNCHANGED vars
  BY <1>5, AllAlone DEF vars, gallery
<1> QED
  BY <1>1, <1>2, <1>3, <1>4, <1>5 DEF Next

\* Whatever uploads, transcodes, replacements and removals overlap, whatever
\* the storage refuses and whenever the process is killed: what a row of
\* product_images or product_videos shows exists (an image's thumbnail unless
\* it was lent as a poster), and so does the source of a video that waits.
THEOREM MediaIsKept == ASSUME MediaAssumption PROVE Spec => []MediaKept
<1>1. Init => MediaInv
  BY InitInv
<1>2. MediaInv /\ [Next]_vars => MediaInv'
  BY NextInv
<1>3. MediaInv => MediaKept
  <2>1. ASSUME MediaInv, NEW i \in Image, Shown(i), i \notin copied PROVE OwnsFile(i)
    BY <2>1 DEF MediaInv, NamedOnce, OwnsFile, Shown, Image
  <2> QED
    BY <2>1 DEF MediaInv, ImagesKept, ClipsKept, MediaKept
<1> QED
  BY <1>1, <1>2, <1>3, PTL DEF Spec
-----------------------------------------------------------------------------
(* The primary image.                                                      *)

UploadRow == [busy : {TRUE}, product : Product, image : Image, order : Nat, primary : BOOLEAN]

\* Ids are given out once; an image that is being processed has no row yet.
IdsFresh ==
    /\ image \in [Image -> ImageRow \cup {Nothing}] /\ images \in Nat
    /\ upload \in [Upload -> UploadRow \cup {Idle}]
    /\ \A i \in Image : image[i].there => i <= images
    /\ \A u \in Upload : upload[u].busy =>
           upload[u].image <= images /\ ~image[upload[u].image].there
    /\ \A u, v \in Upload :
           upload[u].busy /\ upload[v].busy /\ upload[u].image = upload[v].image => u = v

\* A product has one primary image at most ...
PrimaryUnique ==
    \A i, j \in Image :
        /\ image[i].there /\ image[j].there /\ image[i].product = image[j].product
        /\ image[i].primary /\ image[j].primary
        => i = j

\* ... and one at least, when it has images ...
PrimaryThere ==
    \A p \in Product \ raced : Gallery(p) /= {} => \E i \in Gallery(p) : image[i].primary

\* ... to which an upload that found images adds another one.
UploadsAdd ==
    \A u \in Upload :
        /\ upload[u].busy /\ ~upload[u].primary
        /\ upload[u].product \in product \ raced
        => Gallery(upload[u].product) /= {}

GalleryInv == IdsFresh /\ PrimaryUnique /\ PrimaryThere /\ UploadsAdd

LEMMA GalleryMeansOne == ASSUME GalleryInv PROVE OnePrimary
<1> SUFFICES ASSUME NEW p \in Product \ raced, Gallery(p) /= {}
             PROVE  Cardinality({i \in Gallery(p) : image[i].primary}) = 1
  BY DEF OnePrimary
<1>1. PICK i \in Gallery(p) : image[i].primary
  BY DEF GalleryInv, PrimaryThere
<1>2. {j \in Gallery(p) : image[j].primary} = {i}
  BY <1>1 DEF GalleryInv, PrimaryUnique, Gallery
<1> QED
  BY <1>2, FS_Singleton

LEMMA ShownRow ==
    ASSUME IdsFresh, NEW i \in Image, image[i].there
    PROVE  /\ image[i] \in ImageRow /\ image[i].order \in Nat /\ image[i].product \in Product
           /\ i \in Nat /\ i \in 1..MaxImage
<1>1. image[i] \in ImageRow
  BY DEF IdsFresh, Nothing
<1>2. image[i].order \in Nat /\ image[i].product \in Product
  BY <1>1 DEF ImageRow
<1>3. i \in 1..MaxImage /\ i \in Nat
  BY MediaAssumption DEF Image, MediaAssumption
<1> QED
  BY <1>1, <1>2, <1>3

LEMMA UploadIds ==
    ASSUME IdsFresh, NEW u \in Upload, upload[u].busy
    PROVE  upload[u] \in UploadRow /\ upload[u].image \in Image /\ upload[u].image \in Nat
<1>1. upload[u] \in UploadRow
  BY DEF IdsFresh, Idle
<1>2. upload[u].image \in Image
  BY <1>1 DEF UploadRow
<1> QED
  BY <1>1, <1>2, MediaAssumption DEF Image, MediaAssumption

\* Every set of naturals has a first one.
LEMMA LeastNatural ==
    ASSUME NEW S, S \subseteq Nat, S /= {}
    PROVE  \E n \in S : \A m \in S : n <= m
<1>1. PICK R : R = OpToRel(<, Nat)
  OBVIOUS
<1>2. IsWellFoundedOn(R, Nat)
  BY <1>1, NatLessThanWellFounded
<1>3. PICK n \in S : \A m \in S : ~(<<m, n>> \in R)
  BY <1>2, WFMin
<1>4. \A m, k \in Nat : m < k => <<m, k>> \in R
  BY <1>1 DEF OpToRel
<1>5. \A m \in S : ~(m < n)
  BY <1>3, <1>4
<1> QED
  BY <1>5

\* A gallery has a first image.
LEMMA FirstThere ==
    ASSUME IdsFresh, NEW S, S \subseteq {i \in Image : image[i].there}, S /= {}
    PROVE  First(S) \in S
<1> DEFINE Orders == {image[i].order : i \in S}
<1>1. \A i \in S : image[i].order \in Nat /\ i \in Nat
  BY ShownRow
<1>2. PICK n \in Orders : \A m \in Orders : n <= m
  <2>1. Orders \subseteq Nat /\ Orders /= {}
    BY <1>1
  <2> HIDE DEF Orders
  <2> QED
    BY <2>1, LeastNatural
<1> DEFINE Ids == {i \in S : image[i].order = n}
<1>3. PICK i \in Ids : \A j \in Ids : i <= j
  <2>1. Ids \subseteq Nat /\ Ids /= {}
    BY <1>1, <1>2
  <2> HIDE DEF Ids
  <2> QED
    BY <2>1, LeastNatural
<1>4. \A j \in S \ {i} : Before(i, j)
  BY <1>1, <1>2, <1>3 DEF Before
<1> QED
  BY <1>3, <1>4 DEF First

\* The orders of a gallery have a last one: a least number of images with
\* orders beyond every bound would have to be added to a bounded one.
LEMMA NextOrderNatural == ASSUME IdsFresh, NEW p PROVE NextOrder(p) \in Nat
<1> DEFINE Upto(k) == {i \in Gallery(p) : i <= k}
           Bounded(k) == \E b \in Nat : \A i \in Upto(k) : image[i].order <= b
           Beyond == {k \in Nat : ~Bounded(k)}
<1>1. \A i \in Gallery(p) : image[i].order \in Nat /\ i \in 1..MaxImage
  BY ShownRow DEF Gallery
<1>2. Beyond = {}
  <2> SUFFICES ASSUME Beyond /= {} PROVE FALSE
    OBVIOUS
  <2>1. PICK k \in Beyond : \A l \in Beyond : k <= l
    <3> HIDE DEF Bounded
    <3> QED
      BY LeastNatural
  <2>2. k /= 0
    <3>1. Upto(0) = {}
      BY <1>1
    <3>2. Bounded(0)
      BY <3>1
    <3> QED
      BY <2>1, <3>2
  <2>3. Bounded(k - 1)
    <3>1. k - 1 \in Nat /\ k - 1 \notin Beyond
      BY <2>1, <2>2
    <3> QED
      BY <3>1
  <2>4. PICK b \in Nat : \A i \in Upto(k - 1) : image[i].order <= b
    BY <2>3
  <2>5. \A i \in Upto(k) : i \in Upto(k - 1) \/ i = k
    <3> TAKE i \in Upto(k)
    <3>1. i \in Gallery(p) /\ i \in Nat /\ i <= k /\ k \in Nat
      BY <1>1, <2>1
    <3>2. i = k \/ i <= k - 1
      BY <3>1
    <3> QED
      BY <3>1, <3>2
  <2>6. Bounded(k)
    <3>1. CASE k \in Upto(k)
      <4>1. image[k].order \in Nat
        BY <1>1, <3>1
      <4>2. b + image[k].order \in Nat
        BY <4>1
      <4>3. \A i \in Upto(k) : image[i].order <= b + image[k].order
        BY <1>1, <2>4, <2>5, <4>1
      <4> HIDE DEF Upto
      <4> QED
        BY <4>2, <4>3
    <3>2. CASE k \notin Upto(k)
      BY <2>4, <2>5, <3>2
    <3> QED
      BY <3>1, <3>2
  <2> QED
    BY <2>1, <2>6
<1> DEFINE Orders == {image[i].order : i \in Gallery(p)}
           Bounds == {b \in Nat : \A n \in Orders : n <= b}
<1>3. ASSUME Gallery(p) /= {}
      PROVE  \E n \in Orders : \A i \in Gallery(p) : image[i].order <= n
  <2>1. Bounded(MaxImage)
    BY <1>2, MediaAssumption DEF MediaAssumption
  <2>2. Upto(MaxImage) = Gallery(p)
    BY <1>1
  <2>3. Bounds /= {}
    BY <2>1, <2>2
  <2>4. PICK b \in Bounds : \A c \in Bounds : b <= c
    <3>1. Bounds \subseteq Nat
      OBVIOUS
    <3> HIDE DEF Bounds
    <3> QED
      BY <2>3, <3>1, LeastNatural
  <2>5. b \in Orders
    <3> SUFFICES ASSUME b \notin Orders PROVE FALSE
      OBVIOUS
    <3>0. b \in Nat /\ \A n \in Orders : n \in Nat /\ n <= b /\ n /= b
      BY <1>1, <2>4
    <3> HIDE DEF Orders
    <3>1. \A n \in Orders : n \in Nat /\ n <= b - 1
      BY <3>0
    <3>2. b - 1 \in Nat
      <4>1. PICK n \in Orders : TRUE
        BY <1>3 DEF Orders
      <4> QED
        BY <4>1, <3>0, <3>1
    <3>3. b - 1 \in Bounds
      BY <3>1, <3>2
    <3> QED
      BY <3>3, <2>4
  <2>6. \A i \in Gallery(p) : image[i].order <= b
    BY <2>4
  <2> QED
    BY <2>5, <2>6
<1>4. \A n \in Orders : n \in Nat
  BY <1>1
<1> QED
  <2>1. CASE Gallery(p) = {}
    BY <2>1 DEF NextOrder
  <2>2. CASE Gallery(p) /= {}
    <3> DEFINE n == CHOOSE n \in Orders : \A i \in Gallery(p) : image[i].order <= n
    <3>1. n \in Orders
      BY <1>3, <2>2
    <3>2. NextOrder(p) = 1 + n
      BY <2>2 DEF NextOrder
    <3> HIDE DEF n, Orders
    <3> QED
      BY <1>4, <3>1, <3>2
  <2> QED
    BY <2>1, <2>2

-----------------------------------------------------------------------------
(* Uploads come and go.                                                    *)

\* Uploads end or stay, galleries stay, products go.
LEMMA UploadsEnd ==
    ASSUME GalleryInv, UNCHANGED <<image, images, raced>>, product' \subseteq product,
           upload' = [u \in Upload |-> upload'[u]],
           \A u \in Upload : upload'[u] = upload[u] \/ upload'[u] = Idle
    PROVE  GalleryInv'
<1>1. upload' \in [Upload -> UploadRow \cup {Idle}]
  BY DEF GalleryInv, IdsFresh
<1>2. \A u \in Upload : upload'[u].busy => upload'[u] = upload[u]
  BY DEF Idle
<1>3. \A p : Gallery(p)' = Gallery(p)
  BY DEF Gallery
<1>4. IdsFresh'
  BY <1>1, <1>2 DEF GalleryInv, IdsFresh
<1>5. PrimaryUnique'
  BY DEF GalleryInv, PrimaryUnique
<1>6. PrimaryThere'
  BY <1>3 DEF GalleryInv, PrimaryThere
<1>7. UploadsAdd'
  <2> SUFFICES ASSUME NEW u \in Upload, upload'[u].busy, ~upload'[u].primary,
                      NEW p, p = upload'[u].product, p \in product' \ raced'
               PROVE  Gallery(p)' /= {}
    BY DEF UploadsAdd, Gallery
  <2> QED
    BY <1>2, <1>3 DEF GalleryInv, UploadsAdd
<1> QED
  BY <1>4, <1>5, <1>6, <1>7 DEF GalleryInv

LEMMA UploadStarts ==
    ASSUME GalleryInv, NEW u \in Upload, NEW p \in Product, StartUpload(u, p)
    PROVE  GalleryInv'
<1> DEFINE n == images + 1
           row == [busy |-> TRUE, product |-> p, image |-> n, order |-> NextOrder(p),
                   primary |-> Gallery(p) = {}]
<1>1. /\ upload' = [upload EXCEPT ![u] = row] /\ images' = n
      /\ UNCHANGED <<image, raced, product>>
  BY DEF StartUpload
<1>2. /\ images \in Nat /\ n \in Nat /\ n \in Image
  BY MediaAssumption DEF StartUpload, GalleryInv, IdsFresh, Image, MediaAssumption
<1>3. ~image[n].there
  BY <1>2 DEF GalleryInv, IdsFresh
<1>4. /\ row \in UploadRow /\ row.busy /\ row.image = n /\ row.product = p
      /\ row.primary = (Gallery(p) = {})
  BY <1>2, NextOrderNatural DEF GalleryInv, UploadRow
<1> HIDE DEF row
<1>5. /\ upload' \in [Upload -> UploadRow \cup {Idle}]
      /\ upload'[u] = row /\ \A v \in Upload \ {u} : upload'[v] = upload[v]
  BY <1>1, <1>4 DEF GalleryInv, IdsFresh
<1>6. \A q : Gallery(q)' = Gallery(q)
  BY <1>1 DEF Gallery
<1>7. IdsFresh'
  <2>1. \A i \in Image : image'[i].there => i <= images'
    BY <1>1, <1>2, ShownRow DEF GalleryInv, IdsFresh
  <2>2. \A v \in Upload : upload[v].busy =>
            upload[v].image \in Nat /\ upload[v].image <= images
    BY UploadIds DEF GalleryInv, IdsFresh
  <2>3. \A v \in Upload : upload'[v].busy =>
            upload'[v].image <= images' /\ ~image'[upload'[v].image].there
    BY <1>1, <1>2, <1>3, <1>4, <1>5, <2>2 DEF GalleryInv, IdsFresh
  <2>4. \A v, w \in Upload :
            upload'[v].busy /\ upload'[w].busy /\ upload'[v].image = upload'[w].image => v = w
    BY <1>2, <1>4, <1>5, <2>2 DEF GalleryInv, IdsFresh
  <2>5. image' \in [Image -> ImageRow \cup {Nothing}] /\ images' \in Nat
    BY <1>1, <1>2 DEF GalleryInv, IdsFresh
  <2> QED
    BY <1>5, <2>1, <2>3, <2>4, <2>5 DEF IdsFresh
<1>8. PrimaryUnique'
  BY <1>1 DEF GalleryInv, PrimaryUnique
<1>9. PrimaryThere'
  BY <1>1, <1>6 DEF GalleryInv, PrimaryThere
<1>10. UploadsAdd'
  <2> SUFFICES ASSUME NEW v \in Upload, upload'[v].busy, ~upload'[v].primary,
                      NEW q, q = upload'[v].product, q \in product' \ raced'
               PROVE  Gallery(q)' /= {}
    BY DEF UploadsAdd, Gallery
  <2>1. CASE v = u
    BY <2>1, <1>4, <1>5, <1>6
  <2>2. CASE v /= u
    BY <2>2, <1>1, <1>5, <1>6 DEF GalleryInv, UploadsAdd
  <2> QED
    BY <2>1, <2>2
<1> QED
  BY <1>7, <1>8, <1>9, <1>10 DEF GalleryInv

\* A row is added that is primary in a gallery without a primary image, or
\* is not in one with images.
LEMMA RowAdded ==
    ASSUME GalleryInv, NEW n \in Image, ~image[n].there, NEW row \in ImageRow,
           image' = [image EXCEPT ![n] = row], product' = product, raced' = raced,
           row.primary => \A i \in Gallery(row.product) : ~image[i].primary,
           ~row.primary /\ row.product \notin raced => Gallery(row.product) /= {},
           \A u \in Upload : upload'[u].busy => upload'[u] = upload[u]
    PROVE  PrimaryUnique' /\ PrimaryThere' /\ UploadsAdd'
<1>1. /\ image'[n] = row /\ row.there
      /\ \A i \in Image \ {n} : image'[i] = image[i]
  BY DEF GalleryInv, IdsFresh, ImageRow
<1>2. \A p : Gallery(p)' = IF p = row.product THEN Gallery(p) \cup {n} ELSE Gallery(p)
  BY <1>1 DEF Gallery
<1>3. PrimaryUnique'
  BY <1>1 DEF GalleryInv, PrimaryUnique, Gallery
<1>4. PrimaryThere'
  <2> SUFFICES ASSUME NEW p \in Product \ raced, Gallery(p)' /= {}
               PROVE  \E i \in Gallery(p)' : image'[i].primary
    BY DEF PrimaryThere
  <2>1. CASE Gallery(p) /= {}
    <3>1. PICK i \in Gallery(p) : image[i].primary
      BY <2>1 DEF GalleryInv, PrimaryThere
    <3>2. i /= n /\ i \in Image
      BY <3>1 DEF Gallery
    <3> QED
      BY <1>1, <1>2, <3>1, <3>2
  <2>2. CASE Gallery(p) = {}
    BY <2>2, <1>1, <1>2 DEF ImageRow
  <2> QED
    BY <2>1, <2>2
<1>5. UploadsAdd'
  <2> SUFFICES ASSUME NEW v \in Upload, upload'[v].busy, ~upload'[v].primary,
                      NEW q, q = upload'[v].product, q \in product' \ raced'
               PROVE  Gallery(q)' /= {}
    BY DEF UploadsAdd, Gallery
  <2>1. Gallery(q) /= {}
    BY DEF GalleryInv, UploadsAdd
  <2> QED
    BY <1>2, <2>1
<1> QED
  BY <1>3, <1>4, <1>5

LEMMA UploadFinishes ==
    ASSUME GalleryInv, NEW u \in Upload, FinishUpload(u) PROVE GalleryInv'
<1> DEFINE new == upload[u]
           n == new.image
           row == [there |-> TRUE, product |-> new.product, order |-> new.order,
                   primary |-> new.primary, file |-> n]
<1>1. /\ new.busy /\ upload' = [upload EXCEPT ![u] = Idle]
      /\ IF Insertable(new) THEN image' = [image EXCEPT ![n] = row] ELSE image' = image
      /\ UNCHANGED <<product, images, raced>>
  BY DEF FinishUpload
<1>2. new \in UploadRow
  BY <1>1 DEF GalleryInv, IdsFresh, Idle
<1>3. /\ row \in ImageRow /\ n \in Image /\ row.there
      /\ row.product = new.product /\ row.primary = new.primary
  BY <1>2 DEF UploadRow, ImageRow
<1>4. /\ upload' = [v \in Upload |-> upload'[v]]
      /\ upload'[u] = Idle /\ \A v \in Upload \ {u} : upload'[v] = upload[v]
  BY <1>1 DEF GalleryInv, IdsFresh
<1>5. CASE ~Insertable(new)
  BY <1>1, <1>4, <1>5, UploadsEnd
<1>6. CASE Insertable(new)
  <2>1. new.product \in product /\ (new.primary => \A i \in Gallery(new.product) : ~image[i].primary)
    BY <1>6 DEF Insertable
  <2>2. ~image[n].there /\ n <= images
    BY <1>1 DEF GalleryInv, IdsFresh
  <2>3. ~new.primary /\ new.product \notin raced => Gallery(new.product) /= {}
    BY <1>1, <2>1 DEF GalleryInv, UploadsAdd
  <2>4. \A v \in Upload : upload'[v].busy =>
            v /= u /\ upload'[v] = upload[v] /\ upload[v].image /= n
    BY <1>1, <1>4 DEF Idle, GalleryInv, IdsFresh
  <2>5. image' = [image EXCEPT ![n] = row]
    BY <1>1, <1>6
  <2> HIDE DEF row, n
  <2>6. PrimaryUnique' /\ PrimaryThere' /\ UploadsAdd'
    BY <1>1, <1>3, <2>1, <2>2, <2>3, <2>4, <2>5, RowAdded
  <2>7. IdsFresh'
    <3>1. image' \in [Image -> ImageRow \cup {Nothing}] /\ images' \in Nat
      BY <1>1, <1>3, <2>5 DEF GalleryInv, IdsFresh
    <3>2. upload' \in [Upload -> UploadRow \cup {Idle}]
      BY <1>1 DEF GalleryInv, IdsFresh
    <3>3. \A i \in Image : image'[i].there => i <= images'
      BY <1>1, <2>2, <2>5 DEF GalleryInv, IdsFresh
    <3>4. ASSUME NEW v \in Upload, upload'[v].busy
          PROVE  upload'[v].image <= images' /\ ~image'[upload'[v].image].there
      BY <3>4, <1>1, <2>4, <2>5 DEF GalleryInv, IdsFresh
    <3>5. \A v, w \in Upload :
              upload'[v].busy /\ upload'[w].busy /\ upload'[v].image = upload'[w].image => v = w
      BY <2>4 DEF GalleryInv, IdsFresh
    <3> QED
      BY <3>1, <3>2, <3>3, <3>4, <3>5 DEF IdsFresh
  <2> QED
    BY <2>6, <2>7 DEF GalleryInv
<1> QED
  BY <1>5, <1>6

LEMMA ImportAdds ==
    ASSUME GalleryInv, NEW p \in Product, ImportImage(p) PROVE GalleryInv'
<1> DEFINE n == images + 1
           rowOf(f) == [there |-> TRUE, product |-> p, order |-> NextOrder(p),
                        primary |-> Gallery(p) = {}, file |-> f]
<1> PICK f \in {0, n} \cup {g \in Image : Main(g) \in stored} :
        image' = [image EXCEPT ![n] = rowOf(f)]
  BY DEF ImportImage
<1> DEFINE row == rowOf(f)
<1>1. /\ image' = [image EXCEPT ![n] = row] /\ images' = n
      /\ UNCHANGED <<product, upload, raced>>
  BY DEF ImportImage
<1>2. images \in Nat /\ n \in Nat /\ n \in Image
  BY MediaAssumption DEF ImportImage, GalleryInv, IdsFresh, Image, MediaAssumption
<1>3. ~image[n].there
  BY <1>2 DEF GalleryInv, IdsFresh
<1>4. /\ row \in ImageRow /\ row.there /\ row.product = p /\ row.primary = (Gallery(p) = {})
  BY <1>2, NextOrderNatural DEF GalleryInv, ImageRow
<1> HIDE DEF row
<1>5. PrimaryUnique' /\ PrimaryThere' /\ UploadsAdd'
  BY <1>1, <1>2, <1>3, <1>4, RowAdded
<1>6. IdsFresh'
  <2>1. \A v \in Upload : upload[v].busy =>
            upload[v].image \in Nat /\ upload[v].image <= images
    BY UploadIds DEF GalleryInv, IdsFresh
  <2>2. image' \in [Image -> ImageRow \cup {Nothing}] /\ images' \in Nat
    BY <1>1, <1>2, <1>4 DEF GalleryInv, IdsFresh
  <2>3. \A i \in Image : image'[i].there => i <= images'
    BY <1>1, <1>2, ShownRow DEF GalleryInv, IdsFresh
  <2>4. \A v \in Upload : upload[v].busy =>
            upload[v].image <= images' /\ ~image'[upload[v].image].there
    BY <1>1, <1>2, <2>1 DEF GalleryInv, IdsFresh
  <2> QED
    BY <1>1, <2>2, <2>3, <2>4 DEF GalleryInv, IdsFresh
<1> QED
  BY <1>5, <1>6 DEF GalleryInv

-----------------------------------------------------------------------------
(* Galleries are edited and emptied.                                       *)

\* Only rows of images change, and no image appears.
LEMMA IdsKept ==
    ASSUME IdsFresh, upload' = upload, images' = images,
           image' \in [Image -> ImageRow \cup {Nothing}],
           \A i \in Image : image'[i].there => image[i].there
    PROVE  IdsFresh'
<1>1. \A u \in Upload : upload[u].busy => upload[u].image \in Image
  BY UploadIds
<1> QED
  BY <1>1 DEF IdsFresh

\* The order of images does not matter here.
LEMMA ReorderStays ==
    ASSUME GalleryInv, NEW p \in Product, ReorderImages(p) PROVE GalleryInv'
<1>1. PICK place \in [Gallery(p) -> 0..(Cardinality(Gallery(p)) - 1)] :
          image' = [i \in Image |-> IF i \in Gallery(p)
                                    THEN [image[i] EXCEPT !.order = place[i]] ELSE image[i]]
  BY DEF ReorderImages
<1>2. UNCHANGED <<product, images, upload, raced>>
  BY DEF ReorderImages
<1>3. ASSUME NEW i \in Image
      PROVE  /\ image'[i] \in ImageRow \cup {Nothing}
             /\ image'[i].there = image[i].there
             /\ image[i].there => /\ image'[i].product = image[i].product
                                  /\ image'[i].primary = image[i].primary
  <2>1. CASE i \in Gallery(p)
    <3>1. image[i] \in ImageRow /\ place[i] \in Nat
      BY <2>1, ShownRow DEF GalleryInv, Gallery
    <3>2. image'[i] = [image[i] EXCEPT !.order = place[i]]
      BY <1>1, <2>1
    <3> QED
      BY <3>1, <3>2 DEF ImageRow
  <2>2. CASE i \notin Gallery(p)
    BY <2>2, <1>1 DEF GalleryInv, IdsFresh
  <2> QED
    BY <2>1, <2>2
<1>4. \A q : Gallery(q)' = Gallery(q)
  BY <1>3 DEF Gallery
<1>5. IdsFresh'
  <2>1. image' \in [Image -> ImageRow \cup {Nothing}]
    BY <1>1, <1>3
  <2> QED
    BY <1>2, <1>3, <2>1, IdsKept DEF GalleryInv
<1>6. PrimaryUnique'
  BY <1>3 DEF GalleryInv, PrimaryUnique
<1>7. PrimaryThere'
  BY <1>2, <1>3, <1>4 DEF GalleryInv, PrimaryThere, Gallery
<1>8. UploadsAdd'
  BY <1>2, <1>4 DEF GalleryInv, UploadsAdd
<1> QED
  BY <1>5, <1>6, <1>7, <1>8 DEF GalleryInv

LEMMA PrimarySet ==
    ASSUME GalleryInv, NEW n \in Image, SetPrimary(n) PROVE GalleryInv'
<1> DEFINE p == image[n].product
<1>1. /\ image[n].there
      /\ image' = [j \in Image |-> IF j \in Gallery(p)
                                   THEN [image[j] EXCEPT !.primary = j = n] ELSE image[j]]
      /\ UNCHANGED <<product, images, upload, raced>>
  BY DEF SetPrimary
<1>2. PICK q : q = p
  OBVIOUS
<1> HIDE DEF p
<1>3. ASSUME NEW i \in Image
      PROVE  /\ image'[i] \in ImageRow \cup {Nothing}
             /\ image'[i].there = image[i].there
             /\ image[i].there => image'[i].product = image[i].product
             /\ i \in Gallery(q) => image'[i].primary = (i = n)
             /\ i \notin Gallery(q) => image'[i] = image[i]
  <2>1. CASE i \in Gallery(q)
    <3>1. image[i] \in ImageRow
      BY <2>1, ShownRow DEF GalleryInv, Gallery
    <3>2. image'[i] = [image[i] EXCEPT !.primary = i = n]
      BY <1>1, <1>2, <2>1
    <3> QED
      BY <2>1, <3>1, <3>2 DEF ImageRow
  <2>2. CASE i \notin Gallery(q)
    BY <2>2, <1>1, <1>2 DEF GalleryInv, IdsFresh
  <2> QED
    BY <2>1, <2>2
<1>4. \A r : Gallery(r)' = Gallery(r)
  BY <1>3 DEF Gallery
<1>5. n \in Gallery(q)
  BY <1>1, <1>2 DEF Gallery, p
<1>6. IdsFresh'
  <2>1. image' \in [Image -> ImageRow \cup {Nothing}]
    BY <1>1, <1>3
  <2> QED
    BY <1>1, <1>3, <2>1, IdsKept DEF GalleryInv
<1>7. PrimaryUnique'
  <2> SUFFICES ASSUME NEW i \in Image, NEW j \in Image, image'[i].there, image'[j].there,
                      image'[i].product = image'[j].product,
                      image'[i].primary, image'[j].primary
               PROVE  i = j
    BY DEF PrimaryUnique
  <2>1. image[i].there /\ image[j].there /\ image[i].product = image[j].product
    BY <1>3
  <2>2. CASE i \in Gallery(q)
    BY <2>1, <2>2, <1>3 DEF Gallery
  <2>3. CASE i \notin Gallery(q)
    BY <2>1, <2>3, <1>3 DEF Gallery, GalleryInv, PrimaryUnique
  <2> QED
    BY <2>2, <2>3
<1>8. PrimaryThere'
  <2> SUFFICES ASSUME NEW r \in Product \ raced, Gallery(r) /= {}
               PROVE  \E i \in Gallery(r) : image'[i].primary
    BY <1>1, <1>4 DEF PrimaryThere
  <2>1. CASE r = q
    BY <2>1, <1>3, <1>5 DEF Gallery
  <2>2. CASE r /= q
    <3>1. \A i \in Gallery(r) : i \in Image /\ i \notin Gallery(q)
      BY <2>2 DEF Gallery
    <3> QED
      BY <3>1, <1>3 DEF GalleryInv, PrimaryThere
  <2> QED
    BY <2>1, <2>2
<1>9. UploadsAdd'
  BY <1>1, <1>4 DEF GalleryInv, UploadsAdd
<1> QED
  BY <1>6, <1>7, <1>8, <1>9 DEF GalleryInv

\* A gallery that is emptied under an upload counts as raced, unless its
\* product goes too.
LEMMA GalleryEmptied ==
    ASSUME GalleryInv, NEW p, image' = WithoutGallery(p),
           UNCHANGED <<upload, images>>, product' \subseteq product, raced \subseteq raced',
           p \in product' => RacedBy(p) \subseteq raced'
    PROVE  GalleryInv'
<1>1. \A i \in Image : image'[i] = IF i \in Gallery(p) THEN Nothing ELSE image[i]
  BY DEF WithoutGallery
<1>2. \A q : Gallery(q)' = IF q = p THEN {} ELSE Gallery(q)
  BY <1>1 DEF Gallery, Nothing
<1>3. IdsFresh'
  <2>1. image' = [i \in Image |-> image'[i]]
    BY DEF WithoutGallery
  <2>2. image' \in [Image -> ImageRow \cup {Nothing}]
    BY <1>1, <2>1 DEF GalleryInv, IdsFresh
  <2> QED
    BY <1>1, <2>2, IdsKept DEF GalleryInv, Nothing
<1>4. PrimaryUnique'
  BY <1>1 DEF GalleryInv, PrimaryUnique, Nothing
<1>5. PrimaryThere'
  <2> SUFFICES ASSUME NEW q \in Product \ raced', Gallery(q)' /= {}
               PROVE  \E i \in Gallery(q)' : image'[i].primary
    BY DEF PrimaryThere
  <2>1. q /= p /\ Gallery(q)' = Gallery(q)
    BY <1>2
  <2>2. PICK i \in Gallery(q) : image[i].primary
    BY <2>1 DEF GalleryInv, PrimaryThere
  <2>3. image'[i] = image[i]
    BY <2>1, <2>2, <1>1 DEF Gallery
  <2> QED
    BY <2>1, <2>2, <2>3
<1>6. UploadsAdd'
  <2> SUFFICES ASSUME NEW u \in Upload, upload[u].busy, ~upload[u].primary,
                      NEW q, q = upload[u].product, q \in product' \ raced'
               PROVE  Gallery(q)' /= {}
    BY DEF UploadsAdd, Gallery
  <2>1. q /= p
    BY DEF RacedBy
  <2> QED
    BY <2>1, <1>2 DEF GalleryInv, UploadsAdd
<1> QED
  BY <1>3, <1>4, <1>5, <1>6 DEF GalleryInv

\* The first image left is promoted for a primary one that goes.
LEMMA ImageDeleted ==
    ASSUME GalleryInv, NEW n \in Image, DeleteImage(n) PROVE GalleryInv'
<1>1. PICK p, left : p = image[n].product /\ left = Gallery(p) \ {n}
  OBVIOUS
<1>2. /\ image[n].there /\ image' = Promoted(n)
      /\ raced' = raced \cup (IF Gallery(p) = {n} THEN RacedBy(p) ELSE {})
      /\ UNCHANGED <<product, images, upload>>
  BY <1>1 DEF DeleteImage
<1>3. n \in Gallery(p) /\ \A i \in left : i \in Image /\ image[i].there /\ image[i].product = p
  BY <1>1, <1>2 DEF Gallery
<1>4. PICK f : f = First(left)
  OBVIOUS
<1>5. left /= {} => f \in left
  BY <1>3, <1>4, FirstThere DEF GalleryInv
<1> DEFINE heir(j) == image[n].primary /\ left /= {} /\ j = f
<1>6. \A j \in Image : image'[j] = IF j = n THEN Nothing
                                   ELSE IF heir(j) THEN [image[j] EXCEPT !.primary = TRUE]
                                   ELSE image[j]
  BY <1>1, <1>2, <1>4 DEF Promoted
<1>7. image'[n] = Nothing
  BY <1>6
<1>8. ASSUME NEW j \in Image \ {n}
      PROVE  /\ image'[j] \in ImageRow \cup {Nothing}
             /\ image'[j].there = image[j].there
             /\ image[j].there => image'[j].product = image[j].product
             /\ heir(j) => image'[j].primary
             /\ ~heir(j) => image'[j] = image[j]
  <2>1. CASE heir(j)
    <3>1. image[j] \in ImageRow
      BY <2>1, <1>3, <1>5, ShownRow DEF GalleryInv
    <3>2. image'[j] = [image[j] EXCEPT !.primary = TRUE]
      BY <1>6, <2>1
    <3> QED
      BY <2>1, <3>1, <3>2 DEF ImageRow
  <2>2. CASE ~heir(j)
    BY <2>2, <1>6 DEF GalleryInv, IdsFresh
  <2> QED
    BY <2>1, <2>2
<1>9. \A q : Gallery(q)' = IF q = p THEN left ELSE Gallery(q)
  <2>1. ~image'[n].there /\ \A j \in Image : image'[j].there => image'[j].there = image[j].there
    BY <1>7, <1>8 DEF Nothing
  <2> QED
    BY <2>1, <1>1, <1>2, <1>8 DEF Gallery
<1>10. IdsFresh'
  <2>1. image' = [i \in Image |-> image'[i]]
    BY <1>2 DEF Promoted
  <2>2. image' \in [Image -> ImageRow \cup {Nothing}]
    BY <1>7, <1>8, <2>1
  <2> QED
    BY <1>2, <1>7, <1>8, <2>2, IdsKept DEF GalleryInv, Nothing
<1>11. ASSUME NEW i \in Image, image'[i].there, image'[i].primary,
              NEW j \in Image, image'[j].there, image'[j].primary,
              image'[i].product = image'[j].product, heir(i)
       PROVE  i = j
  <2>1. i /= n /\ j /= n
    BY <1>7, <1>11 DEF Nothing
  <2>2. image[j].there /\ image[j].product = p
    BY <2>1, <1>3, <1>5, <1>8, <1>11
  <2>3. ~heir(j) => image[j].primary
    BY <2>1, <1>8, <1>11
  <2>4. ~image[j].primary
    BY <2>1, <2>2, <1>1, <1>2, <1>11 DEF GalleryInv, PrimaryUnique
  <2> QED
    BY <2>3, <2>4, <1>11
<1>12. PrimaryUnique'
  <2> SUFFICES ASSUME NEW i \in Image, NEW j \in Image, image'[i].there, image'[j].there,
                      image'[i].product = image'[j].product,
                      image'[i].primary, image'[j].primary
               PROVE  i = j
    BY DEF PrimaryUnique
  <2>1. CASE heir(i) \/ heir(j)
    BY <2>1, <1>11
  <2>2. CASE ~heir(i) /\ ~heir(j)
    <3>1. image'[i] = image[i] /\ image'[j] = image[j]
      BY <2>2, <1>7, <1>8 DEF Nothing
    <3> QED
      BY <3>1 DEF GalleryInv, PrimaryUnique
  <2> QED
    BY <2>1, <2>2
<1>13. PrimaryThere'
  <2> SUFFICES ASSUME NEW q \in Product \ raced', Gallery(q)' /= {}
               PROVE  \E i \in Gallery(q)' : image'[i].primary
    BY DEF PrimaryThere
  <2>1. q \notin raced /\ Gallery(q) /= {}
    BY <1>2, <1>3, <1>9
  <2>2. PICK i \in Gallery(q) : image[i].primary
    BY <2>1 DEF GalleryInv, PrimaryThere
  <2>3. CASE i = n
    <3>1. q = p /\ left /= {} /\ heir(f) /\ f \in left
      BY <2>2, <2>3, <1>1, <1>5, <1>9 DEF Gallery
    <3>2. f \in Image \ {n}
      BY <3>1, <1>1, <1>3
    <3>3. image'[f].primary
      BY <3>1, <3>2, <1>8
    <3> QED
      BY <3>1, <3>3, <1>9
  <2>4. CASE i /= n
    <3>1. i \in Image \ {n} /\ i \in Gallery(q)'
      BY <2>2, <2>4, <1>1, <1>9 DEF Gallery
    <3>2. image'[i].primary
      BY <2>2, <3>1, <1>8
    <3> QED
      BY <3>1, <3>2
  <2> QED
    BY <2>3, <2>4
<1>14. UploadsAdd'
  <2> SUFFICES ASSUME NEW u \in Upload, upload[u].busy, ~upload[u].primary,
                      NEW q, q = upload[u].product, q \in product \ raced'
               PROVE  Gallery(q)' /= {}
    BY <1>2 DEF UploadsAdd, Gallery
  <2>1. Gallery(q) /= {}
    BY <1>2 DEF GalleryInv, UploadsAdd
  <2>2. CASE q = p
    <3>1. Gallery(p) /= {n}
      BY <2>2, <1>2 DEF RacedBy
    <3> QED
      BY <3>1, <2>1, <2>2, <1>1, <1>9
  <2>3. CASE q /= p
    BY <2>1, <2>3, <1>9
  <2> QED
    BY <2>2, <2>3
<1> QED
  BY <1>10, <1>12, <1>13, <1>14 DEF GalleryInv

-----------------------------------------------------------------------------
LEMMA GalleryStays ==
    ASSUME GalleryInv, UNCHANGED <<product, image, images, upload, raced>> PROVE GalleryInv'
<1>1. upload' = [u \in Upload |-> upload'[u]]
  BY DEF GalleryInv, IdsFresh
<1> QED
  BY <1>1, UploadsEnd

LEMMA GallerySteps == ASSUME GalleryInv, [Next]_vars PROVE GalleryInv'
<1>1. CASE GalleryNext
  <2>1. ASSUME NEW u \in Upload, FailUpload(u) PROVE GalleryInv'
    <3>1. /\ upload' = [upload EXCEPT ![u] = Idle]
          /\ UNCHANGED <<product, image, images, raced>>
      BY <2>1 DEF FailUpload
    <3>2. /\ upload' = [v \in Upload |-> upload'[v]]
          /\ \A v \in Upload : upload'[v] = upload[v] \/ upload'[v] = Idle
      BY <3>1 DEF GalleryInv, IdsFresh
    <3> QED
      BY <3>1, <3>2, UploadsEnd
  <2> QED
    BY <1>1, <2>1, UploadStarts, UploadFinishes, ImportAdds, ReorderStays, ImageDeleted, PrimarySet
       DEF GalleryNext
<1>2. CASE VideoNext
  BY <1>2, GalleryStays DEF VideoNext, QueueVideo, DeleteVideo, LeaseExpires, Drain,
     UploadOutputs, MarkReady, FailTranscode, gallery
<1>3. CASE RemovalNext
  <2>1. ASSUME NEW p \in Product, NEW delete \in BOOLEAN, StartRemoval(p, delete)
        PROVE  GalleryInv'
    BY <2>1, GalleryStays DEF StartRemoval, gallery
  <2>2. PICK p : p = removal.product
    OBVIOUS
  <2>3. CASE RemoveGallery
    BY <2>2, <2>3, GalleryEmptied DEF RemoveGallery
  <2>4. CASE EndRemoval
    <3>1. CASE UNCHANGED <<product, image>>
      BY <2>4, <3>1, GalleryStays DEF EndRemoval
    <3>2. CASE product' = product \ {p} /\ image' = WithoutGallery(p)
      BY <2>4, <3>2, GalleryEmptied DEF EndRemoval
    <3> QED
      BY <2>2, <2>4, <3>1, <3>2 DEF EndRemoval
  <2> QED
    BY <1>3, <2>1, <2>3, <2>4 DEF RemovalNext
<1>4. CASE Crash
  <2>1. /\ upload' = [u \in Upload |-> Idle]
        /\ UNCHANGED <<product, image, images, raced>>
    BY <1>4 DEF Crash
  <2>2. /\ upload' = [u \in Upload |-> upload'[u]]
        /\ \A u \in Upload : upload'[u] = Idle
    BY <2>1
  <2> QED
    BY <2>1, <2>2, UploadsEnd
<1>5. CASE UNCHANGED vars
  BY <1>5, GalleryStays DEF vars, gallery
<1> QED
  BY <1>1, <1>2, <1>3, <1>4, <1>5 DEF Next

\* Whatever uploads, imports, deletions, removals and restarts overlap: a
\* gallery that is not empty has exactly one primary image, unless it was
\* emptied under an upload that took it for one with images.
THEOREM PrimaryIsOne == Spec => []OnePrimary
<1>1. Init => GalleryInv
  BY DEF Init, GalleryInv, IdsFresh, PrimaryUnique, PrimaryThere, UploadsAdd, Gallery, Nothing,
     Idle
<1>2. GalleryInv /\ [Next]_vars => GalleryInv'
  BY GallerySteps
<1> QED
  BY <1>1, <1>2, GalleryMeansOne, PTL DEF Spec
=============================================================================
