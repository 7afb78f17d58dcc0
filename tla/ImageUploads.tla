------------------------------- MODULE ImageUploads -------------------------------
(***************************************************************************)
(* Images that a user gives to an editor: a dialog prepares them one after *)
(* the other, each after the browser has loaded it, as they are or cropped *)
(* and resized, and then they are uploaded one after the other and put     *)
(* into the text.                                                          *)
(***************************************************************************)
EXTENDS Naturals, Sequences, SequencesExt

CONSTANTS
  MaxGiven,  \* bound on how often images are given
  Bad        \* the images that the browser cannot load

VARIABLES
  given,       \* how often images were given
  pending,     \* pendingImageFiles: the images the dialog is open for
  index,       \* the one it shows, counted from 1
  prepared,    \* those that are ready to be uploaded
  loads,       \* the images that the browser is loading, each with the number of its URL
  url,         \* the number of the URL of the one shown
  sized,       \* the image whose size is known, or <<>>
  loading,
  processing,  \* the images that are being rendered
  uploading,   \* uploadPreparedImages: the images under way, those left to upload
  asking,      \* ... whether the first of them is at the server
  inserted,    \* the images in the text
  failures,    \* the errors shown: "load", "render" and "upload"
  dropped      \* the images that were given in vain

imageVars ==
  <<given, pending, index, prepared, loads, url, sized, loading, processing, uploading, asking,
    inserted, failures, dropped>>
dialogVars == <<index, prepared, loads, url, sized, loading>>

\* Every time, two images are given.
Files(n) == <<[time |-> n, nr |-> 1], [time |-> n, nr |-> 2]>>
Open == pending # <<>>
Current == IF index <= Len(pending) THEN pending[index] ELSE <<>>

ImagesInit ==
  /\ given = 0 /\ pending = <<>> /\ index = 1 /\ prepared = <<>>
  /\ loads = {} /\ url = 0 /\ sized = <<>> /\ loading = FALSE /\ processing = {}
  /\ uploading = <<>> /\ asking = FALSE /\ inserted = <<>> /\ failures = {} /\ dropped = {}

-----------------------------------------------------------------------------
\* loadCurrentFile, for the image that the dialog will show.
Loads(file) ==
  /\ url' = url + 1
  /\ sized' = <<>>
  /\ loads' = loads \union {[file |-> file, url |-> url']}
  /\ loading' = TRUE

\* prepareImageUpload: nothing is prepared while others are uploaded.
Give ==
  /\ given < MaxGiven
  /\ ~Open
  /\ given' = given + 1
  /\ IF uploading = <<>>
     THEN /\ pending' = Files(given')
          /\ index' = 1 /\ prepared' = <<>>
          /\ Loads(pending'[1])
          /\ failures' = {}
          /\ UNCHANGED dropped
     ELSE /\ dropped' = dropped \union Range(Files(given'))
          /\ UNCHANGED <<pending, dialogVars, failures>>
  /\ UNCHANGED <<processing, uploading, asking, inserted>>

\* Faulty: an image that was shown before counts too.
LoadedLate(load) ==
  /\ load \in loads
  /\ loads' = loads \ {load}
  /\ sized' = IF load.file \notin Bad THEN load.file ELSE sized
  /\ failures' = IF load.file \in Bad THEN failures \union {"load"} ELSE failures
  /\ loading' = FALSE
  /\ UNCHANGED <<given, pending, index, prepared, url, processing, uploading, asking, inserted, dropped>>

\* The browser has loaded an image, or cannot: it only counts for the image shown.
Loaded(load) ==
  /\ load \in loads
  /\ loads' = loads \ {load}
  /\ LET counts == url = load.url /\ Open
     IN /\ sized' = IF counts /\ load.file \notin Bad THEN load.file ELSE sized
        /\ failures' = IF counts /\ load.file \in Bad THEN failures \union {"load"} ELSE failures
        /\ loading' = IF counts THEN FALSE ELSE loading
  /\ UNCHANGED <<given, pending, index, prepared, url, processing, uploading, asking, inserted, dropped>>

\* advance: the next image is shown, or after the last one they are uploaded.
Advance(file) ==
  IF index < Len(pending)
  THEN /\ prepared' = Append(prepared, file)
       /\ index' = index + 1
       /\ Loads(pending[index'])
       /\ failures' = failures \ {"load", "render"}
       /\ UNCHANGED <<pending, uploading>>
  ELSE /\ pending' = <<>>
       /\ prepared' = Append(prepared, file)
       /\ uploading' = prepared'
       /\ failures' = failures \ {"upload"}
       /\ UNCHANGED <<index, loads, url, sized, loading>>

UploadOriginal ==
  /\ Open /\ processing = {}
  /\ Advance(Current)
  /\ UNCHANGED <<given, processing, asking, inserted, dropped>>

ApplyChanges ==
  /\ Open /\ sized # <<>> /\ ~loading /\ processing = {}
  /\ processing' = {Current}
  /\ failures' = failures \ {"load", "render"}
  /\ UNCHANGED <<given, pending, dialogVars, uploading, asking, inserted, dropped>>

Rendered(file) ==
  /\ file \in processing
  /\ processing' = {}
  /\ Advance(file)
  /\ UNCHANGED <<given, asking, inserted, dropped>>

RenderFails(file) ==
  /\ file \in processing
  /\ processing' = {}
  /\ failures' = failures \union {"render"}
  /\ UNCHANGED <<given, pending, dialogVars, uploading, asking, inserted, dropped>>

\* cancel, and then cancelImageUpload
Cancel ==
  /\ Open /\ processing = {}
  /\ pending' = <<>>
  /\ dropped' = dropped \union Range(pending)
  /\ UNCHANGED <<given, dialogVars, processing, uploading, asking, inserted, failures>>

-----------------------------------------------------------------------------
\* uploadPreparedImages

Upload ==
  /\ uploading # <<>> /\ ~asking
  /\ asking' = TRUE
  /\ UNCHANGED <<given, pending, dialogVars, processing, uploading, inserted, failures, dropped>>

Insert ==
  /\ asking
  /\ inserted' = Append(inserted, Head(uploading))
  /\ uploading' = Tail(uploading)
  /\ asking' = FALSE
  /\ UNCHANGED <<given, pending, dialogVars, processing, failures, dropped>>

\* Faulty: the upload goes on with the next image after one failed.
UploadFailsOne ==
  /\ asking
  /\ uploading' = Tail(uploading)
  /\ asking' = FALSE
  /\ UNCHANGED <<given, pending, dialogVars, processing, inserted, failures, dropped>>

\* One fails: the others are not tried.
UploadFails ==
  /\ asking
  /\ uploading' = <<>> /\ asking' = FALSE
  /\ failures' = failures \union {"upload"}
  /\ dropped' = dropped \union Range(uploading)
  /\ UNCHANGED <<given, pending, dialogVars, processing, inserted>>

ImagesNext ==
  \/ Give \/ \E load \in loads : Loaded(load)
  \/ UploadOriginal \/ ApplyChanges \/ Cancel
  \/ \E file \in processing : Rendered(file) \/ RenderFails(file)
  \/ Upload \/ Insert \/ UploadFails

ImagesSpec == ImagesInit /\ [][ImagesNext]_imageVars

-----------------------------------------------------------------------------
\* An image is cropped by its own size.
CroppedAsShown == Open /\ sized # <<>> => sized = Current

\* An image that was given is in the dialog, under way or in the text, unless it was given in vain:
\* the user cancelled, an upload failed, or others were being uploaded.
ImagesAreSomewhere ==
  \A n \in 1..given : \A file \in Range(Files(n)) :
    file \in Range(pending) \union Range(uploading) \union Range(inserted) \union dropped

\* The images are in the text once each, in the order they were given.
InsertedInOrder ==
  \A i, j \in DOMAIN inserted : i < j =>
    \/ inserted[i].time < inserted[j].time
    \/ inserted[i].time = inserted[j].time /\ inserted[i].nr < inserted[j].nr

ImagesInv == CroppedAsShown /\ ImagesAreSomewhere /\ InsertedInOrder
===================================================================================
