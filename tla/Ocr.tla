-------------------------------- MODULE Ocr --------------------------------
(***************************************************************************)
(* The text of images in messages (multimodal/image-processor.ts and       *)
(* discord-image-handler.ts).  Each message's images are downloaded and    *)
(* read one after the other, several messages at once, by one tesseract    *)
(* worker that is created on first use.  Creating it can fail, or take     *)
(* longer than its timeout and finish later; reading can fail or time out; *)
(* a shutdown terminates what there is.                                    *)
(*                                                                         *)
(* The worker library, the download and the file system are external.      *)
(* An image is <<message, number>>; a temporary file's name is the         *)
(* millisecond and the number.                                             *)
(***************************************************************************)
EXTENDS Naturals, SequencesExt

CONSTANTS Posts,        \* messages with attachments
          ImagesOf,     \* ImagesOf[p]: how many of them are images
          MaxImages,    \* MAX_IMAGES_PER_MESSAGE
          Workers,      \* creations of a worker
          MaxMillis     \* bound: instants

NoWorker == "none"

ASSUME OcrAssumption == /\ MaxImages \in Nat /\ MaxMillis \in Nat /\ ImagesOf \in [Posts -> Nat]
                        /\ NoWorker \notin Workers

VARIABLES workerPool,   \* the creation that the language's entry holds, or NoWorker
          creation,      \* the creation as the code sees it
          thread,       \* the worker itself
          stage,         \* where each post is
          onWorker,     \* the creation the post waits for or uses
          tmp,          \* file name -> the images written there, the last one is in it
          path, source,   \* the post's file, and the image that was read from it
          blocks,       \* the blocks of text of each post
          millis,
          down,         \* the shutdown began
          ending,       \* the entry that it ends, once it is ready
          draining      \* the creations under way that it ends, once they are there

poolVars == <<workerPool, creation, thread>>
postVars == <<stage, onWorker, tmp, path, source, blocks>>
ocrVars == <<workerPool, creation, thread, stage, onWorker, tmp, path, source, blocks, millis, down, ending, draining>>

NoFile == <<>>

OcrInit ==
    /\ workerPool = NoWorker
    /\ creation = [w \in Workers |-> "unused"] /\ thread = [w \in Workers |-> "none"]
    /\ stage = [p \in Posts |-> "next"]
    /\ onWorker = [p \in Posts |-> NoWorker]
    /\ tmp = <<>> /\ path = [p \in Posts |-> NoFile] /\ source = [p \in Posts |-> NoFile]
    /\ blocks = [p \in Posts |-> <<>>]
    /\ millis = 0 /\ down = FALSE /\ ending = {} /\ draining = {}
-----------------------------------------------------------------------------
(* the worker: getWorker *)
Create(w) ==
    /\ workerPool' = w
    /\ creation' = [creation EXCEPT ![w] = "creating"]
    /\ thread' = [thread EXCEPT ![w] = "starting"]

(* Mutant: the failed creation stays the language's entry. *)
Reject_Kept(w) ==
    /\ creation' = [creation EXCEPT ![w] = "rejected"]
    /\ UNCHANGED workerPool

(* the creation failed, for those who wait for it and for the entry *)
Reject(w) ==
    /\ creation' = [creation EXCEPT ![w] = "rejected"]
    /\ workerPool' = IF workerPool = w THEN NoWorker ELSE workerPool

(* the worker is there; in time it is adopted, else it is terminated at once *)
Created(w) ==
    /\ thread[w] = "starting"
    /\ IF creation[w] = "creating"
       THEN /\ creation' = [creation EXCEPT ![w] = "setting"]
            /\ thread' = [thread EXCEPT ![w] = "alive"]
       ELSE /\ thread' = [thread EXCEPT ![w] = "dead"]
            /\ UNCHANGED creation
    /\ UNCHANGED <<workerPool, postVars, millis, down, ending, draining>>

CreateFails(w) ==
    /\ thread[w] = "starting"
    /\ thread' = [thread EXCEPT ![w] = "dead"]
    /\ IF creation[w] = "creating" THEN Reject(w) ELSE UNCHANGED <<creation, workerPool>>
    /\ UNCHANGED <<postVars, millis, down, ending, draining>>

CreateTimeout(w) ==
    /\ creation[w] = "creating"
    /\ Reject(w)
    /\ UNCHANGED <<thread, postVars, millis, down, ending, draining>>

SetParameters(w, ok) ==
    /\ creation[w] = "setting"
    /\ creation' = [creation EXCEPT ![w] = IF ok THEN "ready" ELSE "unset"]
    /\ workerPool' = IF workerPool = w /\ ~ok THEN NoWorker ELSE workerPool
    /\ UNCHANGED <<thread, postVars, millis, down, ending, draining>>

(* terminateAllWorkers *)
Shutdown ==
    /\ ~down /\ down' = TRUE
    /\ ending' = {workerPool} \ {NoWorker}
    /\ draining' = {w \in Workers : thread[w] = "starting"}
    /\ workerPool' = NoWorker
    /\ UNCHANGED <<creation, thread, postVars, millis>>

Terminate(w) ==
    /\ thread[w] = "alive"
    /\ w \in draining \/ (w \in ending /\ creation[w] = "ready")
    /\ thread' = [thread EXCEPT ![w] = "dead"]
    /\ UNCHANGED <<workerPool, creation, postVars, millis, down, ending, draining>>
-----------------------------------------------------------------------------
(* the images of a post *)
At(p, name) == stage[p] = name
Goes(p, name) == stage' = [stage EXCEPT ![p] = name]
Block(p, as, of) == blocks' = [blocks EXCEPT ![p] = Append(@, [as |-> as, of |-> of, file |-> path[p]])]

Limited(p) == IF ImagesOf[p] < MaxImages THEN ImagesOf[p] ELSE MaxImages
Current(p) == Len(blocks[p]) + 1

(* downloadToTmp, up to the write of the file: refused, too large, cut off, or there *)
Download(p) ==
    /\ At(p, "next") /\ Current(p) <= Limited(p)
    /\ Goes(p, "writing")
    /\ path' = [path EXCEPT ![p] = <<millis, Current(p)>>]
    /\ source' = [source EXCEPT ![p] = NoFile]
    /\ UNCHANGED <<poolVars, onWorker, tmp, blocks, millis, down, ending, draining>>

DownloadFails(p) ==
    /\ At(p, "next") /\ Current(p) <= Limited(p)
    /\ Block(p, "failed", NoFile)
    /\ UNCHANGED <<poolVars, stage, onWorker, tmp, path, source, millis, down, ending, draining>>

WriteFile(p) ==
    /\ At(p, "writing")
    /\ tmp' = [f \in DOMAIN tmp \cup {path[p]} |->
                IF f # path[p] THEN tmp[f]
                ELSE Append(IF f \in DOMAIN tmp THEN tmp[f] ELSE <<>>, <<p, Current(p)>>)]
    /\ Goes(p, "processing")
    /\ UNCHANGED <<poolVars, onWorker, path, source, blocks, millis, down, ending, draining>>

(* preprocessImage reads the file and writes another; when it fails, tesseract
   gets the file itself, later *)
Preprocess(p, ok) ==
    /\ At(p, "processing")
    /\ source' = [source EXCEPT ![p] = IF ok THEN Last(tmp[path[p]]) ELSE NoFile]
    /\ Goes(p, "recognizing")
    /\ UNCHANGED <<poolVars, onWorker, tmp, path, blocks, millis, down, ending, draining>>

(* recognizeWithTimeout gets the worker, or creates it *)
GetWorker(p) ==
    /\ At(p, "recognizing")
    /\ IF workerPool # NoWorker
       THEN onWorker' = [onWorker EXCEPT ![p] = workerPool] /\ UNCHANGED poolVars
       ELSE \E w \in Workers :
                /\ creation[w] = "unused"
                /\ Create(w)
                /\ onWorker' = [onWorker EXCEPT ![p] = w]
    /\ Goes(p, "waiting")
    /\ UNCHANGED <<tmp, path, source, blocks, millis, down, ending, draining>>

(* the worker is ready: the file is read, recognition and its timer start *)
Recognize(p) ==
    /\ At(p, "waiting") /\ creation[onWorker[p]] = "ready"
    /\ source' = [source EXCEPT ![p] = IF @ = NoFile THEN Last(tmp[path[p]]) ELSE @]
    /\ Goes(p, "reading")
    /\ UNCHANGED <<poolVars, onWorker, tmp, path, blocks, millis, down, ending, draining>>

(* no worker, a failure or the timeout: no text, the file's size and name instead *)
FallbackMeta(p) ==
    /\ \/ At(p, "waiting") /\ creation[onWorker[p]] \in {"rejected", "unset"}
       \/ At(p, "reading")
    /\ Goes(p, "next")
    /\ Block(p, "meta", NoFile)
    /\ UNCHANGED <<poolVars, onWorker, tmp, path, source, millis, down, ending, draining>>

(* enough text; a terminated worker gives none *)
Recognized(p) ==
    /\ At(p, "reading") /\ thread[onWorker[p]] = "alive"
    /\ Goes(p, "postprocess")
    /\ UNCHANGED <<poolVars, onWorker, tmp, path, source, blocks, millis, down, ending, draining>>

(* the model corrects the text, or it fails, or the ten seconds are over *)
Postprocess(p, corrected) ==
    /\ At(p, "postprocess")
    /\ Goes(p, "next")
    /\ Block(p, IF corrected THEN "corrected" ELSE "text", source[p])
    /\ UNCHANGED <<poolVars, onWorker, tmp, path, source, millis, down, ending, draining>>

(* all images are done: a mark for those left out, and the post goes on *)
Deliver(p) ==
    /\ At(p, "next") /\ Current(p) > Limited(p)
    /\ Goes(p, "delivered")
    /\ IF ImagesOf[p] > MaxImages THEN Block(p, "skipped", NoFile) ELSE UNCHANGED blocks
    /\ UNCHANGED <<poolVars, onWorker, tmp, path, source, millis, down, ending, draining>>

NextMillis ==
    /\ millis < MaxMillis /\ millis' = millis + 1
    /\ UNCHANGED <<poolVars, postVars, down, ending, draining>>

OcrNext ==
    \/ \E w \in Workers : Created(w) \/ CreateFails(w) \/ CreateTimeout(w) \/ Terminate(w)
    \/ \E w \in Workers, ok \in BOOLEAN : SetParameters(w, ok)
    \/ \E p \in Posts : \/ Download(p) \/ DownloadFails(p) \/ WriteFile(p) \/ GetWorker(p) \/ Recognize(p)
                        \/ FallbackMeta(p) \/ Recognized(p) \/ Deliver(p)
    \/ \E p \in Posts, ok \in BOOLEAN : Preprocess(p, ok) \/ Postprocess(p, ok)
    \/ Shutdown \/ NextMillis

OcrSpec == OcrInit /\ [][OcrNext]_ocrVars
-----------------------------------------------------------------------------
(* image-processor.ts:161, a creation that timed out is evicted "so the next    *)
(* call retries cleanly", and its worker does not stay when it comes late: the  *)
(* entry never holds a rejected creation, every living worker is the entry's,   *)
(* one that the shutdown ends, or one whose parameters could not be set (the    *)
(* code forgets that one), and none dies under a reader before the shutdown.    *)
(* Each text of a post is that of its own image, in order, unless another       *)
(* post's file had the same millisecond and number.                             *)
OcrSound ==
    /\ workerPool # NoWorker => creation[workerPool] \in {"creating", "setting", "ready"}
    /\ \A w \in Workers : thread[w] = "alive" => w \in {workerPool} \cup ending \cup draining \/ creation[w] = "unset"
    /\ \A p \in Posts : stage[p] = "reading" /\ ~down => thread[onWorker[p]] = "alive"
    /\ \A p \in Posts : \A i \in DOMAIN blocks[p] :
        blocks[p][i].as \in {"text", "corrected"} =>
            blocks[p][i].of = <<p, i>> \/ Len(tmp[blocks[p][i].file]) > 1
=============================================================================
