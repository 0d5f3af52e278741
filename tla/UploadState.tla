---------------------------- MODULE UploadState -----------------------------
(***************************************************************************)
(* The state of one bulk upload of documents, and what must hold of it;    *)
(* BulkUpload says how it changes.                                         *)
(***************************************************************************)
EXTENDS Queue

CONSTANT Job  \* the files of the upload, one job each

VARIABLES
  enqueue,   \* [Job -> ...], how far enqueue is with the file
  answer,    \* what became of the upload request
  file,      \* jobs whose file is in UPLOAD_DIR
  memory,    \* [Job -> ...], the status in _JOBS
  delivered, \* [Job -> Nat], deliveries so far
  stage,     \* [Job -> [Delivery -> ...]], where the handler of a delivery is
  drafts,    \* [Job -> Nat], its rows in review_queue
  poll       \* [Job -> ...], what the page does about the job, or has learned

Delivery == 1..(MaxFaults + 1)
Over == {"done", "failed"}
Pending == {"queued", "processing"}

-----------------------------------------------------------------------------
\* A document gives more than one draft only when its message was delivered more
\* than once, and it is the faults that bound that.
DraftsAreBounded == \A j \in Job : drafts[j] <= delivered[j] /\ delivered[j] <= 1 + faults

\* A queued job that shows as pending is one the broker still holds a message
\* for: no handler that outlived its delivery puts a job back to processing
\* after another one has concluded it.
PendingIsHeld ==
  \A j \in Job : enqueue[j] = "queued" /\ memory[j] \in Pending => j \in ready \cup unacked
=============================================================================
