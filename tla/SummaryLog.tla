------------------------------ MODULE SummaryLog ------------------------------
(***************************************************************************)
(* The end of a test job (src/src/stuff/summary.node.js, saveProfileLog of *)
(* src/src/data/storage.node.js, src/src/utils/file_io.node.js): its own   *)
(* summary is written, then profile_log.json of its profile is read, gets  *)
(* an entry, and is written again.  Each of these is a call to the file    *)
(* system with a callback, and the chains of several jobs run side by side *)
(* on the one file.                                                        *)
(*                                                                         *)
(* fs.writeFile cuts the file to nothing when it opens it and then writes  *)
(* from its start.  Text longer than what is there replaces it; a shorter  *)
(* one leaves the old tail, and the file is no JSON any more.  JSON.parse  *)
(* of such a file, or of an empty one, throws in a callback: the server    *)
(* ends, which is left to the module that has the server.                  *)
(***************************************************************************)
EXTENDS Naturals

CONSTANTS
    Jobs,         \* jobs of one profile
    DiskMayFail   \* reading, opening or writing a file may fail

VARIABLES
    file,       \* profile_log.json: its state and the jobs it has entries of
    step,       \* step[j]: where the summary of j is
    copy,       \* copy[j]: what j read, with its own entry
    overlapped  \* jobs whose time from reading to writing met that of another

log == <<file, step, copy, overlapped>>

Whole(E) == [state |-> "whole", entries |-> E]
Unusable(s) == [state |-> s, entries |-> {}]

Steps == {"none",     \* the job has not ended
          "saving",   \* summary_job.json is being written
          "looking",  \* path.exists of the log
          "reading", "opening", "writing",
          "done",     \* all five events are through, and the entry was written
          "skipped",  \* all five events are through, and it was not
          "stuck",    \* the log could not be read: no event comes any more
          "gone"}     \* the server ended

\* Nothing makes the log at this commit: an installation has one or has none.
LogInit ==
    /\ file \in {Unusable("absent"), Whole({})}
    /\ step = [j \in Jobs |-> "none"]
    /\ copy = [j \in Jobs |-> {}]
    /\ overlapped = {}

At(j, s) == step' = [step EXCEPT ![j] = s]

\* summaryToJob
Summarized(j) == [step EXCEPT ![j] = "saving"]

\* EVENT.JOB, failed or not: summaryToLog, saveProfileLog.
SummarySaved(j) ==
    /\ step[j] = "saving"
    /\ At(j, "looking")
    /\ UNCHANGED <<file, copy, overlapped>>

Look_Touches(j) ==
    /\ step[j] = "looking"
    /\ At(j, IF file.state = "absent" THEN "stuck" ELSE "reading")
    /\ file' = IF file.state = "absent" THEN Unusable("cut") ELSE file
    /\ UNCHANGED <<copy, overlapped>>

\* path.exists; without a file saveProfileLog does not call its callback.
Look(j) ==
    /\ step[j] = "looking"
    /\ At(j, IF file.state = "absent" THEN "stuck" ELSE "reading")
    /\ UNCHANGED <<file, copy, overlapped>>

Busy == {j \in Jobs : step[j] \in {"opening", "writing"}}

Readable_Empty == file.state # "absent"

Readable == file.state = "whole"

Pushed_Alone(j) == {j}

Pushed(j) == file.entries \cup {j}

\* readFile, JSON.parse, push.
Read(j) ==
    /\ step[j] = "reading" /\ Readable
    /\ copy' = [copy EXCEPT ![j] = Pushed(j)]
    /\ overlapped' = IF Busy = {} THEN overlapped ELSE overlapped \cup Busy \cup {j}
    /\ At(j, "opening")
    /\ UNCHANGED file

\* The same of a file that is being written or is damaged: JSON.parse throws.
ReadThrows(j) == step[j] = "reading" /\ ~Readable

\* writeFile opens the file with the flag that cuts it.
Open(j) ==
    /\ step[j] = "opening"
    /\ file' = Unusable("cut")
    /\ At(j, "writing")
    /\ UNCHANGED <<copy, overlapped>>

\* What writing the text of j over the file may leave.
Overwritten(j) ==
    IF file.state = "cut" \/ (file.state = "whole" /\ file.entries \subseteq copy[j])
    THEN {Whole(copy[j])}
    ELSE {Whole(copy[j]), Unusable("mixed")}

\* The write is through: EVENT.LOG, and the rest of the chain within it.
Write(j) ==
    /\ step[j] = "writing"
    /\ file' \in Overwritten(j)
    /\ At(j, "done")
    /\ UNCHANGED <<copy, overlapped>>

\* A failed read ends the chain as a missing file does; a failed open or write
\* is logged, and the chain goes on.
ReadFails(j) ==
    /\ DiskMayFail /\ step[j] = "reading"
    /\ At(j, "stuck")
    /\ UNCHANGED <<file, copy, overlapped>>

WriteFails(j) ==
    /\ DiskMayFail
    /\ \/ step[j] = "opening" /\ UNCHANGED file
       \/ step[j] = "writing" /\ file' \in {file, Unusable("mixed")}
    /\ At(j, "skipped")
    /\ UNCHANGED <<copy, overlapped>>

LogStep(j) ==
    SummarySaved(j) \/ Look(j) \/ Read(j) \/ Open(j) \/ Write(j) \/ ReadFails(j) \/ WriteFails(j)

\* The server ends: chains stop where they are, and the file stays as it is.
Abandoned ==
    [j \in Jobs |-> IF step[j] \in {"none", "done", "skipped", "stuck"} THEN step[j] ELSE "gone"]
-----------------------------------------------------------------------------
LogTypeOK ==
    /\ file \in [state : {"absent", "cut", "mixed", "whole"}, entries : SUBSET Jobs]
    /\ step \in [Jobs -> Steps]
    /\ copy \in [Jobs -> SUBSET Jobs]
    /\ overlapped \in SUBSET Jobs

\* The file cannot be parsed, and nobody is about to write it.
Damaged == file.state \in {"cut", "mixed"} /\ Busy = {}

\* A job whose chain is through has its entry in the log, unless its read and
\* write overlapped with those of another job: no job that comes later, fails or
\* is slow loses the entry of one that was alone.
LoggedUnlessOverlapped ==
    file.state = "whole" =>
        \A j \in Jobs : step[j] = "done" /\ j \notin overlapped => j \in file.entries
=============================================================================
