---------------------------- MODULE RangedDownload ----------------------------
(***************************************************************************)
(* download() with a controller (packages/file-transfer/download.ts and    *)
(* controlled_handler.ts): a file is fetched in ranges side by side into   *)
(* one file descriptor, or as a whole when a mirror does not know ranges.  *)
(* Each stream, one of the ranges or the whole, asks one URL after another *)
(* and goes on where the attempt before it stood.  Servers may refuse,     *)
(* fail, stall, be slow, answer short or answer another range, or declare  *)
(* another length; the caller may cancel; a write to the disk may fail.    *)
(*                                                                         *)
(* The writes of a chunk are asynchronous.  An attempt that ends does not  *)
(* wait for its own: those are orphans, which reach the disk later or are  *)
(* lost.                                                                   *)
(***************************************************************************)
EXTENDS Integers, FiniteSets

CONSTANTS
    Size,          \* the expected size, in chunks of data
    Largest,       \* bound on the lengths and offsets that answers declare
    Concurrency,   \* rangeConcurrency
    Urls,          \* the number of URLs
    MaxResumes, MaxSlowRerolls, MaxNoProgress,  \* budgets of the controller
    MaxFaults      \* bound on writes that fail and answers that are out of line

ASSUME SizesAssumption ==
    /\ Size \in Nat \ {0} /\ Concurrency \in Nat \ {0} /\ Urls \in Nat \ {0}
    /\ Largest \in Nat /\ Size <= Largest
ASSUME BudgetsAssumption ==
    {MaxResumes, MaxSlowRerolls, MaxNoProgress, MaxFaults} \subseteq Nat

\* What may be written, and what the file is to hold.
Blocks == 0..(Largest - 1)
File == 0..(Size - 1)

\* The ranges: as many of the rounded-up length as the size takes.
ChunkSize == (Size + Concurrency - 1) \div Concurrency
Segments == {s \in 1..Concurrency : (s - 1) * ChunkSize < Size}
Whole == 0
Streams == Segments \cup {Whole}

Lower(a, b) == IF a < b THEN a ELSE b
Higher(a, b) == IF a < b THEN b ELSE a
First(s) == IF s = Whole THEN 0 ELSE (s - 1) * ChunkSize

VARIABLES
    phase,    \* how far download() has come
    disk,     \* the blocks of the file that hold their data
    orphans,  \* blocks whose write outlives its attempt
    lost,     \* ghost: blocks a write of which has failed
    skipped,  \* ghost: blocks an answer for the whole file has left out, because
              \* it began beyond the offset asked for or declared a shorter file
    stream,   \* the state of each stream
    cancelled,\* the caller's signal
    faults    \* faults left of MaxFaults

vars == <<phase, disk, orphans, lost, skipped, stream, cancelled, faults>>

Phases == {"ranged", "truncate", "whole", "restart", "complete", "failing", "ok", "failed"}

\* A stream: where it stands, the URL it is at, where it resumes, what it has
\* used of its budgets; of the current attempt, the length of the whole file as
\* far as it knows, the position of the next byte and the writes under way.
StreamType ==
    [pc : {"off", "next", "asked", "body", "ended", "done", "dead"},
     url : 1..(Urls + 1), resume : 0..Largest, resumes : 0..MaxResumes,
     slow : 0..MaxSlowRerolls, idle : 0..MaxNoProgress,
     committed : BOOLEAN, restarted : BOOLEAN,
     total : 1..Largest, position : 0..Largest, pending : SUBSET Blocks]

Fresh(s) ==
    [pc |-> "off", url |-> 1, resume |-> First(s), resumes |-> 0, slow |-> 0, idle |-> 0,
     committed |-> FALSE, restarted |-> FALSE, total |-> Size, position |-> 0,
     pending |-> {}]

Init ==
    /\ disk = {} /\ orphans = {} /\ lost = {} /\ skipped = {} /\ cancelled = FALSE
    /\ faults = MaxFaults
    /\ \/ /\ Concurrency > 1 /\ phase = "ranged"
          /\ stream = [s \in Streams |->
                         [Fresh(s) EXCEPT !.pc = IF s = Whole THEN "off" ELSE "next"]]
       \/ /\ phase = "whole"
          /\ stream = [s \in Streams |->
                         [Fresh(s) EXCEPT !.pc = IF s = Whole THEN "next" ELSE "off"]]

\* A stream that has returned or thrown keeps nothing of its state.
Over(s, how) == [Fresh(s) EXCEPT !.pc = how]

Put(s, x) == stream' = [stream EXCEPT ![s] = x]

\* Where a stream ends: a range where it was told to, the whole file where the
\* headers of the current answer say.
Target(s) == IF s = Whole THEN stream[s].total ELSE Lower(Size, s * ChunkSize)

Underway(s) == stream[s].pc \in {"asked", "body", "ended"}
-----------------------------------------------------------------------------
(***************************************************************************)
(* How a stream goes on when an attempt ends.  Its pending writes become   *)
(* orphans.                                                                *)
(***************************************************************************)

\* The next attempt resumes where this one has asked the disk to write to.
Resumed(x) ==
    [x EXCEPT !.pc = "next", !.pending = {}, !.total = Size, !.position = 0,
              !.resume = Higher(x.resume, x.position)]

\* advanceUrl
NextUrl(x) ==
    [x EXCEPT !.url = x.url + 1, !.slow = 0, !.idle = 0,
              !.committed = FALSE, !.restarted = FALSE]

Orphan(ss) == orphans' = orphans \cup UNION {stream[s].pending : s \in ss}

\* A stream throws.  A range that does takes its siblings down at once; a
\* mirror that does not know ranges sends the download back to the start.
Throw(s, refused) ==
    /\ Orphan(Streams)
    /\ stream' = [t \in Streams |->
                    IF stream[t].pc = "off" THEN stream[t] ELSE Over(t, "dead")]
    /\ phase' = IF refused THEN "truncate" ELSE "failing"
    /\ UNCHANGED <<disk, cancelled>>

Again(s, x) ==
    /\ Put(s, x) /\ Orphan({s})
    /\ UNCHANGED <<phase, disk, cancelled>>

\* The next URL with the bytes so far, or the end of the stream.
Advance(s) ==
    LET x == NextUrl(Resumed(stream[s])) IN
    IF x.url > Urls THEN Throw(s, FALSE) ELSE Again(s, x)
-----------------------------------------------------------------------------
(***************************************************************************)
(* An attempt.                                                             *)
(***************************************************************************)

\* The circuit breaker skips a URL, never the last one, before the request
\* or when it leaves the queue of the dispatcher.
Skip(s) ==
    /\ stream[s].pc \in {"next", "asked"} /\ ~cancelled
    /\ stream[s].url < Urls
    /\ IF stream[s].pc = "next" THEN Again(s, NextUrl(stream[s])) ELSE Advance(s)
    /\ UNCHANGED <<lost, skipped, faults>>

Ask(s) ==
    /\ stream[s].pc = "next"
    /\ Put(s, [stream[s] EXCEPT !.pc = "asked"])
    /\ UNCHANGED <<phase, disk, orphans, lost, skipped, cancelled, faults>>

\* What no attempt has asked the disk to write of the blocks from a to before b.
LeftOut(a, b) ==
    (a..(b - 1)) \ (disk \cup orphans \cup lost \cup UNION {stream[s].pending : s \in Streams})

\* Mutant: only the status of an answer to a range is looked at.
AnswerAnywhere(s) ==
    /\ stream[s].pc = "asked" /\ ~cancelled
    /\ \E start \in 0..Largest, total \in IF s = Whole THEN 1..Largest ELSE {Size} :
        /\ Put(s, [stream[s] EXCEPT !.pc = "body", !.total = total, !.position = start])
        /\ skipped' = IF s = Whole THEN skipped \cup LeftOut(stream[s].resume, start) ELSE skipped
    /\ UNCHANGED <<phase, disk, orphans, lost, cancelled, faults>>

\* The headers of an answer.  That of a range must begin where it was asked to.
\* That of the whole file begins and ends where the server says: in line are the
\* offset asked for, or 0, and the expected size.
Answer(s) ==
    /\ stream[s].pc = "asked" /\ ~cancelled
    /\ \E start \in IF s = Whole THEN 0..Largest ELSE {stream[s].resume},
          total \in IF s = Whole THEN 1..Largest ELSE {Size} :
        /\ IF start \in {0, stream[s].resume} /\ total = Size THEN UNCHANGED faults
           ELSE faults > 0 /\ faults' = faults - 1
        /\ Put(s, [stream[s] EXCEPT !.pc = "body", !.total = total, !.position = start])
        /\ skipped' = skipped \cup LeftOut(stream[s].resume, start)
    /\ UNCHANGED <<phase, disk, orphans, lost, cancelled>>

\* A range answered with the whole file, or with another range.
RefuseRange(s) ==
    /\ s \in Segments /\ stream[s].pc = "asked" /\ ~cancelled
    /\ Throw(s, TRUE)
    /\ UNCHANGED <<lost, skipped, faults>>

\* 416 in answer to a resumed request for the whole file: start over, once.
RefuseResume(s) ==
    /\ s = Whole /\ stream[s].pc = "asked" /\ ~cancelled
    /\ stream[s].resume > 0 /\ ~stream[s].restarted
    /\ Put(s, Resumed(stream[s])) /\ phase' = "restart"
    /\ Orphan({s})
    /\ UNCHANGED <<disk, lost, skipped, cancelled, faults>>

\* A chunk arrives and its write is issued; after the last one the attempt
\* only waits for its writes.
Data(s) ==
    /\ stream[s].pc = "body" /\ stream[s].position < Target(s)
    /\ LET x == stream[s] IN
       Put(s, [x EXCEPT !.position = x.position + 1,
                        !.pending = x.pending \cup {x.position},
                        !.pc = IF x.position + 1 = Target(s) THEN "ended" ELSE "body"])
    /\ skipped' = skipped \ {stream[s].position}
    /\ UNCHANGED <<phase, disk, orphans, lost, cancelled, faults>>

\* The server ends the answer early.
EndEarly(s) ==
    /\ stream[s].pc = "body"
    /\ Put(s, [stream[s] EXCEPT !.pc = "ended"])
    /\ UNCHANGED <<phase, disk, orphans, lost, skipped, cancelled, faults>>

Written(s) ==
    /\ Underway(s)
    /\ \E b \in stream[s].pending :
        /\ disk' = disk \cup {b} /\ lost' = lost \ {b}
        /\ Put(s, [stream[s] EXCEPT !.pending = @ \ {b}])
    /\ UNCHANGED <<phase, orphans, skipped, cancelled, faults>>

\* Mutant: a short answer counts as the whole of it.
CompleteUnchecked(s) ==
    /\ stream[s].pc = "ended" /\ stream[s].pending = {}
    /\ Put(s, Over(s, "done"))
    /\ phase' = IF \A t \in Streams \ {s} : stream[t].pc \in {"off", "done", "dead"}
                  THEN "complete" ELSE phase
    /\ UNCHANGED <<disk, orphans, lost, skipped, cancelled, faults>>

\* The answer is written.  When it was short of its own end, the rest is asked
\* for.
Complete(s) ==
    /\ stream[s].pc = "ended" /\ stream[s].pending = {}
    /\ \/ /\ stream[s].position >= Target(s)
          /\ Put(s, Over(s, "done"))
          /\ skipped' = IF s = Whole
                        THEN skipped \cup
                             LeftOut(Higher(stream[s].resume, stream[s].position), Size)
                        ELSE skipped
          /\ phase' = IF \A t \in Streams \ {s} : stream[t].pc \in {"off", "done", "dead"}
                        THEN "complete" ELSE phase
          /\ UNCHANGED <<disk, orphans, cancelled>>
       \/ /\ stream[s].position < Target(s)
          /\ IF stream[s].resumes < MaxResumes
               THEN Again(s, [Resumed(stream[s]) EXCEPT !.resumes = @ + 1])
               ELSE Advance(s)
          /\ UNCHANGED skipped
    /\ UNCHANGED <<lost, faults>>

\* Mutant: every failure is worth another attempt.
FailureRerolled(s) == Again(s, [Resumed(stream[s]) EXCEPT !.resumes = @ + 1])

\* A failed attempt: another one at the same URL while the controller wants
\* it and the budget lasts, or the next URL.
AfterFailure(s) ==
    \/ /\ stream[s].resumes < MaxResumes
       /\ Again(s, [Resumed(stream[s]) EXCEPT !.resumes = @ + 1])
    \/ Advance(s)

\* The network or the server fails, be it after the last byte that counts.
Fail(s) ==
    /\ Underway(s) /\ ~cancelled
    /\ stream[s].pc = "ended" => stream[s].position = Target(s)
    /\ AfterFailure(s)
    /\ UNCHANGED <<lost, skipped, faults>>

\* A write of the attempt itself fails.
WriteFails(s) ==
    /\ Underway(s) /\ faults > 0 /\ ~cancelled
    /\ \E b \in stream[s].pending : lost' = lost \cup {b}
    /\ faults' = faults - 1
    /\ AfterFailure(s)
    /\ UNCHANGED skipped

\* Mutant: the last source may be dropped as slow for ever.
SlowForEver(s) ==
    /\ stream[s].pc = "body" /\ ~stream[s].committed /\ ~cancelled
    /\ LET x == Resumed(stream[s]) IN
       IF x.slow < MaxSlowRerolls /\ x.resumes < MaxResumes
         THEN Again(s, [x EXCEPT !.slow = @ + 1, !.resumes = @ + 1])
       ELSE IF x.url < Urls THEN Again(s, NextUrl(x))
       ELSE Again(s, x)
    /\ UNCHANGED <<lost, skipped, faults>>

\* The controller gives up a slow connection, until the budget is spent: then
\* the next URL, and the last URL to its end.
Slow(s) ==
    /\ stream[s].pc = "body" /\ ~stream[s].committed /\ ~cancelled
    /\ LET x == Resumed(stream[s]) IN
       IF x.slow < MaxSlowRerolls /\ x.resumes < MaxResumes
         THEN Again(s, [x EXCEPT !.slow = @ + 1, !.resumes = @ + 1])
       ELSE IF x.url < Urls THEN Again(s, NextUrl(x))
       ELSE Again(s, [x EXCEPT !.committed = TRUE])
    /\ UNCHANGED <<lost, skipped, faults>>

\* No first byte in time, or none for too long.
Stall(s) ==
    /\ Underway(s) /\ stream[s].pc # "ended" /\ ~cancelled
    /\ IF stream[s].idle < MaxNoProgress
         THEN Again(s, [Resumed(stream[s]) EXCEPT !.idle = @ + 1])
         ELSE Advance(s)
    /\ UNCHANGED <<lost, skipped, faults>>
-----------------------------------------------------------------------------
\* The caller aborts: every attempt rejects and every stream throws.
Cancel ==
    /\ ~cancelled /\ cancelled' = TRUE
    /\ phase \in {"ranged", "truncate", "whole", "restart"}
    /\ IF \E s \in Streams : Underway(s)
         THEN /\ Orphan(Streams)
              /\ stream' = [t \in Streams |->
                              IF stream[t].pc = "off" THEN stream[t] ELSE Over(t, "dead")]
              /\ phase' = "failing"
         ELSE UNCHANGED <<orphans, stream, phase>>
    /\ UNCHANGED <<disk, lost, skipped, faults>>

\* A request that starts on an aborted signal is rejected.
AskCancelled(s) ==
    /\ stream[s].pc = "asked" /\ cancelled
    /\ Throw(s, FALSE)
    /\ UNCHANGED <<lost, skipped, faults>>

\* An orphan reaches the disk or fails, and nobody hears of it.
Land(b) ==
    /\ b \in orphans
    /\ orphans' = orphans \ {b}
    /\ \/ disk' = disk \cup {b} /\ lost' = lost \ {b} /\ UNCHANGED faults
       \/ faults > 0 /\ faults' = faults - 1 /\ lost' = lost \cup {b} /\ UNCHANGED disk
    /\ UNCHANGED <<phase, skipped, stream, cancelled>>

\* The fallback truncates the file, if it can, and fetches it as a whole.
Truncate ==
    /\ phase = "truncate"
    /\ disk' \in {{}, disk} /\ lost' = {} /\ skipped' = {}
    /\ phase' = "whole"
    /\ Put(Whole, [Fresh(Whole) EXCEPT !.pc = "next"])
    /\ UNCHANGED <<orphans, cancelled, faults>>

\* The restart after 416.
Restart ==
    /\ phase = "restart"
    /\ \/ disk' = {} /\ lost' = {} /\ skipped' = {} /\ phase' = "whole"
          /\ Put(Whole, [stream[Whole] EXCEPT !.resume = 0, !.restarted = TRUE])
       \/ phase' = "failing" /\ UNCHANGED <<disk, lost, skipped, stream>>
    /\ UNCHANGED <<orphans, cancelled, faults>>

\* The descriptor is closed; a download that failed removes its file.
Finish ==
    /\ \/ phase = "complete" /\ phase' = "ok" /\ UNCHANGED <<disk, lost, skipped>>
       \/ phase = "failing" /\ phase' = "failed" /\ disk' = {} /\ lost' = {} /\ skipped' = {}
    /\ UNCHANGED <<orphans, stream, cancelled, faults>>

StreamStep(s) ==
    /\ phase \in {"ranged", "whole"}
    /\ \/ Skip(s) \/ Ask(s) \/ Answer(s) \/ RefuseRange(s) \/ RefuseResume(s)
       \/ Data(s) \/ EndEarly(s) \/ Written(s) \/ Complete(s)
       \/ Fail(s) \/ WriteFails(s) \/ Slow(s) \/ Stall(s) \/ AskCancelled(s)

DownloadStep == Truncate \/ Restart \/ Finish

Next ==
    \/ \E s \in Streams : StreamStep(s)
    \/ Cancel
    \/ \E b \in Blocks : Land(b)
    \/ DownloadStep

\* Every attempt ends: the client has timeouts, the disk answers.  Which stream
\* gets on does not matter.
Fairness == WF_vars((\E s \in Streams : StreamStep(s)) \/ DownloadStep)

Spec == Init /\ [][Next]_vars
FairSpec == Spec /\ Fairness
-----------------------------------------------------------------------------
\* Every variable has a value of its kind; no budget is overdrawn.
TypeOK ==
    /\ phase \in Phases
    /\ disk \subseteq Blocks /\ orphans \subseteq Blocks /\ lost \subseteq Blocks
    /\ skipped \subseteq Blocks
    /\ stream \in [Streams -> StreamType]
    /\ cancelled \in BOOLEAN /\ faults \in 0..MaxFaults

\* Through re-rolls, fallbacks and restarts a range passes over no block,
\* whatever offsets and lengths the servers declare: what lies before its offset
\* has been written, is being written or has failed.  The stream of the whole
\* file passes over none of its own accord; but where a server answers it from
\* another offset than it asked for, or with the length of a shorter file, it
\* goes along (skipped).  No stream writes beyond the end it goes by.
NoGap ==
    \A s \in Streams :
        /\ stream[s].pending \subseteq First(s)..(Target(s) - 1)
        /\ (/\ stream[s].pc \in {"next", "asked", "body", "ended", "done"}
            /\ phase \notin {"restart", "failed"})
           =>
           LET known == disk \cup orphans \cup lost \cup stream[s].pending
                          \cup (IF s = Whole THEN skipped ELSE {})
           IN  /\ First(s)..(stream[s].resume - 1) \subseteq known
               /\ stream[s].pc = "done" => First(s)..(Target(s) - 1) \subseteq known

\* A download that resolves has asked for every block, but for those a server
\* left out of its answer for the whole file (skipped); unless its write has
\* failed each is on the disk or on its way.
CompleteFile == phase = "ok" => File \subseteq disk \cup orphans \cup lost \cup skipped

\* A download ends, however slow, dead or broken the servers are: no re-roll,
\* fallback or restart goes on for ever.
DownloadEnds == <>(phase \in {"ok", "failed"})

=============================================================================
