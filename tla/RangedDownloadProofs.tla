------------------------- MODULE RangedDownloadProofs -------------------------
(***************************************************************************)
(* For any size, any number of ranges and URLs and any budgets: no stream  *)
(* passes over a block or writes beyond its end, and a download that       *)
(* resolves has asked for the whole file, but for what a server left out   *)
(* of its answer for the whole of it.                                      *)
(***************************************************************************)
EXTENDS RangedDownload, TLAPS

Active == {"next", "asked", "body", "ended"}

Safe == disk \cup orphans \cup lost

\* Only the stream of the whole file lets a server leave blocks out.
Excused(s) == IF s = Whole THEN skipped ELSE {}
Known(s) == Safe \cup stream[s].pending \cup Excused(s)

\* Outside an attempt nothing is being written.
Quiet(s) ==
    stream[s].pc \notin {"body", "ended"} => stream[s].position = 0 /\ stream[s].pending = {}

Within(s) == stream[s].pending \subseteq First(s)..(Target(s) - 1)

\* A stream never stands before its own range.
Ahead(s) ==
    /\ First(s) <= stream[s].resume
    /\ stream[s].pc = "body" => First(s) <= stream[s].position

\* What lies before the place where the stream resumes, or where its attempt
\* stands, is accounted for.
Gapless(s) ==
    (stream[s].pc \in Active /\ phase # "failed") =>
        /\ First(s)..(stream[s].resume - 1) \subseteq Known(s)
        /\ First(s)..(stream[s].position - 1) \subseteq Known(s)

Finished(s) ==
    (stream[s].pc = "done" /\ phase # "failed") =>
        /\ stream[s].resume = First(s) /\ stream[s].total = Size
        /\ First(s)..(Target(s) - 1) \subseteq Known(s)

StreamOK(s) == Quiet(s) /\ Within(s) /\ Ahead(s) /\ Gapless(s) /\ Finished(s)

\* Which streams run in which phase: the ranges, and after them the whole.
PhaseOK ==
    /\ phase = "ranged" =>
         stream[Whole].pc = "off" /\ \A s \in Segments : stream[s].pc \in Active \cup {"done"}
    /\ phase \in {"truncate", "whole", "restart"} =>
         \A s \in Segments : stream[s].pc \in {"off", "dead"}
    /\ phase = "truncate" => stream[Whole].pc \in {"off", "dead"}
    /\ phase = "restart" => stream[Whole].pc = "next"
    /\ phase \in {"complete", "ok"} =>
         stream[Whole].pc = "done" \/ \A s \in Segments : stream[s].pc = "done"

IInv == TypeOK /\ (\A s \in Streams : StreamOK(s)) /\ PhaseOK
-----------------------------------------------------------------------------
(***************************************************************************)
(* The ranges                                                              *)
(***************************************************************************)

LEMMA Division ==
    ASSUME NEW a \in Nat, NEW n \in Nat \ {0}
    PROVE  /\ a \div n \in Nat
           /\ n * (a \div n) <= a
           /\ a < n * (a \div n) + n
OBVIOUS

LEMMA ChunkFacts ==
    /\ ChunkSize \in Nat \ {0}
    /\ Size <= Concurrency * ChunkSize
<1> DEFINE a == Size + Concurrency - 1
<1>1. a \in Nat /\ a >= Concurrency /\ Concurrency \in Nat \ {0} /\ Size \in Nat \ {0}
  BY SizesAssumption
<1>2. ChunkSize = a \div Concurrency
  BY DEF ChunkSize
<1> HIDE DEF a
<1>3. /\ ChunkSize \in Nat
      /\ Concurrency * ChunkSize <= a
      /\ a < Concurrency * ChunkSize + Concurrency
  BY <1>1, <1>2, Division
<1>4. ChunkSize # 0
  BY <1>1, <1>3
<1>5. Size <= Concurrency * ChunkSize
  <2> DEFINE p == Concurrency * ChunkSize
  <2>1. p \in Nat
    BY <1>1, <1>3
  <2>2. a < p + Concurrency
    BY <1>3
  <2> HIDE DEF p
  <2>3. Size <= p
    BY <2>1, <2>2, <1>1 DEF a
  <2> QED BY <2>3 DEF p
<1> QED BY <1>3, <1>4, <1>5

LEMMA Bounds ==
    ASSUME NEW s \in Streams
    PROVE  First(s) \in 0..Size /\ (s # Whole => Target(s) \in 0..Size)
<1>1. Size \in Nat \ {0}
  BY SizesAssumption
<1>2. CASE s = Whole
  BY <1>1, <1>2 DEF First, Whole
<1>3. CASE s # Whole
  <2> DEFINE f == (s - 1) * ChunkSize
             e == s * ChunkSize
  <2>1. s \in 1..Concurrency /\ f < Size /\ s # 0
    BY <1>3 DEF Streams, Segments, Whole
  <2>2. f \in Nat /\ e \in Nat
    BY <2>1, ChunkFacts, SizesAssumption
  <2>3. First(s) = f /\ Target(s) = Lower(Size, e)
    BY <1>3 DEF First, Target
  <2> HIDE DEF f, e
  <2> QED BY <2>1, <2>2, <2>3, <1>1 DEF Lower
<1> QED BY <1>2, <1>3

\* A stream ends within the lengths that there are.
LEMMA TargetIs ==
    ASSUME NEW s \in Streams, stream[s] \in StreamType
    PROVE  Target(s) \in 0..Largest
<1>1. CASE s = Whole
  <2>1. stream[s].total \in 1..Largest
    BY DEF StreamType
  <2> QED
    BY <1>1, <2>1, SizesAssumption DEF Target
<1>2. CASE s # Whole
  BY <1>2, Bounds, SizesAssumption
<1> QED BY <1>1, <1>2

\* The ranges make up the file.
LEMMA Cover ==
    ASSUME NEW b \in File
    PROVE  \E s \in Segments : b \in First(s)..(Target(s) - 1)
<1> DEFINE q == b \div ChunkSize
<1>1. b \in Nat /\ b < Size /\ Size \in Nat /\ Concurrency \in Nat \ {0}
  BY SizesAssumption DEF File
<1>2. q \in Nat /\ ChunkSize * q <= b /\ b < ChunkSize * q + ChunkSize
  BY <1>1, ChunkFacts, Division
<1> HIDE DEF q
<1>3. /\ ((q + 1) - 1) * ChunkSize = ChunkSize * q
      /\ (q + 1) * ChunkSize = ChunkSize * q + ChunkSize
      /\ ChunkSize * q \in Nat /\ ChunkSize \in Nat
  BY <1>2, ChunkFacts
<1>4. q < Concurrency
  <2> SUFFICES ASSUME q >= Concurrency PROVE FALSE
    BY <1>1, <1>2
  <2>1. Concurrency * ChunkSize <= ChunkSize * q
    BY <1>1, <1>2, ChunkFacts
  <2>2. Concurrency * ChunkSize \in Nat
    BY <1>1, ChunkFacts
  <2> QED BY <2>1, <2>2, <1>1, <1>2, <1>3, ChunkFacts
<1>5. q + 1 \in Segments
  BY <1>1, <1>2, <1>3, <1>4 DEF Segments
<1>6. b \in First(q + 1)..(Target(q + 1) - 1)
  BY <1>1, <1>2, <1>3 DEF First, Target, Lower, Whole
<1> QED BY <1>5, <1>6
-----------------------------------------------------------------------------
(***************************************************************************)
(* The state of a stream                                                   *)
(***************************************************************************)

LEMMA FreshIs ==
    ASSUME NEW s \in Streams,
           NEW how \in {"off", "next", "asked", "body", "ended", "done", "dead"}
    PROVE  /\ [Fresh(s) EXCEPT !.pc = how] \in StreamType
           /\ [Fresh(s) EXCEPT !.pc = how].pc = how
           /\ [Fresh(s) EXCEPT !.pc = how].resume = First(s)
           /\ [Fresh(s) EXCEPT !.pc = how].total = Size
           /\ [Fresh(s) EXCEPT !.pc = how].position = 0
           /\ [Fresh(s) EXCEPT !.pc = how].pending = {}
<1>1. /\ First(s) \in 0..Largest /\ 0 \in 0..Largest /\ Size \in 1..Largest
      /\ 1 \in 1..(Urls + 1)
  BY Bounds, SizesAssumption
<1>2. 0 \in 0..MaxResumes /\ 0 \in 0..MaxSlowRerolls /\ 0 \in 0..MaxNoProgress
  BY BudgetsAssumption
<1> QED
  BY <1>1, <1>2 DEF Fresh, StreamType

LEMMA OverIs ==
    ASSUME NEW s \in Streams, NEW how \in {"done", "dead"}
    PROVE  /\ Over(s, how) \in StreamType /\ Over(s, how).pc = how
           /\ Over(s, how).resume = First(s) /\ Over(s, how).total = Size
           /\ Over(s, how).position = 0
           /\ Over(s, how).pending = {}
  BY FreshIs, ZenonT(60) DEF Over

LEMMA ResumedIs ==
    ASSUME NEW x \in StreamType
    PROVE  /\ Resumed(x) \in StreamType
           /\ Resumed(x).pc = "next" /\ Resumed(x).position = 0 /\ Resumed(x).pending = {}
           /\ Resumed(x).resume \in {x.resume, x.position}
           /\ Resumed(x).resume >= x.resume
           /\ Resumed(x).url = x.url /\ Resumed(x).resumes = x.resumes
           /\ Resumed(x).slow = x.slow /\ Resumed(x).idle = x.idle
<1>1. Higher(x.resume, x.position) \in 0..Largest
  BY SizesAssumption DEF StreamType, Higher
<1> QED
  <2>1. Higher(x.resume, x.position) \in {x.resume, x.position}
    BY DEF Higher
  <2>2. Higher(x.resume, x.position) >= x.resume
    <3>1. x.resume \in Int /\ x.position \in Int
      BY SizesAssumption DEF StreamType
    <3> QED
      BY <3>1 DEF Higher
  <2> DEFINE h == Higher(x.resume, x.position)
  <2> HIDE DEF h
  <2>3. Resumed(x) = [x EXCEPT !.pc = "next", !.pending = {}, !.total = Size,
                                !.position = 0, !.resume = h]
    BY DEF Resumed, h
  <2>4. /\ h \in 0..Largest /\ 0 \in 0..Largest /\ Size \in 1..Largest
        /\ h \in {x.resume, x.position} /\ h >= x.resume
    BY <1>1, <2>1, <2>2, SizesAssumption DEF h
  <2> QED
    BY <2>3, <2>4 DEF StreamType

LEMMA NextUrlIs ==
    ASSUME NEW x \in StreamType, x.url + 1 <= Urls + 1
    PROVE  /\ NextUrl(x) \in StreamType /\ NextUrl(x).url = x.url + 1
           /\ NextUrl(x).pc = x.pc /\ NextUrl(x).position = x.position
           /\ NextUrl(x).pending = x.pending /\ NextUrl(x).resume = x.resume
<1>1. x.url + 1 \in 1..(Urls + 1) /\ 0 \in 0..MaxSlowRerolls /\ 0 \in 0..MaxNoProgress
  BY SizesAssumption, BudgetsAssumption DEF StreamType
<1> QED
  BY <1>1 DEF NextUrl, StreamType
-----------------------------------------------------------------------------
(***************************************************************************)
(* What a step must show.                                                  *)
(***************************************************************************)

\* The types, without the streams.
Rest ==
    /\ phase \in Phases
    /\ disk \subseteq Blocks /\ orphans \subseteq Blocks /\ lost \subseteq Blocks
    /\ skipped \subseteq Blocks /\ cancelled \in BOOLEAN /\ faults \in 0..MaxFaults

\* A stream that is left alone is as right as it was if nothing is forgotten.
LEMMA Kept ==
    ASSUME NEW t \in Streams, StreamOK(t), stream'[t] = stream[t],
           Safe \subseteq Safe', phase = "failed" => phase' = "failed",
           stream[t].pc \in Active \cup {"done"} => Excused(t) \subseteq Excused(t)'
    PROVE  StreamOK(t)'
<1>1. Target(t)' = Target(t)
  BY DEF Target
<1> QED
  BY <1>1 DEF StreamOK, Quiet, Within, Ahead, Gapless, Finished, Known

Running == phase \in {"ranged", "whole"}

\* The stream of the whole file does not run beside another.
LEMMA Alone ==
    ASSUME IInv, Running, NEW s \in Streams, stream[s].pc \in Active,
           NEW t \in Streams \ {s}, stream[t].pc \in Active \cup {"done"}
    PROVE  s # Whole /\ t # Whole
<1>1. CASE phase = "ranged"
  BY <1>1 DEF IInv, PhaseOK, Active
<1>2. CASE phase = "whole"
  BY <1>2 DEF IInv, PhaseOK, Active, Streams
<1> QED
  BY <1>1, <1>2 DEF Running

LEMMA NothingElse ==
    ASSUME IInv, Running, stream[Whole].pc \in Active, NEW t \in Streams
    PROVE  t # Whole => stream[t].pending = {}
<1>1. Whole \in Streams
  BY DEF Streams
<1>2. t # Whole => stream[t].pc \notin Active
  BY <1>1, Alone
<1> QED
  BY <1>2 DEF IInv, StreamOK, Quiet, Active

\* One stream goes on, and stays in its phase or leaves it.
LEMMA OneStream ==
    ASSUME IInv, Running, NEW s \in Streams, NEW x \in StreamType, Put(s, x),
           stream[s].pc \in Active, Safe \subseteq Safe', Rest', StreamOK(s)', PhaseOK'
    PROVE  IInv'
<1>1. stream \in [Streams -> StreamType]
  BY DEF IInv, TypeOK
<1>2. stream' \in [Streams -> StreamType]
  BY <1>1 DEF Put
<1>3. TypeOK'
  BY <1>2 DEF TypeOK, Rest
<1>4. ASSUME NEW t \in Streams PROVE StreamOK(t)'
  <2>1. CASE t = s
    BY <2>1
  <2>2. CASE t # s
    <3>1. stream'[t] = stream[t]
      BY <2>2, <1>1 DEF Put
    <3>2. stream[t].pc \in Active \cup {"done"} => Excused(t) \subseteq Excused(t)'
      BY <2>2, Alone DEF Excused
    <3> QED
      BY <3>1, <3>2, Kept DEF IInv, Running
  <2> QED
    BY <2>1, <2>2
<1> QED
  BY <1>3, <1>4 DEF IInv

\* Whoever runs in a phase may go on in it.
LEMMA StillPhase ==
    ASSUME IInv, Running, NEW s \in Streams, NEW x \in StreamType, Put(s, x), phase' = phase,
           stream[s].pc \in Active, x.pc \in Active \cup {"done"}
    PROVE  PhaseOK'
<1>1. stream \in [Streams -> StreamType] /\ Whole \in Streams /\ Segments \subseteq Streams
  BY DEF IInv, TypeOK, Streams
<1>2. Whole \notin Segments
  BY DEF Whole, Segments
<1>3. stream'[s] = x /\ \A t \in Streams \ {s} : stream'[t] = stream[t]
  BY <1>1 DEF Put
<1>4. CASE phase = "ranged"
  <2>1. s # Whole
    BY <1>4 DEF IInv, PhaseOK, Active
  <2> QED
    BY <1>1, <1>2, <1>3, <1>4, <2>1 DEF IInv, PhaseOK
<1>5. CASE phase = "whole"
  <2>1. s \notin Segments
    BY <1>5 DEF IInv, PhaseOK, Active
  <2> QED
    BY <1>1, <1>2, <1>3, <1>5, <2>1 DEF IInv, PhaseOK
<1> QED
  BY <1>4, <1>5 DEF Running

\* The writes of an attempt are not forgotten when it ends.
LEMMA GoesOn ==
    ASSUME IInv, Running, NEW s \in Streams, NEW x \in StreamType, Put(s, x), Orphan({s}),
           stream[s].pc \in Active, x.pc = "next", x.position = 0, x.pending = {},
           x.resume \in {stream[s].resume, stream[s].position}, x.resume >= stream[s].resume,
           disk' = disk, lost \subseteq lost', skipped' = skipped, phase' # "failed"
    PROVE  Safe \subseteq Safe' /\ orphans' \subseteq Blocks /\ StreamOK(s)'
<1>1. stream \in [Streams -> StreamType] /\ orphans \subseteq Blocks
  BY DEF IInv, TypeOK
<1>2. orphans' = orphans \cup stream[s].pending
  BY DEF Orphan
<1>3. stream'[s] = x
  BY <1>1 DEF Put
<1>4. stream[s].pending \subseteq Blocks
  BY <1>1 DEF StreamType
<1>5. Safe \subseteq Safe' /\ Known(s) \subseteq Safe' \cup Excused(s)'
  BY <1>2 DEF Safe, Known, Excused
<1>6. phase # "failed"
  BY DEF Running
<1>7. StreamOK(s)'
  <2>1. First(s)..(x.resume - 1) \subseteq Known(s)
    BY <1>6 DEF IInv, StreamOK, Gapless
  <2>2. First(s) \in Nat
    BY Bounds, SizesAssumption
  <2>3. First(s)..(0 - 1) = {}
    BY <2>2
  <2>4. First(s) <= x.resume
    <3>1. First(s) <= stream[s].resume /\ stream[s].resume \in Nat /\ x.resume \in Nat
      BY <1>1 DEF IInv, StreamOK, Ahead, StreamType
    <3> QED
      BY <2>2, <3>1
  <2> QED
    BY <1>3, <1>5, <2>1, <2>3, <2>4
    DEF StreamOK, Quiet, Within, Ahead, Gapless, Finished, Known, Active
<1> QED
  BY <1>1, <1>2, <1>4, <1>5, <1>7

LEMMA AgainInv ==
    ASSUME IInv, Running, NEW s \in Streams, NEW x \in StreamType, Again(s, x),
           stream[s].pc \in Active, x.pc = "next", x.position = 0, x.pending = {},
           x.resume \in {stream[s].resume, stream[s].position}, x.resume >= stream[s].resume,
           lost \subseteq lost', lost' \subseteq Blocks, skipped' = skipped,
           faults' \in 0..MaxFaults
    PROVE  IInv'
<1>1. /\ Put(s, x) /\ Orphan({s})
      /\ phase' = phase /\ disk' = disk /\ cancelled' = cancelled
  BY DEF Again
<1>2. phase # "failed" /\ phase' # "failed"
  BY <1>1 DEF Running
<1>3. Safe \subseteq Safe' /\ orphans' \subseteq Blocks /\ StreamOK(s)'
  BY <1>1, <1>2, GoesOn
<1>4. PhaseOK'
  BY <1>1, StillPhase DEF Active
<1>5. Rest'
  BY <1>1, <1>3 DEF IInv, TypeOK, Rest
<1> QED
  BY <1>1, <1>3, <1>4, <1>5, OneStream

\* When a stream throws nobody runs any more.
LEMMA Takedown ==
    ASSUME IInv, Orphan(Streams), disk' = disk,
           stream' = [t \in Streams |->
                        IF stream[t].pc = "off" THEN stream[t] ELSE Over(t, "dead")],
           phase' \in {"truncate", "failing"}, cancelled' \in BOOLEAN,
           lost' \subseteq Blocks, skipped' \subseteq Blocks, faults' \in 0..MaxFaults
    PROVE  IInv'
<1>1. stream \in [Streams -> StreamType] /\ Rest
  BY DEF IInv, TypeOK, Rest
<1>2. orphans' \subseteq Blocks
  <2>1. \A t \in Streams : stream[t].pending \subseteq Blocks
    BY <1>1 DEF StreamType
  <2> QED
    BY <1>1, <2>1 DEF Orphan, Rest
<1>3. ASSUME NEW t \in Streams
      PROVE  /\ stream'[t] \in StreamType /\ stream'[t].pc \in {"off", "dead"}
             /\ stream'[t].position = 0 /\ stream'[t].pending = {}
             /\ First(t) <= stream'[t].resume
  <2>1. CASE stream[t].pc = "off"
    <3>1. stream'[t] = stream[t]
      BY <2>1
    <3> QED
      BY <2>1, <3>1, <1>1 DEF IInv, StreamOK, Quiet, Ahead
  <2>2. CASE stream[t].pc # "off"
    <3>1. stream'[t] = Over(t, "dead")
      BY <2>2
    <3>2. First(t) <= First(t)
      BY Bounds, SizesAssumption
    <3> QED
      BY <3>1, <3>2, OverIs
  <2> QED
    BY <2>1, <2>2
<1>4. TypeOK'
  <2>1. stream' \in [Streams -> StreamType]
    BY <1>3
  <2> QED
    BY <1>1, <1>2, <2>1 DEF TypeOK, Rest, Phases
<1>5. \A t \in Streams : StreamOK(t)'
  BY <1>3 DEF StreamOK, Quiet, Within, Ahead, Gapless, Finished, Active
<1>6. PhaseOK'
  BY <1>3 DEF PhaseOK, Streams
<1> QED
  BY <1>4, <1>5, <1>6 DEF IInv

LEMMA ThrowInv ==
    ASSUME IInv, NEW s \in Streams, NEW refused \in BOOLEAN, Throw(s, refused),
           lost \subseteq lost', lost' \subseteq Blocks, skipped' = skipped,
           faults' \in 0..MaxFaults
    PROVE  IInv'
<1>1. /\ Orphan(Streams) /\ disk' = disk /\ cancelled' = cancelled
      /\ phase' \in {"truncate", "failing"}
      /\ stream' = [t \in Streams |->
                      IF stream[t].pc = "off" THEN stream[t] ELSE Over(t, "dead")]
  BY DEF Throw
<1>2. cancelled' \in BOOLEAN /\ skipped' \subseteq Blocks
  BY <1>1 DEF IInv, TypeOK
<1> QED
  BY <1>1, <1>2, Takedown
-----------------------------------------------------------------------------
(***************************************************************************)
(* The ends of an attempt                                                  *)
(***************************************************************************)

\* What an action does besides: it forgets no failed write and no excuse.
LostKept ==
    /\ lost \subseteq lost' /\ lost' \subseteq Blocks /\ skipped' = skipped
    /\ faults' \in 0..MaxFaults

LEMMA UnchangedLost ==
    ASSUME IInv, UNCHANGED <<lost, skipped, faults>>
    PROVE  LostKept
  BY DEF IInv, TypeOK, LostKept

\* The next attempt of a stream is one that resumes.
LEMMA RerollInv ==
    ASSUME IInv, Running, LostKept, NEW s \in Streams, stream[s].pc \in Active,
           NEW x \in StreamType, Again(s, x), x.pc = "next", x.position = 0, x.pending = {},
           x.resume = Resumed(stream[s]).resume
    PROVE  IInv'
<1>1. stream[s] \in StreamType
  BY DEF IInv, TypeOK
<1> QED
  BY <1>1, ResumedIs, AgainInv DEF LostKept

LEMMA AdvanceInv ==
    ASSUME IInv, Running, LostKept, NEW s \in Streams, stream[s].pc \in Active, Advance(s)
    PROVE  IInv'
<1> DEFINE r == Resumed(stream[s])
<1>1. r \in StreamType /\ r.pc = "next" /\ r.position = 0 /\ r.pending = {}
  BY ResumedIs DEF IInv, TypeOK
<1>2. NextUrl(r).url = r.url + 1
  BY <1>1 DEF NextUrl, StreamType
<1>3. CASE NextUrl(r).url > Urls
  <2>1. Throw(s, FALSE)
    BY <1>3 DEF Advance
  <2> QED
    BY <2>1, ThrowInv DEF LostKept
<1>4. CASE ~(NextUrl(r).url > Urls)
  <2>1. Again(s, NextUrl(r))
    BY <1>4 DEF Advance
  <2>2. r.url + 1 <= Urls + 1
    BY <1>1, <1>2, <1>4, SizesAssumption DEF StreamType
  <2> HIDE DEF r
  <2>3. /\ NextUrl(r) \in StreamType /\ NextUrl(r).pc = "next" /\ NextUrl(r).position = 0
        /\ NextUrl(r).pending = {} /\ NextUrl(r).resume = r.resume
    BY <1>1, <2>2, NextUrlIs
  <2> QED
    BY <2>1, <2>3, RerollInv DEF r
<1> QED
  BY <1>3, <1>4

\* Another attempt at the same URL, which is charged to a budget.
LEMMA ChargedInv ==
    ASSUME IInv, Running, LostKept, NEW s \in Streams, stream[s].pc \in Active,
           \/ /\ stream[s].resumes < MaxResumes
              /\ Again(s, [Resumed(stream[s]) EXCEPT !.resumes = @ + 1])
           \/ /\ stream[s].idle < MaxNoProgress
              /\ Again(s, [Resumed(stream[s]) EXCEPT !.idle = @ + 1])
           \/ /\ stream[s].slow < MaxSlowRerolls /\ stream[s].resumes < MaxResumes
              /\ Again(s, [Resumed(stream[s]) EXCEPT !.slow = @ + 1, !.resumes = @ + 1])
           \/ Again(s, [Resumed(stream[s]) EXCEPT !.committed = TRUE])
    PROVE  IInv'
<1> DEFINE r == Resumed(stream[s])
           a == [r EXCEPT !.resumes = @ + 1]
           b == [r EXCEPT !.idle = @ + 1]
           c == [r EXCEPT !.slow = @ + 1, !.resumes = @ + 1]
           d == [r EXCEPT !.committed = TRUE]
           Good(x) == /\ x \in StreamType /\ x.pc = "next" /\ x.position = 0
                      /\ x.pending = {} /\ x.resume = r.resume
<1>1. /\ r \in StreamType /\ r.pc = "next" /\ r.position = 0 /\ r.pending = {}
      /\ r.resumes = stream[s].resumes /\ r.slow = stream[s].slow /\ r.idle = stream[s].idle
  BY ResumedIs DEF IInv, TypeOK
<1>2. ASSUME NEW x, Again(s, x), Good(x) PROVE IInv'
  BY <1>2, RerollInv
<1> HIDE DEF r
<1>3. r.resumes < MaxResumes => Good(a)
  BY <1>1, BudgetsAssumption DEF StreamType
<1>4. r.idle < MaxNoProgress => Good(b)
  BY <1>1, BudgetsAssumption DEF StreamType
<1>5. r.slow < MaxSlowRerolls /\ r.resumes < MaxResumes => Good(c)
  <2> SUFFICES ASSUME r.slow < MaxSlowRerolls, r.resumes < MaxResumes PROVE Good(c)
    OBVIOUS
  <2>1. r.slow + 1 \in 0..MaxSlowRerolls /\ r.resumes + 1 \in 0..MaxResumes
    BY <1>1, BudgetsAssumption DEF StreamType
  <2>2. c = [r EXCEPT !.slow = r.slow + 1, !.resumes = r.resumes + 1]
    BY <1>1 DEF StreamType
  <2> HIDE DEF c
  <2> QED
    BY <1>1, <2>1, <2>2 DEF StreamType
<1>6. Good(d)
  BY <1>1 DEF StreamType
<1>7. \/ r.resumes < MaxResumes /\ Again(s, a)
      \/ r.idle < MaxNoProgress /\ Again(s, b)
      \/ r.slow < MaxSlowRerolls /\ r.resumes < MaxResumes /\ Again(s, c)
      \/ Again(s, d)
  BY <1>1 DEF r
<1> HIDE DEF Good, a, b, c, d
<1> QED
  BY <1>2, <1>3, <1>4, <1>5, <1>6, <1>7

LEMMA AfterFailureInv ==
    ASSUME IInv, Running, LostKept, NEW s \in Streams, stream[s].pc \in Active,
           AfterFailure(s)
    PROVE  IInv'
  BY ChargedInv, AdvanceInv DEF AfterFailure
-----------------------------------------------------------------------------
(***************************************************************************)
(* The actions                                                             *)
(***************************************************************************)

LEMMA InitInv == Init => IInv
<1> SUFFICES ASSUME Init PROVE IInv
  OBVIOUS
<1>1. ASSUME NEW s \in Streams
      PROVE  /\ stream[s] \in StreamType /\ stream[s].pc \in {"off", "next"}
             /\ stream[s].resume = First(s) /\ stream[s].position = 0 /\ stream[s].pending = {}
             /\ s = Whole => stream[s].pc = IF phase = "ranged" THEN "off" ELSE "next"
             /\ s # Whole => stream[s].pc = IF phase = "ranged" THEN "next" ELSE "off"
  <2> DEFINE how == IF (s = Whole) = (phase = "ranged") THEN "off" ELSE "next"
  <2>1. how \in {"off", "next"}
    OBVIOUS
  <2>2. stream[s] = [Fresh(s) EXCEPT !.pc = how]
    <3>1. CASE phase = "ranged"
      <4>1. stream = [u \in Streams |->
                        [Fresh(u) EXCEPT !.pc = IF u = Whole THEN "off" ELSE "next"]]
        BY <3>1 DEF Init
      <4>2. stream[s] = [Fresh(s) EXCEPT !.pc = IF s = Whole THEN "off" ELSE "next"]
        BY <4>1
      <4>3. (IF s = Whole THEN "off" ELSE "next") = how
        BY <3>1
      <4> QED
        BY <4>2, <4>3
    <3>2. CASE phase # "ranged"
      <4>1. stream = [u \in Streams |->
                        [Fresh(u) EXCEPT !.pc = IF u = Whole THEN "next" ELSE "off"]]
        BY <3>2 DEF Init
      <4>2. stream[s] = [Fresh(s) EXCEPT !.pc = IF s = Whole THEN "next" ELSE "off"]
        BY <4>1
      <4>3. (IF s = Whole THEN "next" ELSE "off") = how
        BY <3>2
      <4> QED
        BY <4>2, <4>3
    <3> QED
      BY <3>1, <3>2
  <2>3. /\ s = Whole => how = IF phase = "ranged" THEN "off" ELSE "next"
        /\ s # Whole => how = IF phase = "ranged" THEN "next" ELSE "off"
    OBVIOUS
  <2> HIDE DEF how
  <2> DEFINE f == [Fresh(s) EXCEPT !.pc = how]
  <2>4. /\ f \in StreamType /\ f.pc = how /\ f.resume = First(s) /\ f.position = 0
        /\ f.pending = {}
    BY <2>1, FreshIs, ZenonT(60)
  <2>5. stream[s] = f
    BY <2>2
  <2> HIDE DEF f
  <2> QED
    BY <2>1, <2>3, <2>4, <2>5
<1>2. phase \in {"ranged", "whole"} /\ stream \in [Streams -> StreamType]
  <2>1. phase \in {"ranged", "whole"} /\ stream = [s \in Streams |-> stream[s]]
    BY DEF Init
  <2> QED
    BY <1>1, <2>1
<1>3. TypeOK
  <2>1. MaxFaults \in 0..MaxFaults
    BY BudgetsAssumption
  <2>2. /\ disk = {} /\ orphans = {} /\ lost = {} /\ skipped = {} /\ cancelled = FALSE
        /\ faults = MaxFaults
    BY DEF Init
  <2> QED
    BY <1>2, <2>1, <2>2 DEF TypeOK, Phases
<1>4. ASSUME NEW s \in Streams PROVE StreamOK(s)
  <2>1. First(s)..(First(s) - 1) = {} /\ First(s)..(0 - 1) = {} /\ First(s) <= First(s)
    BY Bounds, SizesAssumption
  <2> QED
    BY <1>1, <2>1 DEF StreamOK, Quiet, Within, Ahead, Gapless, Finished
<1>5. PhaseOK
  <2>1. \A s \in Segments : s \in Streams /\ s # Whole
    BY DEF Streams, Segments, Whole
  <2> QED
    BY <1>1, <1>2, <2>1 DEF PhaseOK, Streams, Active
<1> QED
  BY <1>3, <1>4, <1>5 DEF IInv

LEMMA AskInv ==
    ASSUME IInv, Running, NEW s \in Streams, Ask(s) \/ EndEarly(s)
    PROVE  IInv'
<1>1. stream[s] \in StreamType /\ StreamOK(s) /\ Rest
  BY DEF IInv, TypeOK, Rest
<1>2. PICK x \in StreamType :
        /\ Put(s, x) /\ stream[s].pc \in Active
        /\ \/ x.pc = "asked" /\ stream[s].pc = "next"
           \/ x.pc = "ended" /\ stream[s].pc = "body"
        /\ x.position = stream[s].position /\ x.pending = stream[s].pending
        /\ x.resume = stream[s].resume /\ x.total = stream[s].total
  <2>1. CASE Ask(s)
    <3> DEFINE x == [stream[s] EXCEPT !.pc = "asked"]
    <3>1. /\ x \in StreamType /\ x.pc = "asked" /\ x.position = stream[s].position
          /\ x.pending = stream[s].pending /\ x.resume = stream[s].resume
          /\ x.total = stream[s].total
      BY <1>1 DEF StreamType
    <3>2. Put(s, x) /\ stream[s].pc = "next"
      BY <2>1 DEF Ask
    <3> HIDE DEF x
    <3> QED
      BY <3>1, <3>2 DEF Active
  <2>2. CASE EndEarly(s)
    <3> DEFINE x == [stream[s] EXCEPT !.pc = "ended"]
    <3>1. /\ x \in StreamType /\ x.pc = "ended" /\ x.position = stream[s].position
          /\ x.pending = stream[s].pending /\ x.resume = stream[s].resume
          /\ x.total = stream[s].total
      BY <1>1 DEF StreamType
    <3>2. Put(s, x) /\ stream[s].pc = "body"
      BY <2>2 DEF EndEarly
    <3> HIDE DEF x
    <3> QED
      BY <3>1, <3>2 DEF Active
  <2> QED
    BY <2>1, <2>2
<1>3. UNCHANGED <<phase, disk, orphans, lost, skipped, cancelled, faults>>
  BY DEF Ask, EndEarly
<1>4. stream'[s] = x
  BY <1>2 DEF Put, IInv, TypeOK
<1>5. Safe' = Safe /\ Rest' /\ phase # "failed"
  BY <1>1, <1>3 DEF Safe, Rest, Running
<1>6. StreamOK(s)'
  <2>1. Target(s)' = Target(s) /\ Known(s)' = Known(s)
    BY <1>2, <1>3, <1>4, <1>5 DEF Target, Known, Excused
  <2> QED
    BY <1>1, <1>2, <1>3, <1>4, <1>5, <2>1
    DEF StreamOK, Quiet, Within, Ahead, Gapless, Finished, Active
<1>7. PhaseOK'
  BY <1>2, <1>3, StillPhase DEF Active
<1> QED
  BY <1>2, <1>5, <1>6, <1>7, OneStream

\* What a server leaves out by the offset of its answer is put down.
LEMMA AnswerInv ==
    ASSUME IInv, Running, NEW s \in Streams, Answer(s)
    PROVE  IInv'
<1>1. stream[s] \in StreamType /\ StreamOK(s) /\ Rest
  BY DEF IInv, TypeOK, Rest
<1>2. stream[s].pc = "asked" /\ stream[s].position = 0 /\ stream[s].pending = {}
  BY <1>1 DEF Answer, StreamOK, Quiet
<1>3. PICK start \in IF s = Whole THEN 0..Largest ELSE {stream[s].resume},
           total \in IF s = Whole THEN 1..Largest ELSE {Size} :
        /\ IF start \in {0, stream[s].resume} /\ total = Size THEN UNCHANGED faults
           ELSE faults > 0 /\ faults' = faults - 1
        /\ Put(s, [stream[s] EXCEPT !.pc = "body", !.total = total, !.position = start])
        /\ skipped' = skipped \cup LeftOut(stream[s].resume, start)
  BY DEF Answer
<1>4. UNCHANGED <<phase, disk, orphans, lost, cancelled>>
  BY DEF Answer
<1>5. /\ start \in 0..Largest /\ total \in 1..Largest /\ stream[s].resume \in 0..Largest
      /\ Largest \in Nat
  BY <1>1, SizesAssumption DEF StreamType
<1> DEFINE x == [stream[s] EXCEPT !.pc = "body", !.total = total, !.position = start]
<1>6. /\ x \in StreamType /\ x.pc = "body" /\ x.position = start
      /\ x.pending = {} /\ x.resume = stream[s].resume
  BY <1>1, <1>2, <1>5 DEF StreamType
<1>7. Put(s, x)
  BY <1>3
<1> HIDE DEF x
<1>8. stream'[s] = x
  BY <1>7 DEF Put, IInv, TypeOK
<1>9. Safe' = Safe /\ phase # "failed"
  BY <1>4 DEF Safe, Running
<1>10. Rest'
  <2>1. LeftOut(stream[s].resume, start) \subseteq Blocks
    BY <1>5 DEF LeftOut, Blocks
  <2>2. faults' \in 0..MaxFaults
    BY <1>1, <1>3, BudgetsAssumption DEF Rest
  <2> QED
    BY <1>1, <1>3, <1>4, <2>1, <2>2 DEF Rest
<1>11. First(s)..(stream[s].resume - 1) \subseteq Known(s)'
  <2>1. First(s)..(stream[s].resume - 1) \subseteq Known(s)
    BY <1>1, <1>2, <1>9 DEF StreamOK, Gapless, Active
  <2>2. Known(s) \subseteq Known(s)'
    BY <1>2, <1>3, <1>6, <1>8, <1>9 DEF Known, Excused
  <2> QED
    BY <2>1, <2>2
<1>12. First(s)..(start - 1) \subseteq Known(s)'
  <2>1. CASE s # Whole
    BY <1>3, <1>11, <2>1
  <2>2. CASE s = Whole
    <3> SUFFICES ASSUME NEW b \in First(s)..(start - 1) PROVE b \in Known(s)'
      OBVIOUS
    <3>1. First(s) \in Nat /\ b \in Int
      BY Bounds, SizesAssumption
    <3>2. CASE b < stream[s].resume
      BY <1>5, <1>11, <3>1, <3>2
    <3>3. CASE ~(b < stream[s].resume)
      <4>1. b \in stream[s].resume..(start - 1)
        BY <1>5, <3>1, <3>3
      <4>2. \A t \in Streams : stream[t].pending = {}
        BY <1>2, <2>2, NothingElse DEF Active
      <4>3. b \in LeftOut(stream[s].resume, start) \cup Safe
        BY <4>1, <4>2 DEF LeftOut, Safe
      <4> QED
        BY <1>3, <1>9, <2>2, <4>3 DEF Known, Excused
    <3> QED
      BY <3>2, <3>3
  <2> QED
    BY <2>1, <2>2
<1>13. First(s) <= stream[s].resume /\ First(s) <= start
  <2>1. First(s) <= stream[s].resume
    BY <1>1 DEF StreamOK, Ahead
  <2>2. s = Whole => First(s) <= start
    BY <1>5 DEF First
  <2> QED
    BY <1>3, <2>1, <2>2
<1>14. StreamOK(s)'
  BY <1>6, <1>8, <1>11, <1>12, <1>13
  DEF StreamOK, Quiet, Within, Ahead, Gapless, Finished
<1>15. PhaseOK'
  BY <1>2, <1>4, <1>6, <1>7, StillPhase DEF Active
<1> QED
  BY <1>2, <1>6, <1>7, <1>9, <1>10, <1>14, <1>15, OneStream DEF Active

LEMMA DataInv ==
    ASSUME IInv, Running, NEW s \in Streams, Data(s)
    PROVE  IInv'
<1> DEFINE p == stream[s].position
           pc == IF p + 1 = Target(s) THEN "ended" ELSE "body"
           x == [stream[s] EXCEPT !.position = p + 1, !.pending = stream[s].pending \cup {p},
                                  !.pc = pc]
<1>1. stream[s] \in StreamType /\ StreamOK(s) /\ Rest
  BY DEF IInv, TypeOK, Rest
<1>2. /\ UNCHANGED <<phase, disk, orphans, lost, cancelled, faults>>
      /\ stream[s].pc = "body" /\ p < Target(s) /\ Put(s, x)
      /\ skipped' = skipped \ {p}
  BY DEF Data
<1>3. /\ First(s) \in Nat /\ Target(s) \in 0..Largest /\ Largest \in Nat /\ p \in 0..Largest
  BY <1>1, Bounds, TargetIs, SizesAssumption DEF StreamType
<1>4. p + 1 \in 0..Largest /\ p \in Blocks /\ pc \in {"body", "ended"}
  BY <1>2, <1>3 DEF Blocks
<1> HIDE DEF pc
<1>5. /\ x \in StreamType /\ x.pc = pc /\ x.position = p + 1
      /\ x.pending = stream[s].pending \cup {p} /\ x.resume = stream[s].resume
      /\ x.total = stream[s].total
  BY <1>1, <1>4 DEF StreamType
<1> HIDE DEF x
<1>6. stream'[s] = x
  BY <1>2 DEF Put, IInv, TypeOK
<1>7. Safe' = Safe /\ Rest' /\ phase # "failed" /\ phase' = phase
  BY <1>1, <1>2 DEF Safe, Rest, Running
<1>8. /\ First(s)..(stream[s].resume - 1) \subseteq Known(s)
      /\ First(s)..(p - 1) \subseteq Known(s)
  BY <1>1, <1>2, <1>7 DEF StreamOK, Gapless, Active
<1>9. First(s)..(p + 1 - 1) \subseteq Known(s) \cup {p}
  BY <1>3, <1>8
<1>10. Within(s)'
  <2>1. First(s) <= p
    BY <1>1, <1>2 DEF StreamOK, Ahead
  <2> QED
    <3>1. Target(s)' = Target(s)
      BY <1>5, <1>6 DEF Target
    <3> QED
      BY <1>1, <1>2, <1>3, <1>5, <1>6, <2>1, <3>1 DEF Within, StreamOK
<1>11. StreamOK(s)'
  <2>1. Quiet(s)' /\ Finished(s)'
    BY <1>4, <1>5, <1>6 DEF Quiet, Finished
  <2>2. Ahead(s)'
    <3>1. First(s) <= stream[s].resume /\ First(s) <= p
      BY <1>1, <1>2 DEF StreamOK, Ahead
    <3>2. First(s) <= p + 1
      BY <1>3, <3>1
    <3> QED
      BY <1>5, <1>6, <3>1, <3>2 DEF Ahead
  <2>3. Known(s)' = Known(s) \cup {p}
    BY <1>2, <1>5, <1>6, <1>7 DEF Known, Excused
  <2>4. Gapless(s)'
    <3>1. stream'[s].resume = stream[s].resume /\ stream'[s].position = p + 1
      BY <1>5, <1>6
    <3>2. First(s)..(stream'[s].resume - 1) \subseteq Known(s)'
      BY <1>8, <2>3, <3>1
    <3>3. First(s)..(stream'[s].position - 1) \subseteq Known(s)'
      BY <1>3, <1>9, <2>3, <3>1
    <3> HIDE DEF p
    <3> QED
      BY <3>2, <3>3, Zenon DEF Gapless
  <2> QED
    BY <1>10, <2>1, <2>2, <2>4 DEF StreamOK
<1>12. PhaseOK'
  BY <1>2, <1>4, <1>5, StillPhase DEF Active
<1> QED
  BY <1>2, <1>5, <1>7, <1>11, <1>12, OneStream DEF Active

\* The attempts that end without an answer that counts.
LEMMA EndsInv ==
    ASSUME IInv, Running, NEW s \in Streams,
           \/ Skip(s) \/ RefuseRange(s) \/ AskCancelled(s) \/ Fail(s) \/ Slow(s) \/ Stall(s)
    PROVE  IInv'
<1>1. stream[s] \in StreamType /\ StreamOK(s)
  BY DEF IInv, TypeOK
<1>2. LostKept
  BY UnchangedLost DEF Skip, RefuseRange, AskCancelled, Fail, Slow, Stall
<1>3. CASE Skip(s)
  <2>1. stream[s].pc \in Active
    BY <1>3 DEF Skip, Active
  <2>2. CASE stream[s].pc = "next"
    <3> DEFINE x == NextUrl(stream[s])
    <3>1. stream[s].url + 1 <= Urls + 1
      BY <1>1, <1>3, SizesAssumption DEF Skip, StreamType
    <3>2. stream[s].position = 0 /\ stream[s].pending = {}
      BY <1>1, <2>2 DEF StreamOK, Quiet
    <3>3. /\ x \in StreamType /\ x.pc = "next" /\ x.position = 0 /\ x.pending = {}
          /\ x.resume = stream[s].resume
      BY <1>1, <2>2, <3>1, <3>2, NextUrlIs
    <3>4. Again(s, x)
      BY <1>3, <2>2 DEF Skip
    <3>5. x.resume >= stream[s].resume
      BY <1>1, <3>3, SizesAssumption DEF StreamType
    <3> HIDE DEF x
    <3> QED
      BY <1>2, <2>1, <3>3, <3>4, <3>5, AgainInv DEF LostKept
  <2>3. CASE stream[s].pc # "next"
    <3>1. Advance(s)
      BY <1>3, <2>3 DEF Skip
    <3> QED
      BY <1>2, <2>1, <3>1, AdvanceInv
  <2> QED
    BY <2>2, <2>3
<1>4. CASE RefuseRange(s)
  <2>1. Throw(s, TRUE)
    BY <1>4 DEF RefuseRange
  <2> QED
    BY <1>2, <2>1, ThrowInv DEF LostKept
<1>5. CASE AskCancelled(s)
  <2>1. Throw(s, FALSE)
    BY <1>5 DEF AskCancelled
  <2> QED
    BY <1>2, <2>1, ThrowInv DEF LostKept
<1>6. CASE Fail(s)
  <2>1. stream[s].pc \in Active /\ AfterFailure(s)
    BY <1>6 DEF Fail, Underway, Active
  <2> QED
    BY <1>2, <2>1, AfterFailureInv
<1>7. CASE Slow(s)
  <2> DEFINE r == Resumed(stream[s])
  <2>1. stream[s].pc \in Active
    BY <1>7 DEF Slow, Active
  <2>2. /\ r \in StreamType /\ r.pc = "next" /\ r.position = 0 /\ r.pending = {}
        /\ r.slow = stream[s].slow /\ r.resumes = stream[s].resumes
    BY <1>1, ResumedIs
  <2>3. \/ /\ r.slow < MaxSlowRerolls /\ r.resumes < MaxResumes
           /\ Again(s, [r EXCEPT !.slow = @ + 1, !.resumes = @ + 1])
        \/ r.url < Urls /\ Again(s, NextUrl(r))
        \/ Again(s, [r EXCEPT !.committed = TRUE])
    BY <1>7 DEF Slow
  <2>4. CASE r.url < Urls /\ Again(s, NextUrl(r))
    <3> HIDE DEF r
    <3>1. r.url + 1 <= Urls + 1
      BY <2>2, <2>4, SizesAssumption DEF StreamType
    <3>2. /\ NextUrl(r) \in StreamType /\ NextUrl(r).pc = "next" /\ NextUrl(r).position = 0
          /\ NextUrl(r).pending = {} /\ NextUrl(r).resume = r.resume
      BY <2>2, <3>1, NextUrlIs
    <3> QED
      BY <1>2, <2>1, <2>4, <3>2, RerollInv DEF r
  <2>5. CASE ~(r.url < Urls /\ Again(s, NextUrl(r)))
    <3>1. \/ /\ stream[s].slow < MaxSlowRerolls /\ stream[s].resumes < MaxResumes
             /\ Again(s, [Resumed(stream[s]) EXCEPT !.slow = @ + 1, !.resumes = @ + 1])
          \/ Again(s, [Resumed(stream[s]) EXCEPT !.committed = TRUE])
      BY <2>2, <2>3, <2>5, Zenon
    <3> QED
      BY <1>2, <2>1, <3>1, ChargedInv, Zenon
  <2> QED
    BY <2>4, <2>5
<1>8. CASE Stall(s)
  <2>1. stream[s].pc \in Active
    BY <1>8 DEF Stall, Underway, Active
  <2>2. CASE stream[s].idle < MaxNoProgress
    <3>1. Again(s, [Resumed(stream[s]) EXCEPT !.idle = @ + 1])
      BY <1>8, <2>2, Zenon DEF Stall
    <3> QED
      BY <1>2, <2>1, <2>2, <3>1, ChargedInv, Zenon
  <2>3. CASE ~(stream[s].idle < MaxNoProgress)
    <3>1. Advance(s)
      BY <1>8, <2>3, Zenon DEF Stall
    <3> QED
      BY <1>2, <2>1, <3>1, AdvanceInv
  <2> QED
    BY <2>2, <2>3
<1> QED
  BY <1>3, <1>4, <1>5, <1>6, <1>7, <1>8

LEMMA WriteFailsInv ==
    ASSUME IInv, Running, NEW s \in Streams, WriteFails(s)
    PROVE  IInv'
<1>1. stream[s].pc \in Active /\ AfterFailure(s)
  BY DEF WriteFails, Underway, Active
<1>2. LostKept
  <2>1. stream[s].pending \subseteq Blocks /\ lost \subseteq Blocks
    BY DEF IInv, TypeOK, StreamType
  <2>2. faults' \in 0..MaxFaults
    BY BudgetsAssumption DEF IInv, TypeOK, WriteFails
  <2> QED
    BY <2>1, <2>2 DEF LostKept, WriteFails
<1> QED
  BY <1>1, <1>2, AfterFailureInv

LEMMA WrittenInv ==
    ASSUME IInv, Running, NEW s \in Streams, Written(s)
    PROVE  IInv'
<1>1. stream[s] \in StreamType /\ StreamOK(s) /\ Rest
  BY DEF IInv, TypeOK, Rest
<1>2. PICK b \in stream[s].pending :
        /\ disk' = disk \cup {b} /\ lost' = lost \ {b}
        /\ Put(s, [stream[s] EXCEPT !.pending = @ \ {b}])
  BY DEF Written
<1> DEFINE x == [stream[s] EXCEPT !.pending = @ \ {b}]
<1>3. /\ x \in StreamType /\ x.pc = stream[s].pc /\ x.position = stream[s].position
      /\ x.resume = stream[s].resume /\ x.pending = stream[s].pending \ {b}
      /\ x.total = stream[s].total
  <2> DEFINE rest == stream[s].pending \ {b}
  <2>1. rest \in SUBSET Blocks
    BY <1>1 DEF StreamType
  <2>2. x = [stream[s] EXCEPT !.pending = rest]
    BY <1>1 DEF StreamType
  <2> HIDE DEF rest, x
  <2>3. /\ x \in StreamType /\ x.pc = stream[s].pc /\ x.position = stream[s].position
        /\ x.resume = stream[s].resume /\ x.pending = rest /\ x.total = stream[s].total
    BY <1>1, <2>1, <2>2 DEF StreamType
  <2> QED
    BY <2>3 DEF rest
<1>4. /\ UNCHANGED <<phase, orphans, skipped, cancelled, faults>>
      /\ stream[s].pc \in {"asked", "body", "ended"} /\ Put(s, x)
  BY <1>2 DEF Written, Underway
<1> HIDE DEF x
<1>5. stream'[s] = x
  BY <1>4 DEF Put, IInv, TypeOK
<1>6. Safe \subseteq Safe' /\ Known(s)' = Known(s)
  BY <1>2, <1>3, <1>4, <1>5 DEF Safe, Known, Excused
<1>7. phase # "failed" /\ phase' = phase
  BY <1>4 DEF Running
<1>8. Rest'
  <2>1. b \in Blocks
    BY <1>1, <1>2 DEF StreamType
  <2> QED
    BY <1>1, <1>2, <1>4, <2>1 DEF Rest
<1>9. StreamOK(s)'
  <2>1. Target(s)' = Target(s)
    BY <1>3, <1>5 DEF Target
  <2>3. Quiet(s)' /\ Within(s)' /\ Ahead(s)' /\ Finished(s)'
    BY <1>1, <1>3, <1>4, <1>5, <2>1 DEF StreamOK, Quiet, Within, Ahead, Finished
  <2>2. Gapless(s)'
    BY <1>1, <1>3, <1>4, <1>5, <1>6, <1>7 DEF StreamOK, Gapless, Active
  <2> QED
    BY <2>2, <2>3 DEF StreamOK
<1>10. PhaseOK'
  BY <1>3, <1>4, StillPhase DEF Active
<1> QED
  BY <1>3, <1>4, <1>6, <1>8, <1>9, <1>10, OneStream DEF Active

\* A stream returns when it stands at the end of its range, and the download
\* when every stream that ran has.
LEMMA CompleteInv ==
    ASSUME IInv, Running, NEW s \in Streams, Complete(s)
    PROVE  IInv'
<1>1. /\ stream \in [Streams -> StreamType] /\ stream[s] \in StreamType
      /\ StreamOK(s) /\ Rest /\ stream[s].pc = "ended" /\ stream[s].pending = {}
  BY DEF IInv, TypeOK, Rest, Complete
<1>2. /\ stream[s].position \in 0..Largest /\ stream[s].resume \in 0..Largest
      /\ Target(s) \in 0..Largest /\ Largest \in Nat /\ Size \in Nat /\ Size <= Largest
  BY <1>1, TargetIs, SizesAssumption DEF StreamType
<1>3. CASE stream[s].position >= Target(s)
  <2> DEFINE x == Over(s, "done")
             h == Higher(stream[s].resume, stream[s].position)
  <2>1. /\ Put(s, x) /\ UNCHANGED <<disk, orphans, lost, cancelled, faults>>
        /\ skipped' = IF s = Whole THEN skipped \cup LeftOut(h, Size) ELSE skipped
        /\ phase' = IF \A t \in Streams \ {s} : stream[t].pc \in {"off", "done", "dead"}
                     THEN "complete" ELSE phase
    <3>1. ~(stream[s].position < Target(s))
      BY <1>2, <1>3
    <3> QED
      BY <1>3, <3>1, Zenon DEF Complete
  <2>2. h \in {stream[s].resume, stream[s].position} /\ h \in 0..Largest
        /\ h >= stream[s].position
    BY <1>2 DEF Higher
  <2> HIDE DEF h
  <2>3. /\ x.total = Size /\ x \in StreamType /\ x.pc = "done" /\ x.resume = First(s) /\ x.position = 0
        /\ x.pending = {}
    BY OverIs
  <2> HIDE DEF x
  <2>4. stream'[s] = x /\ \A t \in Streams \ {s} : stream'[t] = stream[t]
    BY <1>1, <2>1 DEF Put
  <2>5. phase # "failed" /\ Safe' = Safe /\ Known(s) = Safe \cup Excused(s)
        /\ Excused(s) \subseteq Excused(s)' /\ Safe \cup Excused(s) \subseteq Known(s)'
    BY <1>1, <2>1 DEF Running, Safe, Known, Excused
  <2>6. StreamOK(s)'
    <3>1. First(s)..(h - 1) \subseteq Safe \cup Excused(s)
      BY <1>1, <2>2, <2>5 DEF StreamOK, Gapless, Active
    <3>2. First(s)..(Target(s)' - 1) \subseteq Known(s)'
      <4>1. CASE s # Whole
        <5>1. Target(s)' = Target(s) /\ First(s) \in Nat
          BY <4>1, Bounds, SizesAssumption DEF Target
        <5> QED
          BY <1>2, <1>3, <2>2, <2>5, <3>1, <5>1
      <4>2. CASE s = Whole
        <5>1. Target(s)' = Size /\ First(s) = 0
          BY <4>2, <2>3, <2>4 DEF Target, First
        <5> SUFFICES ASSUME NEW b \in 0..(Size - 1) PROVE b \in Known(s)'
          BY <5>1
        <5>2. CASE b < h
          BY <1>2, <2>2, <2>5, <3>1, <5>1, <5>2
        <5>3. CASE ~(b < h)
          <6>1. b \in h..(Size - 1)
            BY <1>2, <2>2, <5>3
          <6>2. \A t \in Streams : stream[t].pending = {}
            BY <1>1, <4>2, NothingElse DEF Active
          <6>3. b \in LeftOut(h, Size) \cup Safe
            BY <6>1, <6>2 DEF LeftOut, Safe
          <6> QED
            BY <2>1, <2>5, <4>2, <6>3 DEF Known, Excused
        <5> QED
          BY <5>2, <5>3
      <4> QED
        BY <4>1, <4>2
    <3>3. First(s) <= First(s) /\ First(s) = First(s)'
      BY Bounds, SizesAssumption DEF First
    <3> QED
      BY <2>3, <2>4, <3>2, <3>3
      DEF StreamOK, Quiet, Within, Ahead, Gapless, Finished, Active
  <2>7. PhaseOK'
    <3>1. CASE phase' = phase
      BY <1>1, <2>1, <2>3, <3>1, StillPhase DEF Active
    <3>2. CASE phase' # phase
      <4>1. phase' = "complete" /\ \A t \in Streams \ {s} : stream[t].pc \in {"off", "done", "dead"}
        BY <2>1, <3>2
      <4>2. s # Whole => phase = "ranged"
        <5>1. s # Whole => s \in Segments
          BY DEF Streams
        <5> QED
          BY <1>1, <5>1 DEF Running, IInv, PhaseOK
      <4>3. s # Whole => \A t \in Segments : stream'[t].pc = "done"
        <5>1. \A t \in Segments : t \in Streams
          BY DEF Streams
        <5>2. phase = "ranged" => \A t \in Segments : stream[t].pc \in Active \cup {"done"}
          BY DEF IInv, PhaseOK
        <5> QED
          BY <4>1, <4>2, <5>1, <5>2, <2>3, <2>4 DEF Active
      <4> QED
        BY <4>1, <4>3, <2>3, <2>4 DEF PhaseOK
    <3> QED
      BY <3>1, <3>2
  <2>8. Rest'
    <3>1. phase' \in Phases
      BY <1>1, <2>1 DEF Rest, Phases
    <3>2. skipped' \subseteq Blocks
      <4>1. LeftOut(h, Size) \subseteq h..(Size - 1)
        BY DEF LeftOut
      <4>2. h..(Size - 1) \subseteq Blocks
        BY <1>2, <2>2 DEF Blocks
      <4> QED
        BY <1>1, <2>1, <4>1, <4>2, Zenon DEF Rest
    <3> QED
      BY <1>1, <2>1, <3>1, <3>2 DEF Rest
  <2> QED
    BY <1>1, <2>1, <2>3, <2>5, <2>6, <2>7, <2>8, OneStream DEF Active
<1>4. CASE ~(stream[s].position >= Target(s))
  <2>1. /\ UNCHANGED <<lost, skipped, faults>>
        /\ IF stream[s].resumes < MaxResumes
             THEN Again(s, [Resumed(stream[s]) EXCEPT !.resumes = @ + 1])
             ELSE Advance(s)
    BY <1>4, Zenon DEF Complete
  <2>2. stream[s].pc \in Active /\ LostKept
    BY <1>1, <2>1, UnchangedLost DEF Active
  <2>3. CASE stream[s].resumes < MaxResumes
    BY <2>1, <2>2, <2>3, ChargedInv, Zenon
  <2>4. CASE ~(stream[s].resumes < MaxResumes)
    BY <2>1, <2>2, <2>4, AdvanceInv, Zenon
  <2> QED
    BY <2>3, <2>4
<1> QED
  BY <1>3, <1>4

LEMMA RefuseResumeInv ==
    ASSUME IInv, Running, NEW s \in Streams, RefuseResume(s)
    PROVE  IInv'
<1> DEFINE x == Resumed(stream[s])
<1>1. /\ s = Whole /\ stream[s].pc = "asked" /\ Put(s, x) /\ phase' = "restart" /\ Orphan({s})
      /\ UNCHANGED <<disk, lost, skipped, cancelled, faults>>
  BY DEF RefuseResume
<1>2. stream \in [Streams -> StreamType] /\ stream[s] \in StreamType /\ Rest
  BY DEF IInv, TypeOK, Rest
<1>3. /\ x \in StreamType /\ x.pc = "next" /\ x.position = 0 /\ x.pending = {}
      /\ x.resume \in {stream[s].resume, stream[s].position} /\ x.resume >= stream[s].resume
  BY <1>2, ResumedIs
<1> HIDE DEF x
<1>4. Safe \subseteq Safe' /\ orphans' \subseteq Blocks /\ StreamOK(s)'
  BY <1>1, <1>3, GoesOn DEF Active
<1>5. stream'[s] = x /\ \A t \in Streams \ {s} : stream'[t] = stream[t]
  BY <1>1, <1>2 DEF Put
<1>6. phase = "whole"
  BY <1>1 DEF Running, IInv, PhaseOK
<1>7. PhaseOK'
  <2>1. \A t \in Segments : t \in Streams \ {s}
    BY <1>1 DEF Streams, Segments, Whole
  <2>2. \A t \in Segments : stream'[t].pc \in {"off", "dead"}
    BY <1>5, <1>6, <2>1 DEF IInv, PhaseOK
  <2> QED
    BY <1>1, <1>3, <1>5, <2>2 DEF PhaseOK
<1>8. Rest'
  BY <1>1, <1>2, <1>4 DEF Rest, Phases
<1> QED
  BY <1>1, <1>3, <1>4, <1>7, <1>8, OneStream DEF Active
-----------------------------------------------------------------------------
(***************************************************************************)
(* The steps of the download                                               *)
(***************************************************************************)

LEMMA CancelInv ==
    ASSUME IInv, Cancel
    PROVE  IInv'
<1>1. stream \in [Streams -> StreamType] /\ Rest
  BY DEF IInv, TypeOK, Rest
<1>2. UNCHANGED <<disk, lost, skipped, faults>> /\ cancelled' \in BOOLEAN
  BY DEF Cancel
<1>3. CASE UNCHANGED <<orphans, stream, phase>>
  <2>1. \A t \in Streams : StreamOK(t)'
    BY <1>2, <1>3, Kept DEF IInv, Safe, Excused
  <2>2. PhaseOK'
    BY <1>3 DEF IInv, PhaseOK
  <2>3. TypeOK'
    BY <1>2, <1>3 DEF IInv, TypeOK
  <2> QED
    BY <2>1, <2>2, <2>3 DEF IInv
<1>4. CASE ~UNCHANGED <<orphans, stream, phase>>
  <2>1. /\ Orphan(Streams) /\ phase' = "failing"
        /\ stream' = [t \in Streams |->
                        IF stream[t].pc = "off" THEN stream[t] ELSE Over(t, "dead")]
    BY <1>4, Zenon DEF Cancel
  <2>2. lost' \subseteq Blocks /\ skipped' \subseteq Blocks /\ faults' \in 0..MaxFaults
    BY <1>1, <1>2 DEF Rest
  <2> QED
    BY <1>2, <2>1, <2>2, Takedown
<1> QED
  BY <1>3, <1>4

LEMMA LandInv ==
    ASSUME IInv, NEW b \in Blocks, Land(b)
    PROVE  IInv'
<1>1. Safe \subseteq Safe' /\ UNCHANGED <<phase, skipped, stream, cancelled>>
  BY DEF Land, Safe
<1>2. TypeOK'
  <2>1. faults' \in 0..MaxFaults
    BY BudgetsAssumption DEF IInv, TypeOK, Land
  <2> QED
    BY <1>1, <2>1 DEF IInv, TypeOK, Land
<1>3. \A t \in Streams : StreamOK(t)'
  BY <1>1, Kept DEF IInv, Excused
<1>4. PhaseOK'
  BY <1>1 DEF IInv, PhaseOK
<1> QED
  BY <1>2, <1>3, <1>4 DEF IInv

\* The whole file is fetched from the start once no stream relies on what is
\* on the disk.
LEMMA FromTheStart ==
    ASSUME IInv, phase \in {"truncate", "restart"}, phase' = "whole",
           NEW x \in StreamType, Put(Whole, x), x.pc = "next", x.resume = 0,
           x.position = 0, x.pending = {}, Rest'
    PROVE  IInv'
<1>1. stream \in [Streams -> StreamType] /\ Whole \in Streams
  BY DEF IInv, TypeOK, Streams
<1>2. stream'[Whole] = x /\ \A t \in Streams \ {Whole} : stream'[t] = stream[t]
  BY <1>1 DEF Put
<1>3. \A t \in Segments : t \in Streams \ {Whole} /\ stream'[t].pc \in {"off", "dead"}
  <2>1. \A t \in Segments : t \in Streams \ {Whole}
    BY DEF Streams, Segments, Whole
  <2> QED
    BY <1>2, <2>1 DEF IInv, PhaseOK
<1>4. ASSUME NEW t \in Streams PROVE StreamOK(t)'
  <2>1. CASE t = Whole
    <3>1. First(t) = 0 /\ 0 <= 0 /\ 0..(0 - 1) = {}
      BY <2>1 DEF First
    <3> QED
      BY <1>2, <2>1, <3>1 DEF StreamOK, Quiet, Within, Ahead, Gapless, Finished
  <2>2. CASE t # Whole
    <3>1. stream'[t] = stream[t] /\ stream'[t].pc \in {"off", "dead"} /\ StreamOK(t)
      BY <1>2, <1>3, <2>2 DEF Streams, IInv
    <3> QED
      BY <3>1 DEF StreamOK, Quiet, Within, Ahead, Gapless, Finished, Active
  <2> QED
    BY <2>1, <2>2
<1>5. PhaseOK'
  BY <1>3 DEF PhaseOK
<1>6. TypeOK'
  BY <1>1 DEF Put, Rest, TypeOK
<1> QED
  BY <1>4, <1>5, <1>6 DEF IInv

LEMMA DownloadStepInv ==
    ASSUME IInv, DownloadStep
    PROVE  IInv'
<1>1. stream \in [Streams -> StreamType] /\ Rest /\ Whole \in Streams
  BY DEF IInv, TypeOK, Rest, Streams
<1>2. CASE Truncate
  <2> DEFINE x == [Fresh(Whole) EXCEPT !.pc = "next"]
  <2>1. /\ x \in StreamType /\ x.pc = "next" /\ x.resume = First(Whole) /\ x.position = 0
        /\ x.pending = {}
    BY <1>1, FreshIs
  <2>2. First(Whole) = 0
    BY DEF First
  <2>3. phase = "truncate" /\ phase' = "whole" /\ Put(Whole, x) /\ Rest'
    BY <1>1, <1>2 DEF Truncate, Rest, Phases
  <2> HIDE DEF x
  <2> QED
    BY <2>1, <2>2, <2>3, FromTheStart
<1>3. CASE Restart
  <2>1. CASE phase' = "whole"
    <3> DEFINE x == [stream[Whole] EXCEPT !.resume = 0, !.restarted = TRUE]
    <3>1. phase = "restart" /\ Put(Whole, x) /\ Rest'
      BY <1>1, <1>3, <2>1 DEF Restart, Rest, Phases
    <3>2. /\ stream[Whole] \in StreamType /\ stream[Whole].pc = "next"
          /\ stream[Whole].position = 0 /\ stream[Whole].pending = {}
      BY <1>1, <3>1 DEF IInv, PhaseOK, StreamOK, Quiet
    <3>3. 0 \in 0..Largest /\ TRUE \in BOOLEAN
      BY SizesAssumption
    <3>4. /\ x \in StreamType /\ x.pc = "next" /\ x.resume = 0 /\ x.position = 0
          /\ x.pending = {}
      BY <3>2, <3>3 DEF StreamType
    <3> HIDE DEF x
    <3> QED
      BY <2>1, <3>1, <3>4, FromTheStart
  <2>2. CASE phase' # "whole"
    <3>1. phase = "restart" /\ phase' = "failing"
          /\ UNCHANGED <<disk, stream, orphans, lost, skipped, cancelled, faults>>
      BY <1>3, <2>2 DEF Restart
    <3>2. \A t \in Streams : StreamOK(t)'
      BY <3>1, Kept DEF IInv, Safe, Excused
    <3>3. PhaseOK'
      BY <3>1 DEF PhaseOK
    <3>4. TypeOK'
      BY <3>1 DEF IInv, TypeOK, Phases
    <3> QED
      BY <3>2, <3>3, <3>4 DEF IInv
  <2> QED
    BY <2>1, <2>2
<1>4. CASE Finish
  <2>1. UNCHANGED <<orphans, stream, cancelled, faults>>
    BY <1>4 DEF Finish
  <2>2. CASE phase = "complete"
    <3>1. phase' = "ok" /\ UNCHANGED <<disk, lost, skipped>>
      BY <1>4, <2>2 DEF Finish
    <3>2. \A t \in Streams : StreamOK(t)'
      BY <2>1, <2>2, <3>1, Kept DEF IInv, Safe, Excused
    <3>3. PhaseOK'
      BY <2>1, <2>2, <3>1 DEF IInv, PhaseOK
    <3>4. TypeOK'
      BY <2>1, <3>1 DEF IInv, TypeOK, Phases
    <3> QED
      BY <3>2, <3>3, <3>4 DEF IInv
  <2>3. CASE phase # "complete"
    <3>1. phase' = "failed" /\ disk' = {} /\ lost' = {} /\ skipped' = {}
      BY <1>4, <2>3 DEF Finish
    <3>2. \A t \in Streams : StreamOK(t)'
      <4>1. \A t \in Streams : Target(t)' = Target(t)
        BY <2>1 DEF Target
      <4> QED
        BY <2>1, <3>1, <4>1 DEF IInv, StreamOK, Quiet, Within, Ahead, Gapless, Finished
    <3>3. PhaseOK'
      BY <3>1 DEF PhaseOK
    <3>4. TypeOK'
      BY <2>1, <3>1 DEF IInv, TypeOK, Phases
    <3> QED
      BY <3>2, <3>3, <3>4 DEF IInv
  <2> QED
    BY <2>2, <2>3
<1> QED
  BY <1>2, <1>3, <1>4 DEF DownloadStep

LEMMA StreamStepInv ==
    ASSUME IInv, NEW s \in Streams, StreamStep(s)
    PROVE  IInv'
<1>1. Running
  BY DEF StreamStep, Running
<1>2. CASE Ask(s) \/ EndEarly(s)
  BY <1>1, <1>2, AskInv
<1>3. CASE Answer(s)
  BY <1>1, <1>3, AnswerInv
<1>4. CASE Data(s)
  BY <1>1, <1>4, DataInv
<1>5. CASE Written(s)
  BY <1>1, <1>5, WrittenInv
<1>6. CASE Complete(s)
  BY <1>1, <1>6, CompleteInv
<1>7. CASE RefuseResume(s)
  BY <1>1, <1>7, RefuseResumeInv
<1>8. CASE WriteFails(s)
  BY <1>1, <1>8, WriteFailsInv
<1>9. CASE Skip(s) \/ RefuseRange(s) \/ AskCancelled(s) \/ Fail(s) \/ Slow(s) \/ Stall(s)
  BY <1>1, <1>9, EndsInv
<1> QED
  BY <1>2, <1>3, <1>4, <1>5, <1>6, <1>7, <1>8, <1>9 DEF StreamStep

LEMMA StepInv == IInv /\ [Next]_vars => IInv'
<1> SUFFICES ASSUME IInv, [Next]_vars PROVE IInv'
  OBVIOUS
<1>1. CASE UNCHANGED vars
  <2>1. UNCHANGED <<phase, disk, orphans, lost, skipped, stream, cancelled, faults>>
    BY <1>1 DEF vars
  <2>2. \A t \in Streams : StreamOK(t)'
    BY <2>1, Kept DEF IInv, Safe, Excused
  <2>3. PhaseOK'
    BY <2>1 DEF IInv, PhaseOK
  <2>4. TypeOK'
    BY <2>1 DEF IInv, TypeOK
  <2> QED
    BY <2>2, <2>3, <2>4 DEF IInv
<1>2. ASSUME NEW s \in Streams, StreamStep(s) PROVE IInv'
  BY <1>2, StreamStepInv
<1>3. CASE Cancel
  BY <1>3, CancelInv
<1>4. ASSUME NEW b \in Blocks, Land(b) PROVE IInv'
  BY <1>4, LandInv
<1>5. CASE DownloadStep
  BY <1>5, DownloadStepInv
<1> QED
  BY <1>1, <1>2, <1>3, <1>4, <1>5 DEF Next
-----------------------------------------------------------------------------
(***************************************************************************)
(* The theorems                                                            *)
(***************************************************************************)

\* The invariant holds in every state of a download.
THEOREM Invariance == Spec => []IInv
<1> QED
  BY InitInv, StepInv, PTL DEF Spec

\* Every variable keeps to its kind and no budget is overdrawn, whatever the
\* sizes and budgets.
THEOREM TypeCorrect == Spec => []TypeOK
<1>1. IInv => TypeOK
  BY DEF IInv
<1> QED
  BY <1>1, Invariance, PTL

\* No re-roll, fallback or restart makes a stream pass over a block of its own
\* accord, and no stream writes beyond the end it goes by.  Only a server may
\* leave blocks out, and only of its answer for the whole file.
THEOREM NothingPassedOver == Spec => []NoGap
<1>1. IInv => NoGap
  <2> SUFFICES ASSUME IInv, NEW s \in Streams
               PROVE  /\ stream[s].pending \subseteq First(s)..(Target(s) - 1)
                      /\ (/\ stream[s].pc \in {"next", "asked", "body", "ended", "done"}
                          /\ phase \notin {"restart", "failed"})
                         => /\ First(s)..(stream[s].resume - 1) \subseteq Known(s)
                            /\ stream[s].pc = "done" =>
                                 First(s)..(Target(s) - 1) \subseteq Known(s)
    BY DEF NoGap, Known, Safe, Excused
  <2>1. StreamOK(s)
    BY DEF IInv
  <2>2. First(s)..(First(s) - 1) = {}
    BY Bounds, SizesAssumption
  <2> QED
    BY <2>1, <2>2 DEF StreamOK, Within, Gapless, Finished, Active
<1> QED
  BY <1>1, Invariance, PTL

\* A download that resolves has asked the disk to write every block of the
\* file: the ranges between them, or the whole after a fallback, leave none out
\* but those a server left out of its answer for the whole file.
THEOREM FileComplete == Spec => []CompleteFile
<1>1. IInv => CompleteFile
  <2> SUFFICES ASSUME IInv, phase = "ok", NEW b \in File PROVE b \in Safe \cup skipped
    BY DEF CompleteFile, Safe
  <2>1. ASSUME NEW s \in Streams, stream[s].pc = "done", b \in First(s)..(Target(s) - 1)
        PROVE  b \in Safe \cup skipped
    <3>1. StreamOK(s)
      BY DEF IInv
    <3> QED
      BY <2>1, <3>1 DEF StreamOK, Quiet, Finished, Known, Excused
  <2>2. CASE stream[Whole].pc = "done"
    <3>1. Whole \in Streams /\ StreamOK(Whole)
      BY DEF Streams, IInv
    <3>2. First(Whole) = 0 /\ Target(Whole) = Size
      BY <2>2, <3>1 DEF StreamOK, Finished, First, Target
    <3> QED
      BY <2>1, <2>2, <3>1, <3>2 DEF File
  <2>3. CASE stream[Whole].pc # "done"
    <3>1. PICK s \in Segments : b \in First(s)..(Target(s) - 1)
      BY Cover
    <3>2. stream[s].pc = "done"
      BY <2>3 DEF IInv, PhaseOK
    <3> QED
      BY <2>1, <3>1, <3>2 DEF Streams
  <2> QED
    BY <2>2, <2>3
<1> QED
  BY <1>1, Invariance, PTL
=============================================================================
