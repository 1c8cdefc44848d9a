--------------------------- MODULE DevicePoolProofs ---------------------------
(***************************************************************************)
(* Proofs about DevicePool and SummaryLog, for every set of phones, of     *)
(* applications and of jobs: a job is at one place, the log of a profile   *)
(* loses no entry of a job that was alone, and once damaged stays so.      *)
(***************************************************************************)
EXTENDS DevicePool, SequenceTheorems, TLAPS

\* No job is twice in the queues of all Device objects.
QueuedOnce ==
    \A s, t \in Serials : \A i, k \in Objects :
        \A a \in 1 .. Len(queue[s][i]) : \A b \in 1 .. Len(queue[t][k]) :
            queue[s][i][a] = queue[t][k][b] => s = t /\ i = k /\ a = b

\* Two jobs that are between their read and their write have met.
BusyHaveMet == \A j, k \in Busy : j # k => j \in overlapped /\ k \in overlapped

\* What a job is about to write has its own entry and those of all jobs that
\* were through when it read, or were through since without having met it.
CopyIsFull ==
    \A j \in Busy :
        /\ j \in copy[j]
        /\ \A k \in Jobs : step[k] = "done" /\ k \notin overlapped => k \in copy[j]

\* A file that a lone job has opened is still empty.
LoneWriterHasCut ==
    \A j \in Jobs : step[j] = "writing" /\ j \notin overlapped => file.state = "cut"

LogInv == BusyHaveMet /\ CopyIsFull /\ LoneWriterHasCut /\ LoggedUnlessOverlapped

IInv == TypeOK /\ QueuedOnce /\ LogInv
-----------------------------------------------------------------------------
(* The log *)

\* A step that writes nothing and makes no job busy or through.
LEMMA QuietKeeps ==
  ASSUME LogTypeOK, LogInv, UNCHANGED <<file, copy, overlapped>>,
         step' \in [Jobs -> Steps],
         \A k \in Jobs : step'[k] = step[k] \/ step'[k] \notin {"opening", "writing", "done"}
  PROVE  LogTypeOK' /\ LogInv'
<1>1. LogTypeOK'
  BY DEF LogTypeOK
<1>2. Busy' \subseteq Busy /\ \A k \in Jobs : step'[k] \in {"writing", "done"} => step'[k] = step[k]
  BY DEF Busy
<1>3. BusyHaveMet'
  BY <1>2 DEF LogInv, BusyHaveMet
<1>4. CopyIsFull'
  BY <1>2 DEF LogInv, CopyIsFull
<1>5. LoneWriterHasCut' /\ LoggedUnlessOverlapped'
  BY <1>2 DEF LogInv, LoneWriterHasCut, LoggedUnlessOverlapped
<1> QED
  BY <1>1, <1>3, <1>4, <1>5 DEF LogInv

LEMMA AtStep ==
  ASSUME LogTypeOK, NEW j \in Jobs, NEW s \in Steps, At(j, s)
  PROVE  /\ step' \in [Jobs -> Steps] /\ step'[j] = s
         /\ \A k \in Jobs \ {j} : step'[k] = step[k]
BY DEF At, LogTypeOK

LEMMA ReadKeeps ==
  ASSUME LogTypeOK, LogInv, NEW j \in Jobs, Read(j)
  PROVE  LogTypeOK' /\ LogInv'
<1>1. /\ step' \in [Jobs -> Steps] /\ step'[j] = "opening" /\ step[j] = "reading"
      /\ \A k \in Jobs \ {j} : step'[k] = step[k]
  BY AtStep DEF Read, Steps
<1>2. Busy' = Busy \cup {j} /\ j \notin Busy /\ Busy \subseteq Jobs
  BY <1>1 DEF Busy
<1>3. /\ copy' \in [Jobs -> SUBSET Jobs] /\ copy'[j] = file.entries \cup {j}
      /\ \A k \in Jobs \ {j} : copy'[k] = copy[k]
  BY DEF Read, Pushed, LogTypeOK
<1>4. /\ file' = file /\ file.state = "whole"
      /\ overlapped' = (IF Busy = {} THEN overlapped ELSE overlapped \cup Busy \cup {j})
  BY DEF Read, Readable
<1>5. overlapped' \in SUBSET Jobs /\ overlapped \subseteq overlapped'
  BY <1>2, <1>4 DEF LogTypeOK
<1>6. LogTypeOK'
  BY <1>1, <1>3, <1>4, <1>5 DEF LogTypeOK
<1>7. BusyHaveMet'
  BY <1>2, <1>4 DEF BusyHaveMet
<1>8. CopyIsFull'
  <2> SUFFICES ASSUME NEW i \in Busy'
               PROVE  /\ i \in copy'[i]
                      /\ \A k \in Jobs : step'[k] = "done" /\ k \notin overlapped' => k \in copy'[i]
    BY DEF CopyIsFull
  <2>1. CASE i = j
    BY <1>1, <1>3, <1>4, <1>5, <2>1 DEF LogInv, LoggedUnlessOverlapped
  <2>2. CASE i # j
    BY <1>1, <1>2, <1>3, <1>5, <2>2 DEF LogInv, CopyIsFull
  <2> QED
    BY <2>1, <2>2
<1>9. LoneWriterHasCut'
  BY <1>1, <1>4, <1>5 DEF LogInv, LoneWriterHasCut
<1>10. LoggedUnlessOverlapped'
  BY <1>1, <1>4, <1>5 DEF LogInv, LoggedUnlessOverlapped
<1> QED
  BY <1>6, <1>7, <1>8, <1>9, <1>10 DEF LogInv

LEMMA OpenKeeps ==
  ASSUME LogTypeOK, LogInv, NEW j \in Jobs, Open(j)
  PROVE  LogTypeOK' /\ LogInv'
<1>1. /\ step' \in [Jobs -> Steps] /\ step'[j] = "writing" /\ step[j] = "opening"
      /\ \A k \in Jobs \ {j} : step'[k] = step[k]
  BY AtStep DEF Open, Steps
<1>2. Busy' = Busy
  BY <1>1 DEF Busy
<1>3. file' = [state |-> "cut", entries |-> {}] /\ UNCHANGED <<copy, overlapped>>
  BY DEF Open, Unusable
<1>4. LogTypeOK'
  BY <1>1, <1>3 DEF LogTypeOK
<1>5. BusyHaveMet' /\ CopyIsFull'
  BY <1>1, <1>2, <1>3 DEF LogInv, BusyHaveMet, CopyIsFull
<1>6. LoneWriterHasCut' /\ LoggedUnlessOverlapped'
  BY <1>3 DEF LoneWriterHasCut, LoggedUnlessOverlapped
<1> QED
  BY <1>4, <1>5, <1>6 DEF LogInv

\* The text of a job that met no other replaces the file.
LEMMA LoneWrite ==
  ASSUME LogInv, NEW j \in Jobs, step[j] = "writing", j \notin overlapped
  PROVE  Overwritten(j) = {Whole(copy[j])}
BY DEF LogInv, LoneWriterHasCut, Overwritten

LEMMA WriteKeeps ==
  ASSUME LogTypeOK, LogInv, NEW j \in Jobs, Write(j)
  PROVE  LogTypeOK' /\ LogInv'
<1>1. /\ step' \in [Jobs -> Steps] /\ step'[j] = "done" /\ step[j] = "writing"
      /\ \A k \in Jobs \ {j} : step'[k] = step[k]
  BY AtStep DEF Write, Steps
<1>2. Busy' = Busy \ {j} /\ j \in Busy /\ Busy \subseteq Jobs
  BY <1>1 DEF Busy
<1>3. /\ UNCHANGED <<copy, overlapped>>
      /\ file' = [state |-> "whole", entries |-> copy[j]] \/ file' = [state |-> "mixed", entries |-> {}]
  BY DEF Write, Overwritten, Whole, Unusable
<1>4. LogTypeOK'
  BY <1>1, <1>3 DEF LogTypeOK
<1>5. BusyHaveMet'
  BY <1>2, <1>3 DEF LogInv, BusyHaveMet
<1>6. CopyIsFull'
  BY <1>1, <1>2, <1>3 DEF LogInv, CopyIsFull, BusyHaveMet
<1>7. LoneWriterHasCut'
  <2> SUFFICES ASSUME NEW k \in Jobs, step'[k] = "writing", k \notin overlapped'
               PROVE  FALSE
    BY DEF LoneWriterHasCut
  <2>1. k # j /\ k \in Busy
    BY <1>1 DEF Busy
  <2> QED
    BY <1>2, <1>3, <2>1 DEF LogInv, BusyHaveMet
<1>8. LoggedUnlessOverlapped'
  <2> SUFFICES ASSUME file'.state = "whole", NEW k \in Jobs, step'[k] = "done", k \notin overlapped'
               PROVE  k \in file'.entries
    BY DEF LoggedUnlessOverlapped
  <2>1. file'.entries = copy[j]
    BY <1>3
  <2> QED
    BY <1>1, <1>2, <1>3, <2>1 DEF LogInv, CopyIsFull
<1> QED
  BY <1>4, <1>5, <1>6, <1>7, <1>8 DEF LogInv

LEMMA WriteFailsKeeps ==
  ASSUME LogTypeOK, LogInv, NEW j \in Jobs, WriteFails(j)
  PROVE  LogTypeOK' /\ LogInv'
<1>1. /\ step' \in [Jobs -> Steps] /\ step'[j] = "skipped" /\ j \in Busy
      /\ \A k \in Jobs \ {j} : step'[k] = step[k]
  BY AtStep DEF WriteFails, Steps, Busy
<1>2. CASE file' = file
  BY <1>1, <1>2, QuietKeeps DEF WriteFails
<1>3. CASE file' = [state |-> "mixed", entries |-> {}]
  <2>1. UNCHANGED <<copy, overlapped>>
    BY DEF WriteFails
  <2>2. Busy' = Busy \ {j}
    BY <1>1 DEF Busy
  <2>3. LogTypeOK'
    BY <1>1, <1>3, <2>1 DEF LogTypeOK
  <2>4. BusyHaveMet' /\ CopyIsFull'
    BY <1>1, <2>1, <2>2 DEF LogInv, BusyHaveMet, CopyIsFull
  <2>5. LoneWriterHasCut'
    <3> SUFFICES ASSUME NEW k \in Jobs, step'[k] = "writing", k \notin overlapped'
                 PROVE  FALSE
      BY DEF LoneWriterHasCut
    <3>1. k # j /\ k \in Busy
      BY <1>1 DEF Busy
    <3> QED
      BY <1>1, <2>1, <3>1 DEF LogInv, BusyHaveMet
  <2>6. LoggedUnlessOverlapped'
    BY <1>3 DEF LoggedUnlessOverlapped
  <2> QED
    BY <2>3, <2>4, <2>5, <2>6 DEF LogInv
<1> QED
  BY <1>2, <1>3 DEF WriteFails, Unusable

LEMMA LogStepKeeps ==
  ASSUME LogTypeOK, LogInv, NEW j \in Jobs, LogStep(j)
  PROVE  LogTypeOK' /\ LogInv'
<1>1. ASSUME NEW s \in {"looking", "reading", "stuck"}, At(j, s), UNCHANGED <<file, copy, overlapped>>
      PROVE  LogTypeOK' /\ LogInv'
  <2>1. step' \in [Jobs -> Steps] /\ \A k \in Jobs : step'[k] = step[k] \/ step'[k] = s
    BY <1>1, AtStep DEF Steps
  <2> QED
    BY <1>1, <2>1, QuietKeeps
<1>2. CASE SummarySaved(j)
  BY <1>1, <1>2 DEF SummarySaved
<1>3. CASE Look(j)
  BY <1>1, <1>3 DEF Look
<1>4. CASE ReadFails(j)
  BY <1>1, <1>4 DEF ReadFails
<1> QED
  BY <1>2, <1>3, <1>4, ReadKeeps, OpenKeeps, WriteKeeps, WriteFailsKeeps DEF LogStep
-----------------------------------------------------------------------------
(* The pool and the queues *)

LEMMA QueueTypes ==
  ASSUME TypeOK
  PROVE  /\ \A s \in Serials : \A i \in Objects :
              /\ queue[s][i] \in Seq(Jobs) /\ Len(queue[s][i]) \in Nat
              /\ \A a \in 1 .. Len(queue[s][i]) : queue[s][i][a] \in Jobs
         /\ \A j \in Jobs : Queued(j) <=>
              \E s \in Serials, i \in Objects : \E a \in 1 .. Len(queue[s][i]) : queue[s][i][a] = j
<1>1. \A s \in Serials : \A i \in Objects : queue[s][i] \in Seq(Jobs)
  BY DEF TypeOK
<1>2. \A q \in Seq(Jobs) : DOMAIN q = 1 .. Len(q) /\ Len(q) \in Nat /\ \A a \in 1 .. Len(q) : q[a] \in Jobs
  OBVIOUS
<1> QED
  BY <1>1, <1>2 DEF Queued

LEMMA InitKeeps == Init => IInv
<1> SUFFICES ASSUME Init PROVE IInv
  OBVIOUS
<1>1. \A s \in Serials : \A i \in Objects : queue[s][i] = <<>> /\ Len(queue[s][i]) = 0
  BY DEF Init, NoQueues
<1>2. queue \in [Serials -> [Objects -> Seq(Jobs)]]
  <2>1. <<>> \in Seq(Jobs)
    OBVIOUS
  <2> QED
    BY <2>1 DEF Init, NoQueues
<1>3. last \in [Serials -> 0 .. MaxObjects] /\ pool \in [Serials -> 0 .. MaxObjects]
  BY AppAssumption DEF Init
<1>4. LogTypeOK
  BY DEF Init, LogInit, LogTypeOK, Unusable, Whole, Steps
<1>5. \A s \in Serials : pool[s] <= last[s]
  BY DEF Init
<1>6. \A j \in Jobs : ~Queued(j)
  BY <1>1 DEF Queued
<1>7. TypeOK
  BY <1>2, <1>3, <1>4, <1>5, <1>6 DEF TypeOK, Init
<1>8. QueuedOnce
  BY <1>1 DEF QueuedOnce
<1>9. LogInv
  <2>1. Busy = {} /\ \A j \in Jobs : step[j] = "none"
    BY DEF Init, LogInit, Busy
  <2> QED
    BY <2>1 DEF LogInv, BusyHaveMet, CopyIsFull, LoneWriterHasCut, LoggedUnlessOverlapped
<1> QED
  BY <1>7, <1>8, <1>9 DEF IInv

LEMMA LogUnchanged ==
  ASSUME LogTypeOK, LogInv, UNCHANGED log
  PROVE  LogTypeOK' /\ LogInv'
<1>1. UNCHANGED <<file, copy, overlapped>> /\ step' = step
  BY DEF log
<1> QED
  BY <1>1, QuietKeeps DEF LogTypeOK

LEMMA DieKeeps ==
  ASSUME IInv, Die
  PROVE  IInv'
<1>1. \A s \in Serials : \A i \in Objects : queue'[s][i] = <<>> /\ Len(queue'[s][i]) = 0
  BY DEF Die, NoQueues
<1>2. queue' \in [Serials -> [Objects -> Seq(Jobs)]]
  <2>1. <<>> \in Seq(Jobs)
    OBVIOUS
  <2> QED
    BY <2>1 DEF Die, NoQueues
<1>3. last' \in [Serials -> 0 .. MaxObjects] /\ pool' \in [Serials -> 0 .. MaxObjects]
  BY AppAssumption DEF IInv, TypeOK, Die
<1>4. \A s \in Serials : pool'[s] <= last'[s]
  BY AppAssumption DEF IInv, TypeOK, Die
<1>5. \A j \in Jobs : ~Queued(j)'
  BY <1>1 DEF Queued
<1>6. LogTypeOK' /\ LogInv'
  <2>1. step' \in [Jobs -> Steps]
    BY DEF IInv, TypeOK, LogTypeOK, Die, Abandoned, Steps
  <2>2. \A k \in Jobs : step'[k] = step[k] \/ step'[k] \notin {"opening", "writing", "done"}
    BY DEF Die, Abandoned
  <2>3. UNCHANGED <<file, copy, overlapped>>
    BY DEF Die
  <2> QED
    BY <2>1, <2>2, <2>3, QuietKeeps DEF IInv, TypeOK
<1>7. TypeOK'
  BY <1>2, <1>3, <1>4, <1>5, <1>6 DEF IInv, TypeOK, Die
<1>8. QueuedOnce'
  BY <1>1 DEF QueuedOnce
<1> QED
  BY <1>6, <1>7, <1>8 DEF IInv

LEMMA ReloadKeeps ==
  ASSUME IInv, NEW list \in SUBSET Serials, Reload(list)
  PROVE  IInv'
<1> DEFINE kept == Cleared(list)
           new == Unpooled(list, kept)
<1>1. /\ up' = up /\ queue' = queue /\ made' = made /\ UNCHANGED log
      /\ \A s \in new : last[s] < MaxObjects
      /\ last' = [s \in Serials |-> IF s \in new THEN last[s] + 1 ELSE last[s]]
      /\ pool' = [s \in Serials |-> IF s \in new THEN last[s] + 1 ELSE kept[s]]
      /\ missed' = missed \cup LeftOut(list)
  BY DEF Reload
<1>2. \A s \in Serials : kept[s] \in 0 .. MaxObjects /\ kept[s] <= last[s] /\ last[s] \in 0 .. MaxObjects
  BY AppAssumption DEF Cleared, IInv, TypeOK
<1> HIDE DEF kept, new
<1>3. /\ last' \in [Serials -> 0 .. MaxObjects] /\ pool' \in [Serials -> 0 .. MaxObjects]
      /\ \A s \in Serials : pool'[s] <= last'[s]
  BY <1>1, <1>2, AppAssumption
<1>4. LogTypeOK' /\ LogInv'
  BY <1>1, LogUnchanged DEF IInv, TypeOK
<1>5. \A j \in Jobs : Queued(j)' <=> Queued(j)
  BY <1>1 DEF Queued
<1>6. LeftOut(list) \subseteq Serials \X Objects
  BY AppAssumption DEF LeftOut, Present, Objects, IInv, TypeOK
<1>7. TypeOK'
  BY <1>1, <1>3, <1>4, <1>5, <1>6 DEF IInv, TypeOK, log
<1>8. QueuedOnce'
  BY <1>1 DEF IInv, QueuedOnce
<1> QED
  BY <1>4, <1>7, <1>8 DEF IInv

\* What a queue holds after jobs were added: what it held, then fresh ones.
LEMMA AddedQueue ==
  ASSUME NEW q \in Seq(Jobs), NEW r \in Seq(Jobs)
  PROVE  /\ q \o r \in Seq(Jobs) /\ Len(q \o r) = Len(q) + Len(r) /\ Len(q) \in Nat /\ Len(r) \in Nat
         /\ \A a \in 1 .. Len(q) + Len(r) :
              \/ a \in 1 .. Len(q) /\ (q \o r)[a] = q[a]
              \/ a - Len(q) \in 1 .. Len(r) /\ (q \o r)[a] = r[a - Len(q)]
OBVIOUS

LEMMA RowType ==
  ASSUME NEW n \in Nat, NEW q \in Row(n)
  PROVE  /\ q \in Seq(Jobs) /\ Len(q) = n
         /\ \A a \in 1 .. n : q[a] \in Fresh /\ q[a] \in In(q)
         /\ \A a, b \in 1 .. n : q[a] = q[b] => a = b
<1>1. q \in [1 .. n -> Fresh] /\ \A a, b \in 1 .. n : a < b => q[a] < q[b]
  BY DEF Row
<1>2. Fresh \subseteq Jobs /\ Fresh \subseteq Nat
  BY JobAssumption DEF Fresh
<1>3. q \in Seq(Jobs) /\ Len(q) = n
  <2>1. q \in [1 .. n -> Jobs]
    BY <1>1, <1>2
  <2> QED
    BY <2>1
<1>4. \A a, b \in 1 .. n : q[a] = q[b] => a = b
  <2> SUFFICES ASSUME NEW a \in 1 .. n, NEW b \in 1 .. n, q[a] = q[b], a # b
               PROVE  FALSE
    OBVIOUS
  <2>1. q[a] \in Nat /\ q[b] \in Nat
    BY <1>1, <1>2
  <2>2. a < b \/ b < a
    OBVIOUS
  <2> QED
    BY <1>1, <2>1, <2>2
<1>5. \A a \in 1 .. n : q[a] \in Fresh /\ q[a] \in In(q)
  BY <1>1 DEF In
<1> QED
  BY <1>3, <1>4, <1>5

LEMMA AddKeeps ==
  ASSUME IInv, up, NEW D \in SUBSET Present, NEW J \in Made(D), Add(D, J)
  PROVE  IInv'
<1>1. CASE Die
  BY <1>1, DieKeeps
<1>2. CASE /\ queue' = [s \in Serials |->
                IF s \in D THEN [queue[s] EXCEPT ![pool[s]] = @ \o J[s]] ELSE queue[s]]
           /\ made' \in SUBSET Serials
           /\ UNCHANGED <<up, last, pool, missed, log>>
  <2>1. \A s \in D : s \in Serials /\ pool[s] \in Objects
    BY AppAssumption DEF Present, IInv, TypeOK, Objects
  <2>2. \A s \in D : /\ J[s] \in Seq(Jobs) /\ Len(J[s]) \in Nat
                     /\ \A a \in 1 .. Len(J[s]) : J[s][a] \in Fresh /\ J[s][a] \in In(J[s])
                     /\ \A a, b \in 1 .. Len(J[s]) : J[s][a] = J[s][b] => a = b
    <3> SUFFICES ASSUME NEW s \in D
                 PROVE  /\ J[s] \in Seq(Jobs) /\ Len(J[s]) \in Nat
                        /\ \A a \in 1 .. Len(J[s]) : J[s][a] \in Fresh /\ J[s][a] \in In(J[s])
                        /\ \A a, b \in 1 .. Len(J[s]) : J[s][a] = J[s][b] => a = b
      OBVIOUS
    <3>1. J[s] \in Row(Apps[s]) /\ Apps[s] \in Nat
      BY <2>1, AppAssumption DEF Made
    <3> QED
      BY <3>1, RowType
  <2>3. \A s, t \in D : s # t => In(J[s]) \cap In(J[t]) = {}
    BY DEF Made
  <2>4. \A s \in Serials : \A i \in Objects : queue[s][i] \in Seq(Jobs)
    BY DEF IInv, TypeOK
  <2>5. \A s \in Serials : \A i \in Objects :
          queue'[s][i] = IF s \in D /\ i = pool[s] THEN queue[s][i] \o J[s] ELSE queue[s][i]
    BY <1>2, <2>1 DEF IInv, TypeOK
  <2>6. queue' \in [Serials -> [Objects -> Seq(Jobs)]]
    <3>1. ASSUME NEW s \in D PROVE [queue[s] EXCEPT ![pool[s]] = @ \o J[s]] \in [Objects -> Seq(Jobs)]
      <4>1. queue[s] \in [Objects -> Seq(Jobs)] /\ queue[s][pool[s]] \o J[s] \in Seq(Jobs)
        BY <2>1, <2>2, <2>4, AddedQueue DEF IInv, TypeOK
      <4> QED
        BY <4>1
    <3> QED
      BY <1>2, <3>1 DEF IInv, TypeOK
  <2> DEFINE Old(s, i, a) == a \in 1 .. Len(queue[s][i]) /\ queue'[s][i][a] = queue[s][i][a]
             New(s, i, a) == /\ s \in D /\ i = pool[s] /\ a - Len(queue[s][i]) \in 1 .. Len(J[s])
                             /\ queue'[s][i][a] = J[s][a - Len(queue[s][i])]
  <2>7. ASSUME NEW s \in Serials, NEW i \in Objects, NEW a \in 1 .. Len(queue'[s][i])
        PROVE  \/ a \in 1 .. Len(queue[s][i]) /\ queue'[s][i][a] = queue[s][i][a]
               \/ /\ s \in D /\ i = pool[s] /\ a - Len(queue[s][i]) \in 1 .. Len(J[s])
                  /\ queue'[s][i][a] = J[s][a - Len(queue[s][i])]
    <3>1. CASE s \in D /\ i = pool[s]
      <4> DEFINE q == queue[s][i]
                 r == J[s]
      <4>1. q \in Seq(Jobs) /\ r \in Seq(Jobs) /\ queue'[s][i] = q \o r
        BY <2>2, <2>4, <2>5, <3>1
      <4> HIDE DEF q, r
      <4>2. \/ a \in 1 .. Len(q) /\ queue'[s][i][a] = q[a]
            \/ a - Len(q) \in 1 .. Len(r) /\ queue'[s][i][a] = r[a - Len(q)]
        <5>1. a \in 1 .. Len(q) + Len(r)
          BY <4>1, AddedQueue
        <5> QED
          BY <4>1, <5>1, AddedQueue
      <4> QED
        BY <3>1, <4>2 DEF q, r
    <3>2. CASE ~(s \in D /\ i = pool[s])
      BY <2>5, <3>2
    <3> QED
      BY <3>1, <3>2
  <2>8. \A s \in Serials : \A i \in Objects : \A a \in 1 .. Len(queue'[s][i]) :
           Old(s, i, a) \/ New(s, i, a)
    BY <2>7
  <2>9. TypeOK
    BY DEF IInv
  <2>10. \A s \in Serials : \A i \in Objects : \A a \in 1 .. Len(queue[s][i]) : queue[s][i][a] \notin Fresh
    BY <2>9, QueueTypes DEF Fresh
  <2>11. QueuedOnce'
    <3>1. \A s \in Serials : \A i \in Objects : \A a : Old(s, i, a) => queue'[s][i][a] \notin Fresh
      BY <2>10
    <3>2. \A s \in Serials : \A i \in Objects : \A a : New(s, i, a) => queue'[s][i][a] \in Fresh
      BY <2>2
    <3>3. ASSUME NEW s \in Serials, NEW t \in Serials, NEW i \in Objects, NEW k \in Objects, NEW a, NEW b,
                 Old(s, i, a), Old(t, k, b), queue'[s][i][a] = queue'[t][k][b]
          PROVE  s = t /\ i = k /\ a = b
      <4>1. queue[s][i][a] = queue[t][k][b]
        BY <3>3
      <4> QED
        BY <3>3, <4>1 DEF IInv, QueuedOnce
    <3>4. ASSUME NEW s \in Serials, NEW t \in Serials, NEW i \in Objects, NEW k \in Objects,
                 NEW a \in Nat, NEW b \in Nat,
                 New(s, i, a), New(t, k, b), queue'[s][i][a] = queue'[t][k][b]
          PROVE  s = t /\ i = k /\ a = b
      <4> DEFINE c == a - Len(queue[s][i])
                 d == b - Len(queue[t][k])
      <4>1. s \in D /\ t \in D /\ c \in 1 .. Len(J[s]) /\ d \in 1 .. Len(J[t]) /\ J[s][c] = J[t][d]
        BY <3>4
      <4> HIDE DEF c, d
      <4>2. J[s][c] \in In(J[s]) /\ J[t][d] \in In(J[t])
        BY <2>2, <4>1
      <4>3. s = t
        BY <2>3, <4>1, <4>2
      <4>4. c = d /\ i = k
        BY <2>2, <3>4, <4>1, <4>3
      <4>5. Len(queue[s][i]) \in Nat
        BY <2>4
      <4> QED
        BY <4>3, <4>4, <4>5 DEF c, d
    <3> HIDE DEF Old, New
    <3>5. \A s \in Serials : \A i \in Objects : \A a \in 1 .. Len(queue'[s][i]) : a \in Nat
      BY <2>6
    <3>6. ASSUME NEW s \in Serials, NEW t \in Serials, NEW i \in Objects, NEW k \in Objects,
                 NEW a \in 1 .. Len(queue'[s][i]), NEW b \in 1 .. Len(queue'[t][k]),
                 queue'[s][i][a] = queue'[t][k][b]
          PROVE  s = t /\ i = k /\ a = b
      <4>1. Old(s, i, a) \/ New(s, i, a)
        BY <2>8, <3>6
      <4>2. Old(t, k, b) \/ New(t, k, b)
        BY <2>8, <3>6
      <4> QED
        BY <3>1, <3>2, <3>3, <3>4, <3>5, <3>6, <4>1, <4>2
    <3> QED
      BY <3>6 DEF QueuedOnce
  <2>12. LogTypeOK' /\ LogInv'
    BY <1>2, LogUnchanged DEF IInv, TypeOK
  <2>13. ASSUME NEW j \in Jobs, Queued(j)' PROVE up' /\ step'[j] = "none"
    <3>1. PICK s \in Serials, i \in Objects : \E a \in 1 .. Len(queue'[s][i]) : queue'[s][i][a] = j
      <4>1. \A s \in Serials : \A i \in Objects : DOMAIN queue'[s][i] = 1 .. Len(queue'[s][i])
        BY <2>6
      <4> QED
        BY <2>13, <4>1 DEF Queued
    <3>2. (\E a \in 1 .. Len(queue[s][i]) : queue[s][i][a] = j) \/ j \in Fresh
      <4>1. PICK a \in 1 .. Len(queue'[s][i]) : queue'[s][i][a] = j
        BY <3>1
      <4>2. CASE Old(s, i, a)
        BY <4>1, <4>2
      <4>3. CASE New(s, i, a)
        <5> DEFINE c == a - Len(queue[s][i])
        <5>1. s \in D /\ c \in 1 .. Len(J[s]) /\ J[s][c] = j
          BY <4>1, <4>3
        <5> HIDE DEF c
        <5>2. \A e \in 1 .. Len(J[s]) : J[s][e] \in Fresh
          BY <2>2, <5>1
        <5>3. J[s][c] \in Fresh
          BY <5>1, <5>2
        <5> QED
          BY <5>1, <5>3
      <4> HIDE DEF Old, New
      <4>4. Old(s, i, a) \/ New(s, i, a)
        BY <2>8
      <4> QED
        BY <4>2, <4>3, <4>4
    <3>3. Queued(j) \/ j \in Fresh
      BY <2>9, <3>2, QueueTypes
    <3> QED
      BY <1>2, <3>3 DEF IInv, TypeOK, Fresh, log
  <2>14. TypeOK'
    BY <1>2, <2>6, <2>12, <2>13 DEF IInv, TypeOK
  <2> QED
    BY <2>11, <2>12, <2>14 DEF IInv
<1>3. made \cup {s \in D : J[s] # <<>> /\ queue[s][pool[s]] = <<>>} \in SUBSET Serials
  BY DEF IInv, TypeOK, Present
<1> QED
  BY <1>1, <1>2, <1>3 DEF Add

LEMMA TailOfQueue ==
  ASSUME NEW q \in Seq(Jobs), q # <<>>
  PROVE  /\ Tail(q) \in Seq(Jobs) /\ Len(q) \in Nat
         /\ Head(q) = q[1] /\ q[1] \in Jobs /\ 1 \in 1 .. Len(q)
         /\ \A a \in 1 .. Len(Tail(q)) : a + 1 \in 2 .. Len(q) /\ Tail(q)[a] = q[a + 1]
OBVIOUS

LEMMA JobEndsKeeps ==
  ASSUME IInv, NEW s \in Serials, NEW i \in Objects, JobEnds(s, i)
  PROVE  IInv'
<1> DEFINE q == queue[s][i]
           h == q[1]
<1>1. CASE Die
  BY <1>1, DieKeeps
<1>2. CASE /\ queue' = [queue EXCEPT ![s][i] = Tail(@)]
           /\ made' \in SUBSET Serials /\ missed' \in SUBSET missed
           /\ step' = [step EXCEPT ![Head(q)] = "saving"]
           /\ UNCHANGED <<up, last, pool, file, copy, overlapped>>
  <2>1. q \in Seq(Jobs) /\ q # <<>> /\ queue \in [Serials -> [Objects -> Seq(Jobs)]]
    BY DEF JobEnds, IInv, TypeOK
  <2>2. /\ Tail(q) \in Seq(Jobs) /\ Len(q) \in Nat
        /\ Head(q) = h /\ h \in Jobs /\ 1 \in 1 .. Len(q)
        /\ \A a \in 1 .. Len(Tail(q)) : a + 1 \in 2 .. Len(q) /\ Tail(q)[a] = q[a + 1]
    BY <2>1, TailOfQueue
  <2>3. queue' \in [Serials -> [Objects -> Seq(Jobs)]]
    BY <1>2, <2>1, <2>2
  <2>4. \A t \in Serials : \A k \in Objects :
          queue'[t][k] = IF t = s /\ k = i THEN Tail(q) ELSE queue[t][k]
    BY <1>2, <2>1
  <2> DEFINE at(t, k, a) == IF t = s /\ k = i THEN a + 1 ELSE a
  <2>5. ASSUME NEW t \in Serials, NEW k \in Objects, NEW a \in 1 .. Len(queue'[t][k])
        PROVE  /\ at(t, k, a) \in 1 .. Len(queue[t][k])
               /\ queue'[t][k][a] = queue[t][k][at(t, k, a)]
               /\ a \in Nat
               /\ ~(t = s /\ k = i /\ at(t, k, a) = 1)
    <3>1. a \in Nat /\ a >= 1
      BY <2>3
    <3>2. CASE t = s /\ k = i
      <4>1. queue'[t][k] = Tail(q) /\ a \in 1 .. Len(Tail(q)) /\ at(t, k, a) = a + 1
        BY <2>4, <3>2
      <4>2. a + 1 \in 2 .. Len(q) /\ Tail(q)[a] = q[a + 1]
        BY <2>2, <4>1
      <4>3. a + 1 \in 1 .. Len(q) /\ a + 1 # 1
        BY <2>2, <3>1, <4>2
      <4> QED
        BY <3>1, <3>2, <4>1, <4>2, <4>3
    <3>3. CASE ~(t = s /\ k = i)
      BY <2>4, <3>1, <3>3
    <3> QED
      BY <3>2, <3>3
  <2>6. QueuedOnce'
    <3> SUFFICES ASSUME NEW t \in Serials, NEW u \in Serials, NEW k \in Objects, NEW l \in Objects,
                        NEW a \in 1 .. Len(queue'[t][k]), NEW b \in 1 .. Len(queue'[u][l]),
                        queue'[t][k][a] = queue'[u][l][b]
                 PROVE  t = u /\ k = l /\ a = b
      BY DEF QueuedOnce
    <3> DEFINE c == at(t, k, a)
               d == at(u, l, b)
    <3>1. /\ c \in 1 .. Len(queue[t][k]) /\ d \in 1 .. Len(queue[u][l])
          /\ queue[t][k][c] = queue[u][l][d] /\ a \in Nat /\ b \in Nat
      BY <2>5
    <3> HIDE DEF c, d
    <3>2. t = u /\ k = l /\ c = d
      BY <3>1 DEF IInv, QueuedOnce
    <3> QED
      BY <3>1, <3>2 DEF c, d
  <2>7. step' \in [Jobs -> Steps] /\ step'[h] = "saving" /\ \A j \in Jobs \ {h} : step'[j] = step[j]
    BY <1>2, <2>2 DEF IInv, TypeOK, LogTypeOK, Steps
  <2>8. LogTypeOK' /\ LogInv'
    <3>1. \A k \in Jobs : step'[k] = step[k] \/ step'[k] \notin {"opening", "writing", "done"}
      BY <2>7
    <3> QED
      BY <1>2, <2>7, <3>1, QuietKeeps DEF IInv, TypeOK
  <2>9. ASSUME NEW j \in Jobs, Queued(j)' PROVE up' /\ step'[j] = "none"
    <3>1. PICK t \in Serials, k \in Objects : \E a \in 1 .. Len(queue'[t][k]) : queue'[t][k][a] = j
      <4>1. \A t \in Serials : \A k \in Objects : DOMAIN queue'[t][k] = 1 .. Len(queue'[t][k])
        BY <2>3
      <4> QED
        BY <2>9, <4>1 DEF Queued
    <3>2. PICK a \in 1 .. Len(queue'[t][k]) : queue'[t][k][a] = j
      BY <3>1
    <3> DEFINE c == at(t, k, a)
    <3>3. /\ c \in 1 .. Len(queue[t][k]) /\ queue[t][k][c] = j
          /\ ~(t = s /\ k = i /\ c = 1)
      BY <2>5, <3>2
    <3> HIDE DEF c
    <3>4. j # h
      BY <2>2, <3>3 DEF IInv, QueuedOnce
    <3>5. Queued(j)
      <4>1. TypeOK
        BY DEF IInv
      <4> QED
        BY <3>3, <4>1, QueueTypes
    <3> QED
      BY <1>2, <2>7, <3>4, <3>5 DEF IInv, TypeOK
  <2>10. TypeOK'
    BY <1>2, <2>3, <2>8, <2>9 DEF IInv, TypeOK
  <2> QED
    BY <2>6, <2>8, <2>10 DEF IInv
<1>3. /\ made \in SUBSET Serials /\ made \cup {s} \in SUBSET Serials
      /\ missed \in SUBSET missed /\ missed \ {<<s, i>>} \in SUBSET missed
  BY DEF IInv, TypeOK
<1> QED
  BY <1>1, <1>2, <1>3 DEF JobEnds, Rest, Summarized

\* A step that leaves pool and queues alone.
LEMMA QueuesKept ==
  ASSUME IInv, UNCHANGED <<last, pool, queue, missed>>, up' \in BOOLEAN, made' \in SUBSET Serials,
         LogTypeOK', LogInv',
         \A j \in Jobs : Queued(j) => up' /\ step'[j] = "none"
  PROVE  IInv'
<1>1. \A j \in Jobs : Queued(j)' <=> Queued(j)
  BY DEF Queued
<1>2. TypeOK'
  BY <1>1 DEF IInv, TypeOK
<1>3. QueuedOnce'
  BY DEF IInv, QueuedOnce
<1> QED
  BY <1>2, <1>3 DEF IInv

LEMMA SummaryGoesOnKeeps ==
  ASSUME IInv, NEW j \in Jobs, SummaryGoesOn(j)
  PROVE  IInv'
<1>1. LogTypeOK' /\ LogInv'
  BY LogStepKeeps DEF IInv, TypeOK, SummaryGoesOn
<1>2. UNCHANGED <<last, pool, queue, missed>> /\ up' = up /\ made' = made
  BY DEF SummaryGoesOn, devices
<1>3. ASSUME NEW k \in Jobs, Queued(k) PROVE up' /\ step'[k] = "none"
  <2>1. up /\ step[k] = "none"
    BY <1>3 DEF IInv, TypeOK
  <2>2. step[j] # "none"
    BY DEF SummaryGoesOn, LogStep, SummarySaved, Look, Read, Open, Write, ReadFails, WriteFails
  <2>3. \E s : At(j, s)
    BY DEF SummaryGoesOn, LogStep, SummarySaved, Look, Read, Open, Write, ReadFails, WriteFails
  <2> QED
    BY <1>2, <2>1, <2>2, <2>3 DEF At, IInv, TypeOK, LogTypeOK
<1> QED
  BY <1>1, <1>2, <1>3, QueuesKept DEF IInv, TypeOK

LEMMA StepKeeps == IInv /\ [Next]_vars => IInv'
<1> SUFFICES ASSUME IInv, [Next]_vars PROVE IInv'
  OBVIOUS
<1>1. CASE Die
  BY <1>1, DieKeeps
<1>2. ASSUME UNCHANGED <<last, pool, queue, missed, log>>, up' \in BOOLEAN, up => up', made' \in SUBSET Serials
      PROVE  IInv'
  <2>1. LogTypeOK' /\ LogInv'
    BY <1>2, LogUnchanged DEF IInv, TypeOK
  <2>2. \A j \in Jobs : Queued(j) => up' /\ step'[j] = "none"
    BY <1>2 DEF IInv, TypeOK, log
  <2> QED
    BY <1>2, <2>1, <2>2, QueuesKept
<1>3. CASE Restart
  BY <1>2, <1>3 DEF Restart, devices, IInv, TypeOK
<1>4. CASE NextSecond
  BY <1>2, <1>4 DEF NextSecond, IInv, TypeOK
<1>5. ASSUME NEW list \in SUBSET Serials, Reload(list) PROVE IInv'
  BY <1>5, ReloadKeeps
<1>6. CASE Alarm
  BY <1>6, AddKeeps DEF Alarm
<1>7. CASE RunNow
  BY <1>7, AddKeeps DEF RunNow
<1>8. ASSUME NEW s \in Serials, NEW i \in Objects, JobEnds(s, i) PROVE IInv'
  BY <1>8, JobEndsKeeps
<1>9. ASSUME NEW j \in Jobs, SummaryGoesOn(j) PROVE IInv'
  BY <1>9, SummaryGoesOnKeeps
<1>10. CASE UNCHANGED vars
  BY <1>2, <1>10 DEF vars, devices, IInv, TypeOK
<1>11. Crash \/ ReadEndsServer \/ ResultPage => Die
  BY DEF Crash, ReadEndsServer, ResultPage
<1> QED
  BY <1>1, <1>3, <1>4, <1>5, <1>6, <1>7, <1>8, <1>9, <1>10, <1>11 DEF Next
-----------------------------------------------------------------------------
(* The properties *)

\* In every behaviour a job is at one place and the log's parts fit together.
THEOREM PoolInvariant == Spec => []IInv
BY InitKeeps, StepKeeps, PTL DEF Spec

\* The variables keep their shapes, and a queued job has not ended.
THEOREM PoolTypes == Spec => []TypeOK
<1>1. IInv => TypeOK
  BY DEF IInv
<1> QED
  BY <1>1, PoolInvariant, PTL

\* The log has the entry of every job whose read and write met no other's
\* (storage.node.js 108 to 126).
THEOREM LoneJobsAreLogged == Spec => []LoggedUnlessOverlapped
<1>1. IInv => LoggedUnlessOverlapped
  BY DEF IInv, LogInv
<1> QED
  BY <1>1, PoolInvariant, PTL

-----------------------------------------------------------------------------
(* Device objects of one phone *)

\* The object of a phone in the pool is the last one made.
NewestInPool == \A s \in Serials : pool[s] \in {0, last[s]}

\* An object that works was made, and is in the pool or was left out of a list.
WorkersExplained ==
    \A s \in Serials, i \in Objects : queue[s][i] # <<>> =>
        i <= last[s] /\ (i = pool[s] \/ <<s, i>> \in missed)

ObjectsInv == NewestInPool /\ WorkersExplained

\* A step by which no object gets its first job and none leaves the pool.
LEMMA ObjectsLeft ==
  ASSUME ObjectsInv, UNCHANGED <<last, pool>>,
         \A s \in Serials, i \in Objects : queue'[s][i] # <<>> =>
             queue[s][i] # <<>> /\ (<<s, i>> \in missed => <<s, i>> \in missed')
  PROVE  ObjectsInv'
<1>1. NewestInPool'
  BY DEF ObjectsInv, NewestInPool
<1>2. WorkersExplained'
  BY DEF ObjectsInv, WorkersExplained
<1> QED
  BY <1>1, <1>2 DEF ObjectsInv

LEMMA DieObjects == Die => ObjectsInv'
<1> SUFFICES ASSUME Die PROVE ObjectsInv'
  OBVIOUS
<1>1. \A s \in Serials : pool'[s] = 0 /\ \A i \in Objects : queue'[s][i] = <<>>
  BY DEF Die, NoQueues
<1> QED
  BY <1>1 DEF ObjectsInv, NewestInPool, WorkersExplained

\* A list that keeps no object of a phone has left it out, when it worked.
LEMMA ReloadObjects ==
  ASSUME IInv, ObjectsInv, NEW list \in SUBSET Serials, Reload(list)
  PROVE  ObjectsInv'
<1> DEFINE kept == Cleared(list)
           new == Unpooled(list, kept)
<1>1. /\ queue' = queue /\ missed' = missed \cup LeftOut(list)
      /\ last' = [s \in Serials |-> IF s \in new THEN last[s] + 1 ELSE last[s]]
      /\ pool' = [s \in Serials |-> IF s \in new THEN last[s] + 1 ELSE kept[s]]
  BY DEF Reload
<1>2. \A s \in Serials : kept[s] \in {0, pool[s]} /\ (kept[s] # pool[s] => s \notin list)
  BY DEF Cleared
<1>3. \A s \in Serials : s \in new <=> s \in list /\ kept[s] = 0
  BY DEF Unpooled
<1>4. \A s \in Serials : pool[s] \in Nat /\ last[s] \in Nat
  BY AppAssumption DEF IInv, TypeOK
<1> HIDE DEF kept, new
<1>5. NewestInPool'
  BY <1>1, <1>2 DEF ObjectsInv, NewestInPool
<1>6. ASSUME NEW s \in Serials, NEW i \in Objects, queue'[s][i] # <<>>
      PROVE  i <= last'[s] /\ (i = pool'[s] \/ <<s, i>> \in missed')
  <2>1. queue[s][i] # <<>> /\ i <= last[s] /\ i \in Nat /\ i # 0
    <3>1. queue[s][i] # <<>> /\ i <= last[s]
      BY <1>1, <1>6 DEF ObjectsInv, WorkersExplained
    <3>2. i \in Nat /\ i # 0
      BY AppAssumption DEF Objects
    <3> QED
      BY <3>1, <3>2
  <2>2. i <= last'[s]
    BY <1>1, <1>4, <2>1
  <2>3. CASE <<s, i>> \in missed
    BY <1>1, <2>2, <2>3
  <2>4. CASE i = pool[s] /\ kept[s] = pool[s]
    <3>1. i = pool'[s]
      BY <1>1, <1>3, <2>1, <2>4
    <3> QED
      BY <2>2, <3>1
  <2>5. CASE i = pool[s] /\ kept[s] # pool[s]
    <3>1. s \in Present \ list
      BY <1>2, <2>1, <2>5 DEF Present
    <3>2. <<s, i>> \in LeftOut(list)
      BY <2>1, <2>5, <3>1 DEF LeftOut
    <3> QED
      BY <1>1, <2>2, <3>2
  <2> QED
    BY <1>6, <2>1, <2>3, <2>4, <2>5 DEF ObjectsInv, WorkersExplained
<1>7. WorkersExplained'
  BY <1>6 DEF WorkersExplained
<1> QED
  BY <1>5, <1>7 DEF ObjectsInv

\* Only objects of the pool get jobs.
LEMMA AddObjects ==
  ASSUME IInv, ObjectsInv, NEW D \in SUBSET Present, NEW J, Add(D, J)
  PROVE  ObjectsInv'
<1>1. CASE Die
  BY <1>1, DieObjects
<1>2. CASE /\ queue' = [s \in Serials |->
                IF s \in D THEN [queue[s] EXCEPT ![pool[s]] = @ \o J[s]] ELSE queue[s]]
           /\ UNCHANGED <<up, last, pool, missed, log>>
  <2>1. \A s \in Serials : \A i \in Objects : i # pool[s] => queue'[s][i] = queue[s][i]
    BY <1>2 DEF IInv, TypeOK
  <2>2. \A s \in Serials : pool[s] <= last[s]
    BY DEF IInv, TypeOK
  <2>3. NewestInPool'
    BY <1>2 DEF ObjectsInv, NewestInPool
  <2>4. WorkersExplained'
    BY <1>2, <2>1, <2>2 DEF ObjectsInv, WorkersExplained
  <2> QED
    BY <2>3, <2>4 DEF ObjectsInv
<1> QED
  BY <1>1, <1>2 DEF Add

LEMMA JobEndsObjects ==
  ASSUME IInv, ObjectsInv, NEW s \in Serials, NEW i \in Objects, JobEnds(s, i)
  PROVE  ObjectsInv'
<1>1. CASE Die
  BY <1>1, DieObjects
<1>2. CASE /\ queue' = [queue EXCEPT ![s][i] = Tail(@)]
           /\ missed' = IF Len(queue[s][i]) > 1 THEN missed ELSE missed \ {<<s, i>>}
           /\ UNCHANGED <<last, pool>>
  <2>1. queue[s][i] \in Seq(Jobs) /\ queue[s][i] # <<>>
    BY DEF JobEnds, IInv, TypeOK
  <2>2. \A t \in Serials : \A k \in Objects :
          queue'[t][k] = IF t = s /\ k = i THEN Tail(queue[s][i]) ELSE queue[t][k]
    BY <1>2 DEF IInv, TypeOK
  <2>3. ~(Len(queue[s][i]) > 1) => Tail(queue[s][i]) = <<>>
    <3>1. /\ Len(queue[s][i]) \in Nat \ {0} /\ Tail(queue[s][i]) \in Seq(Jobs)
          /\ Len(Tail(queue[s][i])) = Len(queue[s][i]) - 1
      BY <2>1, EmptySeq, HeadTailProperties
    <3> QED
      BY <3>1, EmptySeq
  <2>4. \A t \in Serials, k \in Objects : queue'[t][k] # <<>> =>
            queue[t][k] # <<>> /\ (<<t, k>> \in missed => <<t, k>> \in missed')
    BY <1>2, <2>1, <2>2, <2>3
  <2> QED
    BY <1>2, <2>4, ObjectsLeft
<1> QED
  BY <1>1, <1>2 DEF JobEnds, Rest

LEMMA ObjectsKeep == IInv /\ ObjectsInv /\ [Next]_vars => ObjectsInv'
<1> SUFFICES ASSUME IInv, ObjectsInv, [Next]_vars PROVE ObjectsInv'
  OBVIOUS
<1>1. CASE UNCHANGED <<last, pool, queue, missed>>
  BY <1>1, ObjectsLeft
<1>2. Restart \/ NextSecond \/ UNCHANGED vars => UNCHANGED <<last, pool, queue, missed>>
  BY DEF Restart, NextSecond, devices, vars
<1>3. ASSUME NEW list \in SUBSET Serials, Reload(list) PROVE ObjectsInv'
  BY <1>3, ReloadObjects
<1>4. CASE Alarm
  BY <1>4, AddObjects DEF Alarm
<1>5. CASE RunNow
  BY <1>5, AddObjects DEF RunNow
<1>6. ASSUME NEW s \in Serials, NEW i \in Objects, JobEnds(s, i) PROVE ObjectsInv'
  BY <1>6, JobEndsObjects
<1>7. ASSUME NEW j \in Jobs, SummaryGoesOn(j) PROVE UNCHANGED <<last, pool, queue, missed>>
  BY <1>7 DEF SummaryGoesOn, devices
<1>8. Crash \/ ReadEndsServer \/ ResultPage => Die
  BY DEF Crash, ReadEndsServer, ResultPage
<1> QED
  BY <1>1, <1>2, <1>3, <1>4, <1>5, <1>6, <1>7, <1>8, DieObjects DEF Next

\* Two objects of a phone work at once only if the older one was left out of a
\* list while it worked (admin_manager.node.js, clearDevicePool and loadDevice).
THEOREM SecondObjectsExplained == Spec => []TwoAtOnceOnlyIfMissed
<1>1. Init => ObjectsInv
  <2> SUFFICES ASSUME Init PROVE ObjectsInv
    OBVIOUS
  <2>1. \A s \in Serials : pool[s] = 0 /\ \A i \in Objects : queue[s][i] = <<>>
    BY DEF Init, NoQueues
  <2> QED
    BY <2>1 DEF ObjectsInv, NewestInPool, WorkersExplained
<1>2. IInv /\ ObjectsInv => TwoAtOnceOnlyIfMissed
  <2> SUFFICES ASSUME IInv, ObjectsInv, NEW s \in Serials, NEW i \in Objects, NEW k \in Objects,
                      i < k, queue[s][i] # <<>>, queue[s][k] # <<>>
               PROVE  <<s, i>> \in missed
    BY DEF TwoAtOnceOnlyIfMissed
  <2>1. i \in Nat /\ k \in Nat /\ i # 0 /\ last[s] \in Nat
    BY AppAssumption DEF Objects, IInv, TypeOK
  <2>2. k <= last[s] /\ pool[s] \in {0, last[s]}
    BY DEF ObjectsInv, WorkersExplained, NewestInPool
  <2>3. i # pool[s]
    BY <2>1, <2>2
  <2> QED
    BY <2>3 DEF ObjectsInv, WorkersExplained
<1> QED
  BY <1>1, <1>2, ObjectsKeep, PoolInvariant, PTL DEF Spec

-----------------------------------------------------------------------------
(* The file *)

\* What a step may do to the file and to the jobs that are busy with it.
LEMMA FileSteps ==
  ASSUME IInv, Next
  PROVE  \/ ~up'
         \/ UNCHANGED file /\ \A j \in Jobs : step[j] \in {"opening", "writing"} => step'[j] = step[j]
         \/ \E j \in Jobs : Read(j) \/ Open(j) \/ Write(j) \/ WriteFails(j)
<1>1. CASE Die
  BY <1>1 DEF Die
<1>2. CASE UNCHANGED log
  BY <1>2 DEF log
<1>3. ASSUME NEW s \in Serials, NEW i \in Objects, JobEnds(s, i), ~Die
      PROVE  UNCHANGED file /\ \A j \in Jobs : step[j] \in {"opening", "writing"} => step'[j] = step[j]
  <2>1. queue[s][i] \in Seq(Jobs) /\ queue[s][i] # <<>>
    BY <1>3 DEF JobEnds, IInv, TypeOK
  <2>2. /\ file' = file
        /\ step' = [step EXCEPT ![Head(queue[s][i])] = "saving"]
    BY <1>3 DEF JobEnds, Summarized
  <2>3. step[Head(queue[s][i])] = "none"
    <3>1. TypeOK
      BY DEF IInv
    <3>2. Head(queue[s][i]) = queue[s][i][1] /\ queue[s][i][1] \in Jobs /\ 1 \in 1 .. Len(queue[s][i])
      BY <2>1, TailOfQueue
    <3>3. Queued(Head(queue[s][i]))
      BY <3>1, <3>2, QueueTypes
    <3> QED
      BY <3>1, <3>2, <3>3 DEF TypeOK
  <2> QED
    BY <2>2, <2>3 DEF IInv, TypeOK, LogTypeOK
<1>4. ASSUME NEW j \in Jobs, SummaryGoesOn(j)
      PROVE  \/ UNCHANGED file /\ \A k \in Jobs : step[k] \in {"opening", "writing"} => step'[k] = step[k]
             \/ Read(j) \/ Open(j) \/ Write(j) \/ WriteFails(j)
  <2>1. CASE SummarySaved(j) \/ Look(j) \/ ReadFails(j)
    <3>1. step[j] \in {"saving", "looking", "reading"} /\ file' = file /\ \E s : At(j, s)
      BY <2>1 DEF SummarySaved, Look, ReadFails
    <3> QED
      BY <3>1 DEF At, IInv, TypeOK, LogTypeOK
  <2> QED
    BY <1>4, <2>1 DEF SummaryGoesOn, LogStep
<1>5. ASSUME NEW D, NEW J, Add(D, J) PROVE Die \/ UNCHANGED log
  BY <1>5 DEF Add
<1>6. Alarm \/ RunNow => Die \/ UNCHANGED log
  BY <1>5 DEF Alarm, RunNow
<1>7. Restart \/ NextSecond \/ (\E list \in SUBSET Serials : Reload(list)) => UNCHANGED log
  BY DEF Restart, NextSecond, Reload
<1>8. Crash \/ ReadEndsServer \/ ResultPage => Die
  BY DEF Crash, ReadEndsServer, ResultPage
<1> QED
  BY <1>1, <1>2, <1>3, <1>4, <1>6, <1>7, <1>8 DEF Next

\* The log is damaged only by an end of the server within a write, by a write
\* that fails, or by two jobs that write over each other (file_io.node.js 89,
\* storage.node.js 108 to 126).
THEOREM DamageHasACause == Spec => DamageExplained
<1>1. IInv /\ [Next]_vars =>
        [~Damaged /\ Damaged' =>
           \/ ~up'
           \/ \E j \in Jobs : step[j] \in {"opening", "writing"} /\ step'[j] = "skipped"
           \/ \E j \in overlapped : step[j] = "writing" /\ step'[j] = "done"]_vars
  <2> SUFFICES ASSUME IInv, Next, ~Damaged, Damaged', up'
               PROVE  \/ \E j \in Jobs : step[j] \in {"opening", "writing"} /\ step'[j] = "skipped"
                      \/ \E j \in overlapped : step[j] = "writing" /\ step'[j] = "done"
    OBVIOUS
  <2>1. Busy' = {} /\ file'.state \in {"cut", "mixed"}
    BY DEF Damaged
  <2>2. ~(UNCHANGED file /\ \A j \in Jobs : step[j] \in {"opening", "writing"} => step'[j] = step[j])
    BY <2>1 DEF Damaged, Busy
  <2>3. ASSUME NEW j \in Jobs PROVE ~Read(j) /\ ~Open(j)
    <3>1. Read(j) \/ Open(j) => j \in Busy'
      BY AtStep DEF IInv, TypeOK, Read, Open, Busy, Steps
    <3> QED
      BY <2>1, <3>1
  <2>4. ASSUME NEW j \in Jobs, Write(j) PROVE j \in overlapped /\ step[j] = "writing" /\ step'[j] = "done"
    <3>1. step[j] = "writing" /\ step'[j] = "done"
      BY <2>4, AtStep DEF IInv, TypeOK, Write, Steps
    <3>2. ASSUME j \notin overlapped PROVE FALSE
      <4>1. file' = Whole(copy[j])
        BY <2>4, <3>1, <3>2, LoneWrite DEF IInv, Write
      <4> QED
        BY <2>1, <4>1 DEF Whole
    <3> QED
      BY <3>1, <3>2
  <2>5. ASSUME NEW j \in Jobs, WriteFails(j)
        PROVE  step[j] \in {"opening", "writing"} /\ step'[j] = "skipped"
    BY <2>5, AtStep DEF IInv, TypeOK, WriteFails, Steps
  <2> QED
    BY <2>2, <2>3, <2>4, <2>5, FileSteps
<1> QED
  BY <1>1, PoolInvariant, PTL DEF Spec, DamageExplained

\* A damaged log stays damaged: no job gets past its read (file_io.node.js,
\* loadFromJSONFile).
THEOREM DamageIsForGood == Spec => DamageStays
<1>1. IInv /\ [Next]_vars => [Damaged => Damaged']_vars
  <2> SUFFICES ASSUME IInv, Next, Damaged PROVE Damaged'
    OBVIOUS
  <2>1. Busy = {} /\ file.state \in {"cut", "mixed"}
    BY DEF Damaged
  <2>2. CASE Die
    BY <2>1, <2>2 DEF Die, Damaged, Busy, Abandoned
  <2>3. ASSUME NEW j \in Jobs PROVE ~Read(j) /\ ~Open(j) /\ ~Write(j) /\ ~WriteFails(j)
    BY <2>1 DEF Read, Readable, Open, Write, WriteFails, Busy
  <2>4. CASE UNCHANGED log
    BY <2>1, <2>4 DEF log, Damaged, Busy
  <2>5. CASE UNCHANGED file /\ Busy' = {}
    BY <2>1, <2>5 DEF Damaged
  <2>6. ASSUME NEW s \in Serials, NEW i \in Objects, JobEnds(s, i), ~Die
        PROVE  UNCHANGED file /\ Busy' = {}
    <3>1. file' = file /\ step' = [step EXCEPT ![Head(queue[s][i])] = "saving"]
      BY <2>6 DEF JobEnds, Summarized
    <3> QED
      BY <2>1, <3>1 DEF Busy, IInv, TypeOK, LogTypeOK
  <2>7. ASSUME NEW j \in Jobs, SummaryGoesOn(j) PROVE UNCHANGED file /\ Busy' = {}
    <3>1. file' = file /\ \E t \in {"looking", "stuck", "reading"} : At(j, t)
      BY <2>3, <2>7 DEF SummaryGoesOn, LogStep, SummarySaved, Look, ReadFails
    <3> QED
      BY <2>1, <3>1 DEF At, Busy, IInv, TypeOK, LogTypeOK
  <2>8. ASSUME NEW D, NEW J, Add(D, J) PROVE Die \/ UNCHANGED log
    BY <2>8 DEF Add
  <2>9. Alarm \/ RunNow => Die \/ UNCHANGED log
    BY <2>8 DEF Alarm, RunNow
  <2>10. Restart \/ NextSecond \/ (\E list \in SUBSET Serials : Reload(list)) => UNCHANGED log
    BY DEF Restart, NextSecond, Reload
  <2>11. Crash \/ ReadEndsServer \/ ResultPage => Die
    BY DEF Crash, ReadEndsServer, ResultPage
  <2> QED
    BY <2>2, <2>4, <2>5, <2>6, <2>7, <2>9, <2>10, <2>11 DEF Next
<1> QED
  BY <1>1, PoolInvariant, PTL DEF Spec, DamageStays
=============================================================================
