--------------------------- MODULE JobQueueProofs ---------------------------
(***************************************************************************)
(* That JobQueue is worth implementing: its waiting jobs stand in one      *)
(* line, nobody is served before those ahead of him, and a job ends once,  *)
(* while it is served.                                                     *)
(***************************************************************************)
EXTENDS JobQueue, TLAPS

\* The pairs of R put the members of W in one line.
InLine(R, W) ==
    /\ R \subseteq W \X W
    /\ \A j \in W : <<j, j>> \notin R
    /\ \A j, k \in W : j # k => (<<j, k>> \in R <=> <<k, j>> \notin R)
    /\ \A j, k, l \in W : <<j, k>> \in R /\ <<k, l>> \in R => <<j, l>> \in R

\* The jobs that wait and the one that is served are alive; while a job waits
\* another one is served; and those that wait stand in one line.
Line ==
    /\ active \in Jobs \cup {Nil}
    /\ waiting \subseteq Jobs \ {active}
    /\ IF active = Nil THEN waiting = {} ELSE fate[active] = "alive"
    /\ \A j \in waiting : fate[j] = "alive"
    /\ InLine(before, waiting)

\* First come, first served: who becomes active from the line has nobody ahead.
ServedInTurn == [][active' \in waiting => \A j \in Jobs : <<j, active'>> \notin before]_qvars

\* A job ends once, and while it is active.
EndsWhileServed ==
    [][\A j \in Jobs : fate'[j] \in {"done", "aborting"} /\ fate'[j] # fate[j] =>
          j = active /\ fate[j] = "alive" /\ active' # j]_qvars

QTypes == Line /\ fate \in [Jobs -> {"none", "alive", "done", "aborting", "gone"}]

-----------------------------------------------------------------------------
(* Lines *)

LEMMA ShorterLine ==
  ASSUME NEW R, NEW W, InLine(R, W), NEW V \in SUBSET W
  PROVE  InLine(R \cap (V \X V), V)
<1>1. \A j, k \in V : <<j, k>> \in R \cap (V \X V) <=> <<j, k>> \in R
  OBVIOUS
<1> QED BY <1>1 DEF InLine

LEMMA LongerLine ==
  ASSUME NEW R, NEW W, InLine(R, W), NEW x, x \notin W
  PROVE  InLine(R \cup (W \X {x}), W \cup {x})
<1> DEFINE S == R \cup (W \X {x})
<1>1. S \subseteq (W \cup {x}) \X (W \cup {x})
  BY DEF InLine
<1>2. \A j, k \in W : <<j, k>> \in S <=> <<j, k>> \in R
  OBVIOUS
<1>3. \A j \in W : <<j, x>> \in S /\ <<x, j>> \notin S
  BY DEF InLine
<1>4. <<x, x>> \notin S
  BY DEF InLine
<1> HIDE DEF S
<1>5. ASSUME NEW j \in W \cup {x}, NEW k \in W \cup {x}, j # k
      PROVE  <<j, k>> \in S <=> <<k, j>> \notin S
  BY <1>2, <1>3, <1>5 DEF InLine
<1>6. ASSUME NEW j \in W \cup {x}, NEW k \in W \cup {x}, NEW l \in W \cup {x},
             <<j, k>> \in S, <<k, l>> \in S
      PROVE  <<j, l>> \in S
  BY <1>2, <1>3, <1>4, <1>6 DEF InLine
<1>7. \A j \in W \cup {x} : <<j, j>> \notin S
  BY <1>2, <1>4 DEF InLine
<1>8. InLine(S, W \cup {x})
  BY <1>1, <1>5, <1>6, <1>7 DEF InLine
<1> QED BY <1>8 DEF S

LEMMA TurnedLine ==
  ASSUME NEW R, NEW W, InLine(R, W)
  PROVE  InLine({<<p[2], p[1]>> : p \in R}, W)
<1> DEFINE S == {<<p[2], p[1]>> : p \in R}
<1>1. S \subseteq W \X W
  BY DEF InLine
<1>2. ASSUME NEW j, NEW k PROVE <<j, k>> \in S <=> <<k, j>> \in R
  BY DEF InLine
<1> HIDE DEF S
<1>3. \A j, k \in W : j # k => (<<j, k>> \in S <=> <<k, j>> \notin S)
  BY <1>2 DEF InLine
<1>4. ASSUME NEW j \in W, NEW k \in W, NEW l \in W, <<j, k>> \in S, <<k, l>> \in S
      PROVE  <<j, l>> \in S
  BY <1>2, <1>4 DEF InLine
<1>5. \A j \in W : <<j, j>> \notin S
  BY <1>2 DEF InLine
<1>6. InLine(S, W)
  BY <1>1, <1>3, <1>4, <1>5 DEF InLine
<1> QED BY <1>6 DEF S

-----------------------------------------------------------------------------
(* One lemma for each step of the queue *)

LEMMA QStart == ASSUME Nil \notin Jobs, Init PROVE QTypes
  BY DEF Init, QTypes, Line, InLine

LEMMA SubmitKeeps ==
  ASSUME Nil \notin Jobs, QTypes, NEW j \in Jobs, Submit(j)
  PROVE  QTypes'
<1>1. fate' \in [Jobs -> {"none", "alive", "done", "aborting", "gone"}]
  BY DEF QTypes, Submit
<1>2. j \notin waiting /\ fate'[j] = "alive" /\ \A k \in waiting : k \in Jobs /\ fate'[k] = "alive"
  BY DEF QTypes, Line, Submit
<1>3. CASE active = Nil
  BY <1>1, <1>2, <1>3 DEF QTypes, Line, Submit
<1>4. CASE active # Nil
  <2>1. /\ waiting' = waiting \cup {j} /\ active' = active
        /\ before' = before \cup (waiting \X {j})
    BY <1>4 DEF Submit
  <2>2. active # j /\ fate'[active] = "alive"
    BY <1>4 DEF QTypes, Line, Submit
  <2>3. InLine(before', waiting')
    BY <1>2, <2>1, LongerLine DEF QTypes, Line
  <2> QED BY <1>1, <1>2, <1>4, <2>1, <2>2, <2>3 DEF QTypes, Line
<1> QED BY <1>3, <1>4

LEMMA EndKeeps ==
  ASSUME Nil \notin Jobs, QTypes, NEW how \in {"done", "aborting"}, End(how)
  PROVE  QTypes'
<1>1. active \in Jobs /\ fate' = [fate EXCEPT ![active] = how]
  BY DEF QTypes, Line, End
<1>2. fate' \in [Jobs -> {"none", "alive", "done", "aborting", "gone"}]
  BY <1>1 DEF QTypes
<1>3. \A j \in waiting : fate'[j] = "alive"
  BY <1>1 DEF QTypes, Line
<1>4. CASE waiting = {} /\ active' = Nil /\ UNCHANGED <<waiting, before>>
  BY <1>2, <1>4 DEF QTypes, Line
<1>5. ASSUME NEW j \in waiting, active' = j, waiting' = waiting \ {j}, before' = Among(waiting')
      PROVE  QTypes'
  <2>1. j \in Jobs /\ j # Nil /\ waiting' \subseteq Jobs \ {j}
    BY <1>5 DEF QTypes, Line
  <2>2. InLine(before', waiting')
    BY <1>5, ShorterLine DEF QTypes, Line, Among
  <2> QED BY <1>2, <1>3, <1>5, <2>1, <2>2 DEF QTypes, Line
<1> QED BY <1>4, <1>5 DEF End

LEMMA WithdrawKeeps ==
  ASSUME QTypes, NEW j \in Jobs, Withdraw(j)
  PROVE  QTypes'
<1>1. InLine(before', waiting')
  BY ShorterLine DEF QTypes, Line, Withdraw, Among
<1> QED BY <1>1 DEF QTypes, Line, Withdraw

LEMMA WithdrawSomeKeeps ==
  ASSUME QTypes, NEW W \in SUBSET waiting, WithdrawSome(W)
  PROVE  QTypes'
<1>1. InLine(before', waiting')
  <2>1. InLine(Among(W), W)
    BY ShorterLine DEF QTypes, Line, Among
  <2> QED BY <2>1, TurnedLine DEF WithdrawSome
<1> QED BY <1>1 DEF QTypes, Line, WithdrawSome

LEMMA CloseKeeps == ASSUME QTypes, Close PROVE QTypes'
  BY DEF QTypes, Line, Close, InLine

-----------------------------------------------------------------------------
(* Theorems *)

\* The queue is a line of living jobs behind the one that is served.
THEOREM JobsWaitInLine == ASSUME Nil \notin Jobs PROVE Spec => []QTypes
<1>1. Init => QTypes
  BY QStart
<1>2. QTypes /\ [Next]_qvars => QTypes'
  <2> SUFFICES ASSUME QTypes, [Next]_qvars PROVE QTypes'
    OBVIOUS
  <2>1. ASSUME NEW j \in Jobs, Submit(j) PROVE QTypes'
    BY <2>1, SubmitKeeps
  <2>2. ASSUME NEW j \in Jobs, Withdraw(j) PROVE QTypes'
    BY <2>2, WithdrawKeeps
  <2>3. ASSUME NEW how \in {"done", "aborting"}, End(how) PROVE QTypes'
    BY <2>3, EndKeeps
  <2>4. ASSUME NEW W \in SUBSET waiting, WithdrawSome(W) PROVE QTypes'
    BY <2>4, WithdrawSomeKeeps
  <2>5. CASE Close
    BY <2>5, CloseKeeps
  <2>6. CASE Open
    BY <2>6 DEF QTypes, Line, Open
  <2>7. CASE UNCHANGED qvars
    BY <2>7 DEF QTypes, Line, qvars
  <2> QED BY <2>1, <2>2, <2>3, <2>4, <2>5, <2>6, <2>7 DEF Next
<1> QED BY <1>1, <1>2, PTL DEF Spec

\* The device begins with the job that has waited longest (or, after a stop of
\* all jobs, with the one that has waited shortest): none is ahead of it.
THEOREM FirstComeFirstServed == ASSUME Nil \notin Jobs PROVE Spec => ServedInTurn
<1>1. QTypes /\ [Next]_qvars =>
        [active' \in waiting => \A j \in Jobs : <<j, active'>> \notin before]_qvars
  <2> SUFFICES ASSUME QTypes, Next, active' \in waiting, NEW j \in Jobs
               PROVE  <<j, active'>> \notin before
    OBVIOUS
  <2>1. ASSUME NEW how \in {"done", "aborting"}, End(how) PROVE IsNext(active')
    BY <2>1 DEF End, QTypes, Line, IsNext
  <2>2. active' # active /\ active' \in Jobs
    BY DEF QTypes, Line
  <2>3. IsNext(active')
    BY <2>1, <2>2 DEF Next, Submit, Withdraw, WithdrawSome, Close, Open, QTypes, Line
  <2>4. InLine(before, waiting)
    BY DEF QTypes, Line
  <2> QED BY <2>3, <2>4 DEF IsNext, InLine
<1> QED BY <1>1, JobsWaitInLine, PTL DEF Spec, ServedInTurn

\* A job is done or aborted once, and while it is served.
THEOREM JobsEndOnce == ASSUME Nil \notin Jobs PROVE Spec => EndsWhileServed
<1>1. QTypes /\ [Next]_qvars =>
        [\A j \in Jobs : fate'[j] \in {"done", "aborting"} /\ fate'[j] # fate[j] =>
            j = active /\ fate[j] = "alive" /\ active' # j]_qvars
  <2> SUFFICES ASSUME QTypes, Next, NEW j \in Jobs,
                      fate'[j] \in {"done", "aborting"}, fate'[j] # fate[j]
               PROVE  j = active /\ fate[j] = "alive" /\ active' # j
    OBVIOUS
  <2>1. ASSUME NEW how \in {"done", "aborting"}, End(how)
        PROVE  j = active /\ fate[j] = "alive" /\ active' # j
    BY <2>1 DEF End, QTypes, Line
  <2>2. ASSUME NEW k \in Jobs, Submit(k) PROVE FALSE
    BY <2>2 DEF Submit, QTypes
  <2>3. CASE Close
    BY <2>3 DEF Close, QTypes
  <2> QED BY <2>1, <2>2, <2>3 DEF Next, Withdraw, WithdrawSome, Open
<1> QED BY <1>1, JobsWaitInLine, PTL DEF Spec, EndsWhileServed

=============================================================================
