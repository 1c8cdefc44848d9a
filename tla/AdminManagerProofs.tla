------------------------- MODULE AdminManagerProofs -------------------------
(***************************************************************************)
(* What AdminManager guarantees for every set of names and schedules, and  *)
(* for every choice of faults unless a theorem says otherwise.             *)
(***************************************************************************)
EXTENDS AdminManager, TLAPS

\* The inductive invariant behind type correctness: to know that setActivity
\* and editProfile change a record one has to know who refers to what (Backed),
\* and to know that the timer count stays natural, who owns a timer.
IInv == TypeOK /\ Backed /\ AlarmOwned

-----------------------------------------------------------------------------
(* Lemmas on the operators *)

\* The template, once a form has been copied into it, is a record.
LEMMA FilledIsRecord ==
    ASSUME TypeOK, NEW k \in Kinds, NEW n \in Names, NEW s \in Scheds
    PROVE  Filled(k, n, s) \in Records /\ Filled(k, n, s).name = n
  BY DEF Filled, TypeOK, Records

\* Any cell stands for a record or for nothing.
LEMMA ValIsRecord ==
    ASSUME TypeOK, NEW k \in Kinds, NEW c \in Cells
    PROVE  Val(k, c) \in Records \cup {Nil}
  BY DEF Val, TypeOK, Cells

\* Nil and Template are not records, and a file or a map can be empty.
LEMMA EmptyIsMap == EmptyMap \in [Names -> Records \cup {Nil}]
                    /\ EmptyMap \in [Names -> Cells]
  BY DEF EmptyMap, Cells

\* Saving a map of records keeps the files well formed and leaves every other
\* kind alone, whatever fails.
LEMMA SaveEffect ==
    ASSUME TypeOK, Backed, NEW k \in Kinds,
           NEW m \in [Names -> Records \cup {Nil}], Save(k, m)
    PROVE  /\ file' \in [Kinds -> {"absent", "ok", "bad"}]
           /\ disk' \in [Kinds -> [Names -> Records \cup {Nil}]]
           /\ \A j \in Kinds : file'[j] # "ok" => disk'[j] = EmptyMap
           /\ \A j \in Kinds \ {k} : file'[j] = file[j] /\ disk'[j] = disk[j]
  BY EmptyIsMap DEF Save, Tear, TypeOK, Backed, files

\* So does merging one record.
LEMMA MergeEffect ==
    ASSUME TypeOK, Backed, NEW k \in Kinds, NEW r \in Records, Merge(k, r)
    PROVE  /\ file' \in [Kinds -> {"absent", "ok", "bad"}]
           /\ disk' \in [Kinds -> [Names -> Records \cup {Nil}]]
           /\ \A j \in Kinds : file'[j] # "ok" => disk'[j] = EmptyMap
           /\ \A j \in Kinds \ {k} : file'[j] = file[j] /\ disk'[j] = disk[j]
<1>1. CASE file[k] = "ok"
  <2>1. [disk[k] EXCEPT ![r.name] = r] \in [Names -> Records \cup {Nil}]
    BY DEF TypeOK
  <2> QED  BY <1>1, <2>1, SaveEffect DEF Merge
<1>2. CASE file[k] # "ok"
  BY <1>2 DEF Merge, files, TypeOK, Backed
<1> QED  BY <1>1, <1>2
-----------------------------------------------------------------------------
(* Each action keeps IInv *)

\* The process ends with its memory, whatever is in the files.
LEMMA DieKeeps ==
    ASSUME IInv, Die,
           file' \in [Kinds -> {"absent", "ok", "bad"}],
           disk' \in [Kinds -> [Names -> Records \cup {Nil}]],
           \A k \in Kinds : file'[k] # "ok" => disk'[k] = EmptyMap
    PROVE  IInv'
<1>1. TypeOK'
  BY EmptyIsMap DEF Die, TypeOK, Everywhere
<1>2. Backed'
  BY MarkerAssumption DEF Die, Backed, Everywhere, EmptyMap, Kinds
<1>3. AlarmOwned'
  BY DEF Die, AlarmOwned
<1> QED  BY <1>1, <1>2, <1>3 DEF IInv

\* The same when the files are not touched.
LEMMA DieAloneKeeps ==
    ASSUME IInv, Die, UNCHANGED files
    PROVE  IInv'
  BY DieKeeps DEF IInv, TypeOK, Backed, files

\* makeStorage leaves every kind with a well-formed file.
LEMMA MakeStorageEffect ==
    ASSUME IInv, MakeStorage
    PROVE  /\ file' \in [Kinds -> {"absent", "ok", "bad"}]
           /\ disk' \in [Kinds -> [Names -> Records \cup {Nil}]]
           /\ \A k \in Kinds : file'[k] # "ok" => disk'[k] = EmptyMap
<1>1. PICK failed \in SUBSET Kinds, torn \in SUBSET Kinds :
        /\ failed \cap torn = {}
        /\ file' = [k \in Kinds |-> CASE k \in failed -> file[k]
                                      [] k \in torn   -> "bad"
                                      [] OTHER        -> "ok"]
        /\ disk' = [k \in Kinds |-> IF k \in failed THEN disk[k] ELSE EmptyMap]
  BY DEF MakeStorage
<1>2. ASSUME NEW k \in Kinds
      PROVE  \/ file'[k] = file[k] /\ disk'[k] = disk[k]
             \/ file'[k] \in {"ok", "bad"} /\ disk'[k] = EmptyMap
  <2>1. CASE k \in failed
    <3>1. k \notin torn
      BY <1>1, <2>1
    <3>2. file'[k] = file[k]
      BY <1>1, <2>1, <3>1
    <3> QED  BY <1>1, <2>1, <3>2
  <2>2. CASE k \in torn
    <3>1. k \notin failed
      BY <1>1, <2>2
    <3>2. file'[k] = "bad"
      BY <1>1, <2>2, <3>1
    <3> QED  BY <1>1, <3>1, <3>2
  <2>3. CASE k \notin failed /\ k \notin torn
    <3>1. file'[k] = "ok"
      BY <1>1, <2>3
    <3> QED  BY <1>1, <2>3, <3>1
  <2> QED  BY <2>1, <2>2, <2>3
<1>3. /\ file' = [k \in Kinds |-> file'[k]]
      /\ disk' = [k \in Kinds |-> disk'[k]]
  BY <1>1
<1>4. /\ file' \in [Kinds -> {"absent", "ok", "bad"}]
      /\ disk' \in [Kinds -> [Names -> Records \cup {Nil}]]
  BY <1>2, <1>3, EmptyIsMap DEF IInv, TypeOK
<1>5. ASSUME NEW k \in Kinds, file'[k] # "ok" PROVE disk'[k] = EmptyMap
  BY <1>1, <1>5, <1>2 DEF IInv, Backed
<1> QED  BY <1>4, <1>5

LEMMA BootKeeps == IInv /\ Boot => IInv'
<1> SUFFICES ASSUME IInv, Boot PROVE IInv'
  OBVIOUS
<1>1. /\ file' \in [Kinds -> {"absent", "ok", "bad"}]
      /\ disk' \in [Kinds -> [Names -> Records \cup {Nil}]]
      /\ \A k \in Kinds : file'[k] # "ok" => disk'[k] = EmptyMap
  BY MakeStorageEffect DEF Boot, IInv, TypeOK, Backed, files
<1>2. TypeOK'
  BY <1>1 DEF Boot, IInv, TypeOK, Cells, Kinds
<1>3. Backed'
  <2>1. ASSUME NEW k \in Kinds, NEW n \in Names PROVE mem'[k][n] # Template
    BY <1>1, MarkerAssumption DEF Boot
  <2>2. ASSUME NEW n \in Names PROVE pool'[n] # Template
    BY <1>1, MarkerAssumption DEF Boot, Kinds
  <2>3. ASSUME NEW n \in shared' PROVE pool'[n] \in Records /\ mem'["profile"][n] = pool'[n]
    BY <1>1 DEF Boot, Kinds
  <2>4. ASSUME NEW k \in Kinds, ~loaded'[k] PROVE mem'[k] = EmptyMap
    BY <1>1, <2>4 DEF Boot
  <2> QED  BY <1>1, <2>1, <2>2, <2>3, <2>4 DEF Boot, Backed
<1>4. AlarmOwned'
  BY DEF Boot, IInv, AlarmOwned, TypeOK
<1> QED  BY <1>2, <1>3, <1>4 DEF IInv

LEMMA BootCrashKeeps == IInv /\ BootCrash => IInv'
<1> SUFFICES ASSUME IInv, BootCrash PROVE IInv'
  OBVIOUS
<1>1. PICK k \in Kinds, torn \in BOOLEAN :
        /\ file' = [j \in Kinds |-> CASE Rank[j] < Rank[k] -> "ok"
                                      [] torn /\ j = k      -> "bad"
                                      [] OTHER             -> file[j]]
        /\ disk' = [j \in Kinds |-> IF Rank[j] < Rank[k] \/ (torn /\ j = k)
                                    THEN EmptyMap ELSE disk[j]]
  BY DEF BootCrash
<1>2. /\ file' \in [Kinds -> {"absent", "ok", "bad"}]
      /\ disk' \in [Kinds -> [Names -> Records \cup {Nil}]]
      /\ \A j \in Kinds : file'[j] # "ok" => disk'[j] = EmptyMap
  BY <1>1, EmptyIsMap DEF IInv, TypeOK, Backed
<1> QED  BY <1>2 DEF BootCrash, IInv, TypeOK, Backed, AlarmOwned, memory

LEMMA CrashKeeps == IInv /\ Crash => IInv'
  BY DieAloneKeeps DEF Crash

LEMMA CrashWhileSavingKeeps ==
    ASSUME NEW k \in Kinds PROVE IInv /\ CrashWhileSaving(k) => IInv'
  BY DieKeeps, EmptyIsMap DEF CrashWhileSaving, Tear, IInv, TypeOK, Backed

LEMMA NewKeeps ==
    ASSUME NEW k \in Kinds, NEW n \in Names, NEW s \in Scheds
    PROVE  IInv /\ New(k, n, s) => IInv'
<1> SUFFICES ASSUME IInv, New(k, n, s) PROVE IInv'
  OBVIOUS
<1>1. CASE ~loaded[k]
  BY <1>1, DieAloneKeeps DEF New
<1>2. CASE loaded[k]
  <2> DEFINE r == Filled(k, n, s)
  <2>1. r \in Records /\ r # Nil
    BY FilledIsRecord, MarkerAssumption DEF IInv
  <2>2. /\ tpl' = [tpl EXCEPT ![k] = r]
        /\ mem' = [mem EXCEPT ![k][n] = Template]
        /\ Merge(k, r)
        /\ UNCHANGED <<up, loaded, timers>>
        /\ IF k = "profile"
             THEN /\ pool' = [pool EXCEPT ![n] = Template]
                  /\ shared' = shared \ {n}
                  /\ handle' = [handle EXCEPT ![n] = FALSE]
             ELSE UNCHANGED <<pool, shared, handle>>
    BY <1>2 DEF New
  <2> HIDE DEF r
  <2>3. /\ file' \in [Kinds -> {"absent", "ok", "bad"}]
        /\ disk' \in [Kinds -> [Names -> Records \cup {Nil}]]
        /\ \A j \in Kinds : file'[j] # "ok" => disk'[j] = EmptyMap
    BY <2>1, <2>2, MergeEffect DEF IInv
  <2>4. TypeOK'
    BY <2>1, <2>2, <2>3 DEF IInv, TypeOK, Cells
  <2>5. Backed'
    BY <1>2, <2>1, <2>2, <2>3, MarkerAssumption DEF New, IInv, TypeOK, Backed, Kinds, Everywhere
  <2>6. AlarmOwned'
    BY <2>2, MarkerAssumption DEF IInv, TypeOK, AlarmOwned
  <2> QED  BY <2>4, <2>5, <2>6 DEF IInv
<1> QED  BY <1>1, <1>2

LEMMA DeleteKeeps ==
    ASSUME NEW k \in Kinds, NEW D \in SUBSET Names
    PROVE  IInv /\ Delete(k, D) => IInv'
<1> SUFFICES ASSUME IInv, Delete(k, D) PROVE IInv'
  OBVIOUS
<1>1. CASE loaded[k]
  <2> DEFINE left == Remaining(k, D)
  <2>1. left \in [Names -> Cells]
    BY DEF Remaining, IInv, TypeOK, Cells
  <2>2. Written(k, left) \in [Names -> Records \cup {Nil}]
    BY <2>1, ValIsRecord DEF Written, IInv
  <2>3. /\ mem' = [mem EXCEPT ![k] = left]
        /\ shared' = IF k = "profile" THEN shared \ D ELSE shared
        /\ Save(k, Written(k, left))
        /\ UNCHANGED <<up, loaded, pool, tpl, timers, handle>>
    BY <1>1 DEF Delete
  <2>4. \A n \in Names : left[n] # Nil => left[n] = mem[k][n] /\ n \notin D
    BY DEF Remaining
  <2>5. \A n \in Names \ D : left[n] = mem[k][n]
    BY DEF Remaining
  <2> HIDE DEF left
  <2>6. /\ file' \in [Kinds -> {"absent", "ok", "bad"}]
        /\ disk' \in [Kinds -> [Names -> Records \cup {Nil}]]
        /\ \A j \in Kinds : file'[j] # "ok" => disk'[j] = EmptyMap
    BY <2>2, <2>3, SaveEffect DEF IInv
  <2>7. TypeOK'
    BY <2>1, <2>3, <2>6 DEF IInv, TypeOK
  <2>8. Backed'
    BY <1>1, <2>3, <2>4, <2>5, <2>6, MarkerAssumption DEF IInv, TypeOK, Backed, Kinds, Everywhere
  <2>9. AlarmOwned'
    BY <2>3 DEF IInv, AlarmOwned
  <2> QED  BY <2>7, <2>8, <2>9 DEF IInv
<1>2. CASE ~loaded[k] /\ D # {}
  BY <1>2, DieAloneKeeps DEF Delete
<1>3. CASE ~loaded[k] /\ D = {}
  <2>1. (Tear(k) \/ UNCHANGED files) /\ UNCHANGED <<up, memory>>
    BY <1>3 DEF Delete
  <2>2. /\ file' \in [Kinds -> {"absent", "ok", "bad"}]
        /\ disk' \in [Kinds -> [Names -> Records \cup {Nil}]]
        /\ \A j \in Kinds : file'[j] # "ok" => disk'[j] = EmptyMap
    BY <2>1, EmptyIsMap DEF Tear, IInv, TypeOK, Backed, files
  <2> QED  BY <2>1, <2>2 DEF IInv, TypeOK, Backed, AlarmOwned, memory
<1> QED  BY <1>1, <1>2, <1>3

LEMMA EditKeeps ==
    ASSUME NEW n \in Names, NEW s \in Scheds
    PROVE  IInv /\ Edit(n, s) => IInv'
<1> SUFFICES ASSUME IInv, Edit(n, s) PROVE IInv'
  OBVIOUS
<1>k. "profile" \in Kinds
  BY DEF Kinds
<1>1. CASE ~loaded["profile"] \/ mem["profile"][n] = Nil
  BY <1>1, DieAloneKeeps DEF Edit
<1>2. CASE loaded["profile"] /\ mem["profile"][n] # Nil
  <2> DEFINE saved == [m \in Names |->
        IF mem'["profile"][m] = Template THEN tpl'["profile"] ELSE mem'["profile"][m]]
  <2>1. UNCHANGED <<up, loaded, shared, timers, handle>> /\ Save("profile", saved)
    BY <1>2 DEF Edit
  <2>2. /\ tpl' \in [Kinds -> Records \cup {Nil}]
        /\ mem' \in [Kinds -> [Names -> Cells]]
        /\ pool' \in [Names -> Cells]
        /\ \A k \in Kinds : tpl[k] # Nil => tpl'[k] # Nil
        /\ \A k \in Kinds : \A m \in Names : mem'[k][m] = Template => mem[k][m] = Template
        /\ \A m \in Names : pool'[m] = Template => pool[m] = Template
        /\ \A m \in Names : pool'[m] = Nil <=> pool[m] = Nil
        /\ \A m \in shared : pool'[m] \in Records /\ mem'["profile"][m] = pool'[m]
        /\ \A k \in Kinds : ~loaded[k] => mem'[k] = EmptyMap
    <3>1. CASE mem["profile"][n] = Template
      <4>1. tpl' = [tpl EXCEPT !["profile"].sched = s] /\ UNCHANGED <<mem, pool>>
        BY <1>2, <3>1 DEF Edit
      <4>2. tpl["profile"] \in Records
        BY <1>k, <3>1 DEF IInv, TypeOK, Backed
      <4>3. [tpl["profile"] EXCEPT !.sched = s] \in Records
        BY <4>2 DEF Records
      <4> QED  BY <1>k, <4>1, <4>3, MarkerAssumption DEF IInv, TypeOK, Backed
    <3>2. CASE mem["profile"][n] # Template
      <4>1. /\ mem' = [mem EXCEPT !["profile"][n].sched = s]
            /\ pool' = IF n \in shared THEN [pool EXCEPT ![n].sched = s] ELSE pool
            /\ UNCHANGED tpl
        BY <1>2, <3>2 DEF Edit
      <4>2. mem["profile"][n] \in Records
        BY <1>k, <1>2, <3>2 DEF IInv, TypeOK, Cells
      <4>3. [mem["profile"][n] EXCEPT !.sched = s] \in Records
        BY <4>2 DEF Records
      <4>4. n \in shared => pool[n] = mem["profile"][n]
        BY DEF IInv, Backed
      <4>5. /\ mem' \in [Kinds -> [Names -> Cells]]
            /\ mem'["profile"][n] = [mem["profile"][n] EXCEPT !.sched = s]
            /\ \A m \in Names \ {n} : mem'["profile"][m] = mem["profile"][m]
            /\ \A k \in Kinds \ {"profile"} : mem'[k] = mem[k]
        BY <1>k, <4>1, <4>3 DEF IInv, TypeOK, Cells
      <4>6. /\ pool' \in [Names -> Cells]
            /\ n \in shared => pool'[n] = [mem["profile"][n] EXCEPT !.sched = s]
            /\ n \notin shared => pool'[n] = pool[n]
            /\ \A m \in Names \ {n} : pool'[m] = pool[m]
        BY <4>1, <4>3, <4>4 DEF IInv, TypeOK, Cells
      <4>7. \A k \in Kinds : \A m \in Names : mem'[k][m] = Template => mem[k][m] = Template
        BY <4>3, <4>5, MarkerAssumption
      <4>8. \A m \in Names : pool'[m] = Template => pool[m] = Template
        BY <4>2, <4>3, <4>4, <4>6, MarkerAssumption
      <4>14. \A m \in Names : pool'[m] = Nil <=> pool[m] = Nil
        BY <4>2, <4>3, <4>4, <4>6, MarkerAssumption
      <4>9. \A m \in shared : pool'[m] \in Records /\ mem'["profile"][m] = pool'[m]
        BY <4>3, <4>5, <4>6 DEF IInv, TypeOK, Backed
      <4>10. \A k \in Kinds : ~loaded[k] => mem'[k] = EmptyMap
        BY <1>2, <4>5 DEF IInv, Backed
      <4>11. tpl' \in [Kinds -> Records \cup {Nil}]
        BY <4>1 DEF IInv, TypeOK
      <4>12. mem' \in [Kinds -> [Names -> Cells]] /\ pool' \in [Names -> Cells]
        BY <4>5, <4>6
      <4>13. \A k \in Kinds : tpl[k] # Nil => tpl'[k] # Nil
        BY <4>1
      <4> QED  BY <4>7, <4>8, <4>9, <4>10, <4>11, <4>12, <4>13, <4>14
    <3> QED  BY <3>1, <3>2
  <2>3. saved \in [Names -> Records \cup {Nil}]
    BY <1>k, <2>2 DEF Cells
  <2> HIDE DEF saved
  <2>4. /\ file' \in [Kinds -> {"absent", "ok", "bad"}]
        /\ disk' \in [Kinds -> [Names -> Records \cup {Nil}]]
        /\ \A j \in Kinds : file'[j] # "ok" => disk'[j] = EmptyMap
    BY <1>k, <2>1, <2>3, SaveEffect DEF IInv
  <2>5. TypeOK'
    BY <2>1, <2>2, <2>4 DEF IInv, TypeOK
  <2>6. Backed'
    BY <1>k, <2>1, <2>2, <2>4 DEF IInv, Backed
  <2>7. AlarmOwned'
    BY <2>1, <2>2 DEF IInv, AlarmOwned
  <2> QED  BY <2>5, <2>6, <2>7 DEF IInv
<1> QED  BY <1>1, <1>2

LEMMA ListKeeps ==
    ASSUME NEW k \in Kinds PROVE IInv /\ List(k) => IInv'
<1> SUFFICES ASSUME IInv, List(k) PROVE IInv'
  OBVIOUS
<1> DEFINE r == Reloaded(k)
<1>1. r \in Kinds
  BY DEF Reloaded, Kinds
<1>2. /\ loaded' = [loaded EXCEPT ![r] = file[r] = "ok"]
      /\ mem' = [mem EXCEPT ![r] = disk[r]]
      /\ shared' = IF r = "profile" THEN {} ELSE shared
      /\ up
      /\ UNCHANGED <<up, file, disk, pool, tpl, timers, handle>>
  BY DEF List
<1> HIDE DEF r
<1>3. TypeOK'
  BY <1>1, <1>2 DEF IInv, TypeOK, Cells
<1>4. Backed'
  <2>1. ASSUME NEW j \in Kinds, NEW n \in Names, mem'[j][n] = Template
        PROVE  mem[j][n] = Template
    BY <1>1, <1>2, <2>1, MarkerAssumption DEF IInv, TypeOK
  <2>2. ASSUME NEW n \in shared' PROVE pool[n] \in Records /\ mem'["profile"][n] = pool[n]
    BY <1>1, <1>2 DEF IInv, TypeOK, Backed, Kinds
  <2>3. ASSUME NEW j \in Kinds, ~loaded'[j] PROVE mem'[j] = EmptyMap
    BY <1>1, <1>2, <2>3 DEF IInv, TypeOK, Backed
  <2> QED  BY <1>2, <2>1, <2>2, <2>3 DEF IInv, Backed
<1>5. AlarmOwned'
  BY <1>2 DEF IInv, AlarmOwned
<1> QED  BY <1>3, <1>4, <1>5 DEF IInv

LEMMA SetActivityKeeps ==
    ASSUME NEW n \in Names, NEW a \in BOOLEAN
    PROVE  IInv /\ SetActivity(n, a) => IInv'
<1> SUFFICES ASSUME IInv, SetActivity(n, a) PROVE IInv'
  OBVIOUS
<1>k. "profile" \in Kinds
  BY DEF Kinds
<1> DEFINE refused == \/ pool[n] = Nil
                      \/ file["profile"] # "ok"
                      \/ disk["profile"][OwnName(n)] = Nil
<1>1. CASE refused
  BY <1>1, DieAloneKeeps DEF SetActivity
<1>2. CASE ~refused
  <2> DEFINE saved == [disk["profile"] EXCEPT ![OwnName(n)].act = a]
  <2>1. /\ timers' = TimersAfter(n, a)
        /\ handle' = HandleAfter(n, a)
        /\ Save("profile", saved)
        /\ UNCHANGED <<up, loaded, shared>>
    BY <1>2 DEF SetActivity
  <2>2. /\ tpl' \in [Kinds -> Records \cup {Nil}]
        /\ mem' \in [Kinds -> [Names -> Cells]]
        /\ pool' \in [Names -> Cells]
        /\ \A k \in Kinds : tpl[k] # Nil => tpl'[k] # Nil
        /\ \A k \in Kinds : \A m \in Names : mem'[k][m] = Template => mem[k][m] = Template
        /\ \A m \in Names : pool'[m] = Template => pool[m] = Template
        /\ \A m \in Names : pool'[m] = Nil <=> pool[m] = Nil
        /\ \A m \in shared : pool'[m] \in Records /\ mem'["profile"][m] = pool'[m]
        /\ \A k \in Kinds : ~loaded[k] => mem'[k] = EmptyMap
    <3>1. CASE pool[n] = Template
      <4>1. tpl' = [tpl EXCEPT !["profile"].act = a] /\ UNCHANGED <<mem, pool>>
        BY <1>2, <3>1 DEF SetActivity
      <4>2. tpl["profile"] \in Records
        BY <1>k, <3>1 DEF IInv, TypeOK, Backed
      <4>3. [tpl["profile"] EXCEPT !.act = a] \in Records
        BY <4>2 DEF Records
      <4> QED  BY <1>k, <4>1, <4>3, MarkerAssumption DEF IInv, TypeOK, Backed
    <3>2. CASE pool[n] # Template
      <4> DEFINE r == [pool[n] EXCEPT !.act = a]
      <4>1. /\ pool' = [pool EXCEPT ![n].act = a]
            /\ mem' = IF n \in shared THEN [mem EXCEPT !["profile"][n].act = a] ELSE mem
            /\ UNCHANGED tpl
        BY <1>2, <3>2 DEF SetActivity
      <4>2. pool[n] \in Records
        BY <1>2, <3>2 DEF IInv, TypeOK, Cells
      <4>3. r \in Records
        BY <4>2 DEF Records
      <4>4. n \in shared => mem["profile"][n] = pool[n]
        BY DEF IInv, Backed
      <4>5. /\ pool' \in [Names -> Cells]
            /\ pool'[n] = r
            /\ \A m \in Names \ {n} : pool'[m] = pool[m]
        BY <4>1, <4>3 DEF IInv, TypeOK, Cells
      <4>6. /\ mem' \in [Kinds -> [Names -> Cells]]
            /\ n \in shared => mem'["profile"][n] = r
            /\ n \notin shared => mem' = mem
            /\ \A m \in Names \ {n} : mem'["profile"][m] = mem["profile"][m]
            /\ \A k \in Kinds \ {"profile"} : mem'[k] = mem[k]
        <5>1. CASE n \in shared
          <6>1. mem' = [mem EXCEPT !["profile"] = [mem["profile"] EXCEPT ![n] = r]]
            BY <1>k, <4>1, <4>4, <5>1 DEF IInv, TypeOK
          <6> HIDE DEF r
          <6> QED  BY <1>k, <4>3, <5>1, <6>1 DEF IInv, TypeOK, Cells
        <5>2. CASE n \notin shared
          BY <4>1, <5>2 DEF IInv, TypeOK
        <5> QED  BY <5>1, <5>2
      <4> HIDE DEF r
      <4>7. \A k \in Kinds : \A m \in Names : mem'[k][m] = Template => mem[k][m] = Template
        BY <4>3, <4>6, MarkerAssumption
      <4>8. \A m \in Names : pool'[m] = Template => pool[m] = Template
        BY <4>2, <4>3, <4>5, MarkerAssumption
      <4>14. \A m \in Names : pool'[m] = Nil <=> pool[m] = Nil
        BY <4>2, <4>3, <4>5, MarkerAssumption
      <4>9. \A m \in shared : pool'[m] \in Records /\ mem'["profile"][m] = pool'[m]
        BY <4>3, <4>5, <4>6 DEF IInv, TypeOK, Backed
      <4>10. \A k \in Kinds : ~loaded[k] => mem'[k] = EmptyMap
        <5> SUFFICES ASSUME NEW k \in Kinds, ~loaded[k] PROVE mem'[k] = EmptyMap
          OBVIOUS
        <5>1. n \in shared => loaded["profile"]
          BY <1>k, <4>2, <4>4, MarkerAssumption DEF IInv, Backed, EmptyMap
        <5> QED  BY <4>6, <5>1 DEF IInv, Backed
      <4>11. tpl' \in [Kinds -> Records \cup {Nil}]
        BY <4>1 DEF IInv, TypeOK
      <4>12. mem' \in [Kinds -> [Names -> Cells]] /\ pool' \in [Names -> Cells]
        BY <4>5, <4>6
      <4>13. \A k \in Kinds : tpl[k] # Nil => tpl'[k] # Nil
        BY <4>1
      <4> QED  BY <4>7, <4>8, <4>9, <4>10, <4>11, <4>12, <4>13, <4>14
    <3> QED  BY <3>1, <3>2
  <2>3. saved \in [Names -> Records \cup {Nil}]
    <3> DEFINE o == OwnName(n)
               d == disk["profile"]
               r == [d[o] EXCEPT !.act = a]
    <3>1. d \in [Names -> Records \cup {Nil}] /\ d[o] # Nil
      BY <1>k, <1>2 DEF IInv, TypeOK
    <3>2. o \in Names => r \in Records
      <4>1. o \in Names => d[o] \in Records
        BY <3>1
      <4> QED  BY <4>1 DEF Records
    <3>3. saved = [d EXCEPT ![o] = r]
      OBVIOUS
    <3> HIDE DEF saved, r, o, d
    <3> QED  BY <3>1, <3>2, <3>3
  <2>4. /\ file' \in [Kinds -> {"absent", "ok", "bad"}]
        /\ disk' \in [Kinds -> [Names -> Records \cup {Nil}]]
        /\ \A j \in Kinds : file'[j] # "ok" => disk'[j] = EmptyMap
    BY <1>k, <2>1, <2>3, SaveEffect DEF IInv
  <2>5. /\ timers' \in [Names -> Nat]
        /\ handle' \in [Names -> BOOLEAN]
        /\ \A m \in Names : handle'[m] => timers'[m] >= 1
        /\ \A m \in Names \ {n} : timers'[m] = timers[m]
    BY <2>1 DEF TimersAfter, HandleAfter, IInv, TypeOK, AlarmOwned
  <2>6. TypeOK'
    BY <2>1, <2>2, <2>4, <2>5 DEF IInv, TypeOK
  <2>7. Backed'
    BY <1>k, <2>1, <2>2, <2>4 DEF IInv, Backed
  <2>8. AlarmOwned'
    BY <1>2, <2>1, <2>2, <2>5 DEF SetActivity, IInv, AlarmOwned
  <2> QED  BY <2>6, <2>7, <2>8 DEF IInv
<1> QED  BY <1>1, <1>2

LEMMA RunKeeps ==
    ASSUME NEW n \in Names, NEW d \in Records
    PROVE  IInv /\ Run(n, d) => IInv'
<1> SUFFICES ASSUME IInv, Run(n, d) PROVE IInv'
  OBVIOUS
<1>1. CASE pool[n] = Nil
  BY <1>1, DieAloneKeeps DEF Run
<1>2. CASE pool[n] # Nil
  <2>1. /\ Merge("profile", d)
        /\ pool' = [pool EXCEPT ![n] = d]
        /\ shared' = shared \ {n}
        /\ UNCHANGED <<up, loaded, mem, tpl, timers, handle>>
    BY <1>2 DEF Run
  <2>2. /\ file' \in [Kinds -> {"absent", "ok", "bad"}]
        /\ disk' \in [Kinds -> [Names -> Records \cup {Nil}]]
        /\ \A j \in Kinds : file'[j] # "ok" => disk'[j] = EmptyMap
    BY <2>1, MergeEffect DEF IInv, Kinds
  <2>3. TypeOK'
    BY <2>1, <2>2 DEF IInv, TypeOK, Cells
  <2>4. Backed'
    BY <2>1, <2>2, MarkerAssumption DEF IInv, TypeOK, Backed
  <2>5. AlarmOwned'
    BY <2>1, MarkerAssumption DEF IInv, TypeOK, AlarmOwned
  <2> QED  BY <2>3, <2>4, <2>5 DEF IInv
<1> QED  BY <1>1, <1>2

\* No element of the constantly false function is true.
LEMMA AllFalse ==
    ASSUME NEW S, NEW f, f = [x \in S |-> FALSE] PROVE \A x \in S : ~f[x]
  OBVIOUS

LEMMA InitIInv == Init => IInv
<1> SUFFICES ASSUME Init PROVE IInv
  OBVIOUS
<1>1. TypeOK
  BY EmptyIsMap DEF Init, TypeOK, Everywhere
<1>2. Backed
  BY MarkerAssumption DEF Init, Backed, Everywhere, EmptyMap, Kinds
<1>3. AlarmOwned
  <2>1. ASSUME NEW n \in Names PROVE timers[n] = 0
    BY DEF Init
  <2>2. handle = [n \in Names |-> FALSE]
    BY DEF Init
  <2>3. \A n \in Names : ~handle[n]
    BY <2>2, AllFalse, Zenon
  <2>4. ASSUME NEW n \in Names PROVE ~(timers[n] >= 1)
    BY <2>1, <1>1 DEF TypeOK
  <2> QED  BY <2>3, <2>4, Zenon DEF AlarmOwned
<1> QED  BY <1>1, <1>2, <1>3 DEF IInv

LEMMA NextIInv == IInv /\ [Next]_vars => IInv'
<1> SUFFICES ASSUME IInv, [Next]_vars PROVE IInv'
  OBVIOUS
<1>1. CASE UNCHANGED vars
  BY <1>1 DEF vars, IInv, TypeOK, Backed, AlarmOwned
<1>2. ASSUME Boot \/ BootCrash \/ Crash PROVE IInv'
  BY <1>2, BootKeeps, BootCrashKeeps, CrashKeeps
<1>3. ASSUME NEW k \in Kinds, CrashWhileSaving(k) \/ List(k) PROVE IInv'
  BY <1>3, CrashWhileSavingKeeps, ListKeeps
<1>4. ASSUME NEW k \in Kinds, NEW n \in Names, NEW s \in Scheds, New(k, n, s) PROVE IInv'
  BY <1>4, NewKeeps
<1>5. ASSUME NEW k \in Kinds, NEW D \in SUBSET Names, Delete(k, D) PROVE IInv'
  BY <1>5, DeleteKeeps
<1>6. ASSUME NEW n \in Names, NEW s \in Scheds, Edit(n, s) PROVE IInv'
  BY <1>6, EditKeeps
<1>7. ASSUME NEW n \in Names, NEW a \in BOOLEAN, SetActivity(n, a) PROVE IInv'
  BY <1>7, SetActivityKeeps
<1>8. ASSUME NEW n \in Names, NEW d \in Records, Run(n, d) PROVE IInv'
  BY <1>8, RunKeeps
<1> QED  BY <1>1, <1>2, <1>3, <1>4, <1>5, <1>6, <1>7, <1>8 DEF Next

\* The variables keep their shapes and references stay backed, whatever fails:
\* admin_manager.node.js never updates a record that is not there.
THEOREM InvariantHolds == Spec => []IInv
<1>1. Init => IInv
  BY InitIInv
<1>2. IInv /\ [Next]_vars => IInv'
  BY NextIInv
<1> QED  BY <1>1, <1>2, PTL DEF Spec

\* Type correctness of the stores, the pool and the timers.
THEOREM TypeCorrect == Spec => []TypeOK
<1>1. IInv => TypeOK
  BY DEF IInv
<1> QED  BY <1>1, InvariantHolds, PTL

\* A Profile object with a scheduler has an interval running, and no interval
\* outlives the process or runs for a name without a Profile object.
THEOREM AlarmsAreOwned == Spec => []AlarmOwned
<1>1. IInv => AlarmOwned
  BY DEF IInv
<1> QED  BY <1>1, InvariantHolds, PTL
-----------------------------------------------------------------------------
(* The files and the maps when every save succeeds *)

Faultless == ~SavesMayFail /\ ~SavesMayTear
Agreement == ListedIsStored /\ MapMatchesFile

\* A process that is gone shows nothing.
LEMMA DieAgrees == Die => Agreement'
  BY DEF Die, Agreement, ListedIsStored, MapMatchesFile, Everywhere

LEMMA BootAgrees == IInv' /\ Boot => Agreement'
  BY MarkerAssumption
     DEF Boot, IInv, TypeOK, Agreement, ListedIsStored, MapMatchesFile

LEMMA BootCrashAgrees == IInv /\ BootCrash => Agreement'
  BY DEF BootCrash, memory, IInv, Backed, Everywhere, Agreement, ListedIsStored, MapMatchesFile

LEMMA NewAgrees ==
    ASSUME Faultless, IInv, Agreement,
           NEW k \in Kinds, NEW n \in Names, NEW s \in Scheds, New(k, n, s)
    PROVE  Agreement'
<1>1. CASE ~loaded[k]
  BY <1>1, DieAgrees DEF New
<1>2. CASE loaded[k]
  <2> DEFINE r == Filled(k, n, s)
  <2>1. r \in Records /\ r # Nil /\ r.name = n
    BY FilledIsRecord, MarkerAssumption DEF IInv
  <2>2. file[k] = "ok"
    BY <1>2 DEF Agreement, ListedIsStored
  <2>3. /\ mem' = [mem EXCEPT ![k][n] = Template]
        /\ file' = [file EXCEPT ![k] = "ok"]
        /\ disk' = [disk EXCEPT ![k][n] = r]
        /\ loaded' = loaded
    BY <1>2, <2>1, <2>2 DEF New, Merge, Save, Faultless, IInv, TypeOK
  <2> HIDE DEF r
  <2>4. ListedIsStored'
    BY <2>1, <2>3 DEF IInv, TypeOK, Agreement, ListedIsStored
  <2>5. MapMatchesFile'
    BY <2>1, <2>3, MarkerAssumption DEF IInv, TypeOK, Agreement, MapMatchesFile
  <2> QED  BY <2>4, <2>5 DEF Agreement
<1> QED  BY <1>1, <1>2

LEMMA DeleteAgrees ==
    ASSUME Faultless, IInv, Agreement,
           NEW k \in Kinds, NEW D \in SUBSET Names, Delete(k, D)
    PROVE  Agreement'
<1>1. CASE ~loaded[k] /\ D # {}
  BY <1>1, DieAgrees DEF Delete
<1>2. CASE ~loaded[k] /\ D = {}
  <2>1. Tear(k) /\ UNCHANGED memory
    BY <1>2 DEF Delete, Faultless
  <2> QED  BY <1>2, <2>1
           DEF Tear, memory, IInv, TypeOK, Agreement, ListedIsStored, MapMatchesFile
<1>3. CASE loaded[k]
  <2> DEFINE left == Remaining(k, D)
  <2>1. /\ mem' = [mem EXCEPT ![k] = left]
        /\ file' = [file EXCEPT ![k] = "ok"]
        /\ disk' = [disk EXCEPT ![k] = Written(k, left)]
        /\ loaded' = loaded
    BY <1>3 DEF Delete, Save, Faultless
  <2>2. ASSUME NEW n \in Names
        PROVE  /\ left[n] = Nil <=> Written(k, left)[n] = Nil
               /\ left[n] \in Records => Written(k, left)[n] = left[n]
    BY MarkerAssumption DEF Remaining, Written, Val, IInv, TypeOK, Backed
  <2> HIDE DEF left
  <2>3. ListedIsStored'
    BY <2>1, <2>2 DEF IInv, TypeOK, Agreement, ListedIsStored
  <2>4. MapMatchesFile'
    BY <2>1, <2>2 DEF IInv, TypeOK, Agreement, MapMatchesFile
  <2> QED  BY <2>3, <2>4 DEF Agreement
<1> QED  BY <1>1, <1>2, <1>3

LEMMA ListAgrees ==
    ASSUME IInv, Agreement, NEW k \in Kinds, List(k) PROVE Agreement'
<1> DEFINE r == Reloaded(k)
<1>1. r \in Kinds
  BY DEF Reloaded, Kinds
<1>2. /\ loaded' = [loaded EXCEPT ![r] = file[r] = "ok"]
      /\ mem' = [mem EXCEPT ![r] = disk[r]]
      /\ UNCHANGED <<file, disk>>
  BY DEF List
<1> HIDE DEF r
<1>3. ListedIsStored'
  BY <1>1, <1>2 DEF IInv, TypeOK, Agreement, ListedIsStored
<1>4. MapMatchesFile'
  BY <1>1, <1>2 DEF IInv, TypeOK, Agreement, MapMatchesFile
<1> QED  BY <1>3, <1>4 DEF Agreement

LEMMA EditAgrees ==
    ASSUME Faultless, IInv, IInv', Agreement,
           NEW n \in Names, NEW s \in Scheds, Edit(n, s)
    PROVE  Agreement'
<1>k. "profile" \in Kinds
  BY DEF Kinds
<1>1. CASE ~loaded["profile"] \/ mem["profile"][n] = Nil
  BY <1>1, DieAgrees DEF Edit
<1>2. CASE loaded["profile"] /\ mem["profile"][n] # Nil
  <2> DEFINE saved == [m \in Names |->
        IF mem'["profile"][m] = Template THEN tpl'["profile"] ELSE mem'["profile"][m]]
  <2>1. /\ file' = [file EXCEPT !["profile"] = "ok"]
        /\ disk' = [disk EXCEPT !["profile"] = saved]
        /\ loaded' = loaded
    BY <1>2 DEF Edit, Save, Faultless
  <2>2. \A k \in Kinds \ {"profile"} : mem'[k] = mem[k]
    BY <1>2 DEF Edit, IInv, TypeOK
  <2>3. \A m \in Names : mem'["profile"][m] # Nil => saved[m] # Nil
    BY <1>k DEF IInv, Backed
  <2> HIDE DEF saved
  <2>4. ListedIsStored'
    BY <1>k, <2>1, <2>2, <2>3 DEF IInv, TypeOK, Agreement, ListedIsStored
  <2>5. MapMatchesFile'
    BY <1>k, <2>1, <2>2 DEF IInv, TypeOK, Agreement, MapMatchesFile
  <2> QED  BY <2>4, <2>5 DEF Agreement
<1> QED  BY <1>1, <1>2

LEMMA SetActivityAgrees ==
    ASSUME Faultless, IInv, IInv', Agreement,
           NEW n \in Names, NEW a \in BOOLEAN, SetActivity(n, a)
    PROVE  Agreement'
<1>k. "profile" \in Kinds
  BY DEF Kinds
<1> DEFINE refused == \/ pool[n] = Nil
                      \/ file["profile"] # "ok"
                      \/ disk["profile"][OwnName(n)] = Nil
           o == OwnName(n)
<1>1. CASE refused
  BY <1>1, DieAgrees DEF SetActivity
<1>2. CASE ~refused
  <2>1. /\ file' = [file EXCEPT !["profile"] = "ok"]
        /\ disk' = [disk EXCEPT !["profile"] = [disk["profile"] EXCEPT ![o].act = a]]
        /\ loaded' = loaded
    BY <1>2 DEF SetActivity, Save, Faultless
  <2>2. /\ \A k \in Kinds \ {"profile"} : mem'[k] = mem[k]
        /\ \A m \in Names : mem'["profile"][m] # Nil => mem["profile"][m] # Nil
    <3>1. CASE mem' = mem
      BY <3>1
    <3>2. CASE n \in shared /\ mem' = [mem EXCEPT !["profile"][n].act = a]
      <4>1. mem["profile"][n] # Nil
        BY <3>2, MarkerAssumption DEF IInv, Backed
      <4> QED  BY <1>k, <3>2, <4>1 DEF IInv, TypeOK
    <3> QED  BY <1>2, <3>1, <3>2 DEF SetActivity
  <2>3. \A m \in Names : disk["profile"][m] # Nil => disk'["profile"][m] # Nil
    <3> SUFFICES ASSUME NEW m \in Names, disk["profile"][m] # Nil
                 PROVE  disk'["profile"][m] # Nil
      OBVIOUS
    <3> DEFINE r == disk["profile"][m]
    <3>1. r \in Records
      BY <1>k DEF IInv, TypeOK
    <3>2. [r EXCEPT !.act = a] \in Records
      BY <3>1 DEF Records
    <3>3. disk'["profile"][m] = IF m = o THEN [r EXCEPT !.act = a] ELSE r
      BY <1>k, <2>1 DEF IInv, TypeOK
    <3> QED  BY <3>1, <3>2, <3>3, MarkerAssumption
  <2> HIDE DEF o
  <2>4. ListedIsStored'
    BY <1>k, <2>1, <2>2, <2>3 DEF IInv, TypeOK, Agreement, ListedIsStored
  <2>5. MapMatchesFile'
    BY <1>k, <2>1, <2>2 DEF IInv, TypeOK, Agreement, MapMatchesFile
  <2> QED  BY <2>4, <2>5 DEF Agreement
<1> QED  BY <1>1, <1>2

LEMMA RunAgrees ==
    ASSUME Faultless, IInv, Agreement, NEW n \in Names, NEW d \in Records, Run(n, d)
    PROVE  Agreement'
<1>k. "profile" \in Kinds
  BY DEF Kinds
<1>1. CASE pool[n] = Nil
  BY <1>1, DieAgrees DEF Run
<1>2. CASE pool[n] # Nil /\ file["profile"] # "ok"
  BY <1>2 DEF Run, Merge, files, Agreement, ListedIsStored, MapMatchesFile
<1>3. CASE pool[n] # Nil /\ file["profile"] = "ok"
  <2>1. /\ file' = [file EXCEPT !["profile"] = "ok"]
        /\ disk' = [disk EXCEPT !["profile"] = [disk["profile"] EXCEPT ![d.name] = d]]
        /\ loaded' = loaded
        /\ mem' = mem
    BY <1>3 DEF Run, Merge, Save, Faultless
  <2>2. d # Nil
    BY MarkerAssumption
  <2>3. ListedIsStored'
    BY <1>k, <2>1, <2>2 DEF IInv, TypeOK, Agreement, ListedIsStored
  <2>4. MapMatchesFile'
    BY <1>k, <2>1 DEF IInv, TypeOK, Agreement, MapMatchesFile
  <2> QED  BY <2>3, <2>4 DEF Agreement
<1> QED  BY <1>1, <1>2, <1>3

LEMMA NextAgrees ==
    ASSUME Faultless, IInv, IInv', Agreement, [Next]_vars PROVE Agreement'
<1>1. CASE UNCHANGED vars
  BY <1>1 DEF vars, Agreement, ListedIsStored, MapMatchesFile
<1>2. ASSUME Boot \/ BootCrash \/ Crash PROVE Agreement'
  BY <1>2, BootAgrees, BootCrashAgrees, DieAgrees DEF Crash
<1>3. ASSUME NEW k \in Kinds, CrashWhileSaving(k) \/ List(k) PROVE Agreement'
  BY <1>3, DieAgrees, ListAgrees DEF CrashWhileSaving
<1>4. ASSUME NEW k \in Kinds, NEW n \in Names, NEW s \in Scheds, New(k, n, s) PROVE Agreement'
  BY <1>4, NewAgrees
<1>5. ASSUME NEW k \in Kinds, NEW D \in SUBSET Names, Delete(k, D) PROVE Agreement'
  BY <1>5, DeleteAgrees
<1>6. ASSUME NEW n \in Names, NEW s \in Scheds, Edit(n, s) PROVE Agreement'
  BY <1>6, EditAgrees
<1>7. ASSUME NEW n \in Names, NEW a \in BOOLEAN, SetActivity(n, a) PROVE Agreement'
  BY <1>7, SetActivityAgrees
<1>8. ASSUME NEW n \in Names, NEW d \in Records, Run(n, d) PROVE Agreement'
  BY <1>8, RunAgrees
<1> QED  BY <1>1, <1>2, <1>3, <1>4, <1>5, <1>6, <1>7, <1>8 DEF Next

\* A usable file is a loaded one: nothing but makeStorage makes a file usable
\* while its map is not loaded, and then the map is loaded next.
LEMMA NextUsable ==
    ASSUME Faultless, IInv, Agreement, UsableIsLoaded, [Next]_vars PROVE UsableIsLoaded'
<1> USE DEF UsableIsLoaded
<1>1. CASE UNCHANGED vars
  BY <1>1 DEF vars
<1>2. CASE Boot
  BY <1>2 DEF Boot
<1>3. CASE BootCrash
  BY <1>3 DEF BootCrash
<1>4. ASSUME Die PROVE UsableIsLoaded'
  BY <1>4 DEF Die
<1>5. ASSUME NEW k \in Kinds, CrashWhileSaving(k) \/ List(k) PROVE UsableIsLoaded'
  <2>1. Reloaded(k) \in Kinds
    BY DEF Reloaded, Kinds
  <2>2. CASE List(k)
    BY <2>1, <2>2 DEF List, IInv, TypeOK
  <2> QED  BY <1>4, <1>5, <2>2 DEF CrashWhileSaving
<1>6. ASSUME NEW k \in Kinds, NEW n \in Names, NEW s \in Scheds, New(k, n, s)
      PROVE  UsableIsLoaded'
  <2>1. CASE loaded[k]
    BY <1>6, <2>1 DEF New, Merge, Save, Faultless, files, IInv, TypeOK
  <2> QED  BY <1>4, <1>6, <2>1 DEF New
<1>7. ASSUME NEW k \in Kinds, NEW D \in SUBSET Names, Delete(k, D)
      PROVE  UsableIsLoaded'
  <2>1. CASE loaded[k]
    BY <1>7, <2>1 DEF Delete, Save, Faultless, IInv, TypeOK
  <2>2. CASE ~loaded[k] /\ D = {}
    BY <1>7, <2>2 DEF Delete, Tear, Faultless, memory, IInv, TypeOK
  <2> QED  BY <1>4, <1>7, <2>1, <2>2 DEF Delete
<1>8. ASSUME NEW n \in Names, NEW s \in Scheds, Edit(n, s) PROVE UsableIsLoaded'
  BY <1>4, <1>8 DEF Edit, Save, Faultless, IInv, TypeOK, Kinds
<1>9. ASSUME NEW n \in Names, NEW a \in BOOLEAN, SetActivity(n, a) PROVE UsableIsLoaded'
  BY <1>4, <1>9 DEF SetActivity, Save, Faultless, IInv, TypeOK, Kinds
<1>10. ASSUME NEW n \in Names, NEW d \in Records, Run(n, d) PROVE UsableIsLoaded'
  BY <1>4, <1>10 DEF Run, Merge, Save, Faultless, files, IInv, TypeOK, Kinds
<1> QED  BY <1>1, <1>2, <1>3, <1>4, <1>5, <1>6, <1>7, <1>8, <1>9, <1>10 DEF Next, Crash

LEMMA AgreementHolds == ASSUME Faultless PROVE Spec => []Agreement
<1>1. Init => Agreement
  BY DEF Init, Everywhere, Agreement, ListedIsStored, MapMatchesFile
<1>2. IInv /\ IInv' /\ Agreement /\ [Next]_vars => Agreement'
  BY NextAgrees
<1> QED  BY <1>1, <1>2, InvariantHolds, PTL DEF Spec

LEMMA UsableHolds == ASSUME Faultless PROVE Spec => []UsableIsLoaded
<1>1. Init => UsableIsLoaded
  BY DEF Init, UsableIsLoaded
<1>2. IInv /\ Agreement /\ UsableIsLoaded /\ [Next]_vars => UsableIsLoaded'
  BY NextUsable
<1> QED  BY <1>1, <1>2, InvariantHolds, AgreementHolds, PTL DEF Spec

\* If every save succeeds, whatever is listed is stored, in every kind.
THEOREM WhatIsListedIsStored == ASSUME Faultless PROVE Spec => []ListedIsStored
<1>1. Agreement => ListedIsStored
  BY DEF Agreement
<1> QED  BY <1>1, AgreementHolds, PTL

\* If every save succeeds, the release and group maps have the names of their
\* files, and entries that are not the shared template have their contents.
THEOREM MapsMatchFiles == ASSUME Faultless PROVE Spec => []MapMatchesFile
<1>1. Agreement => MapMatchesFile
  BY DEF Agreement
<1> QED  BY <1>1, AgreementHolds, PTL

-----------------------------------------------------------------------------
(* Starting the server *)

\* As long as a save does not fail with nothing written, the profile file is
\* the first to exist: makeStorage writes it first, and no file ever goes away.
ProfileFileFirst == NoStorage => ~up /\ \A k \in Kinds : file[k] = "absent"

LEMMA NextProfileFileFirst ==
    ASSUME ~SavesMayFail, IInv, ProfileFileFirst, [Next]_vars PROVE ProfileFileFirst'
<1> USE DEF ProfileFileFirst, NoStorage
<1>1. CASE UNCHANGED vars
  BY <1>1 DEF vars
<1>2. CASE Boot
  <2>1. CASE NoStorage
    <3>1. PICK failed \in SUBSET Kinds, torn \in SUBSET Kinds :
            /\ failed = {}
            /\ file' = [k \in Kinds |-> CASE k \in failed -> file[k]
                                          [] k \in torn   -> "bad"
                                          [] OTHER        -> "ok"]
      BY <1>2, <2>1 DEF Boot, MakeStorage
    <3> QED  BY <3>1 DEF Kinds
  <2>2. CASE ~NoStorage
    BY <1>2, <2>2 DEF Boot, files
  <2> QED  BY <2>1, <2>2
<1>3. CASE BootCrash
  <2>1. PICK k \in Kinds, torn \in BOOLEAN :
          file' = [j \in Kinds |-> CASE Rank[j] < Rank[k] -> "ok"
                                     [] torn /\ j = k      -> "bad"
                                     [] OTHER             -> file[j]]
    BY <1>3 DEF BootCrash
  <2>2. Rank["profile"] = 1 /\ Rank["release"] = 2 /\ Rank["group"] = 3
    BY DEF Rank, Kinds
  <2> QED  BY <1>3, <2>1, <2>2 DEF BootCrash, Kinds
<1>4. ASSUME up, file'["profile"] \in {file["profile"], "ok", "bad"} PROVE ProfileFileFirst'
  BY <1>4
<1>5. ASSUME UNCHANGED files PROVE file'["profile"] = file["profile"]
  BY <1>5 DEF files
<1>6. ASSUME NEW k \in Kinds, Tear(k) PROVE file'["profile"] \in {file["profile"], "bad"}
  BY <1>6 DEF Tear, IInv, TypeOK, Kinds
<1>7. ASSUME NEW k \in Kinds, NEW m, Save(k, m)
      PROVE  file'["profile"] \in {file["profile"], "ok", "bad"}
  BY <1>6, <1>7 DEF Save, IInv, TypeOK, Kinds
<1>8. ASSUME NEW k \in Kinds, NEW r, Merge(k, r)
      PROVE  file'["profile"] \in {file["profile"], "ok", "bad"}
  BY <1>5, <1>7, <1>8 DEF Merge
<1>9. CASE Crash
  BY <1>4, <1>5, <1>9 DEF Crash
<1>10. ASSUME NEW k \in Kinds, CrashWhileSaving(k) \/ List(k) PROVE ProfileFileFirst'
  BY <1>4, <1>6, <1>10 DEF CrashWhileSaving, List
<1>11. ASSUME NEW k \in Kinds, NEW n \in Names, NEW s \in Scheds, New(k, n, s)
       PROVE  ProfileFileFirst'
  BY <1>4, <1>5, <1>8, <1>11 DEF New
<1>12. ASSUME NEW k \in Kinds, NEW D \in SUBSET Names, Delete(k, D)
       PROVE  ProfileFileFirst'
  <2>1. CASE loaded[k]
    BY <1>4, <1>7, <1>12, <2>1 DEF Delete
  <2>2. CASE ~loaded[k]
    BY <1>4, <1>5, <1>6, <1>12, <2>2 DEF Delete
  <2> QED  BY <2>1, <2>2
<1>13. ASSUME NEW n \in Names, NEW s \in Scheds, Edit(n, s) PROVE ProfileFileFirst'
  BY <1>4, <1>5, <1>7, <1>13 DEF Edit, Kinds
<1>14. ASSUME NEW n \in Names, NEW a \in BOOLEAN, SetActivity(n, a) PROVE ProfileFileFirst'
  BY <1>4, <1>5, <1>7, <1>14 DEF SetActivity, Kinds
<1>15. ASSUME NEW n \in Names, NEW d \in Records, Run(n, d) PROVE ProfileFileFirst'
  BY <1>4, <1>5, <1>8, <1>15 DEF Run, Kinds
<1> QED  BY <1>1, <1>2, <1>3, <1>9, <1>10, <1>11, <1>12, <1>13, <1>14, <1>15 DEF Next

LEMMA ProfileFileFirstHolds == ASSUME ~SavesMayFail PROVE Spec => []ProfileFileFirst
<1>1. Init => ProfileFileFirst
  BY DEF Init, ProfileFileFirst, Everywhere
<1>2. IInv /\ ProfileFileFirst /\ [Next]_vars => ProfileFileFirst'
  BY NextProfileFileFirst
<1> QED  BY <1>1, <1>2, InvariantHolds, PTL DEF Spec
-----------------------------------------------------------------------------
(* What a step may do to a stored record *)

\* If every save succeeds, a step that changes a stored release or group is a
\* New of it, a Delete of it, or a Delete that writes the shared template over
\* it.  MapMatchesFile is needed: a Delete writes out the map, so an entry that
\* is not the template survives only because the map agrees with the file.
LEMMA StoredRecordFateStep ==
    ASSUME Faultless, IInv, Agreement, UsableIsLoaded, ProfileFileFirst, [Next]_vars,
           NEW k \in Kinds \ {"profile"}, NEW n \in Names, disk'[k][n] # disk[k][n]
    PROVE  \/ \E s \in Scheds : New(k, n, s)
           \/ \E D \in SUBSET Names :
                 /\ Delete(k, D)
                 /\ n \notin D => mem[k][n] = Template /\ disk'[k][n] = tpl[k]
<1>1. CASE UNCHANGED vars
  BY <1>1 DEF vars
<1>2. ASSUME NEW j \in Kinds, NEW m \in Names, NEW s \in Scheds, New(j, m, s)
      PROVE  j = k /\ m = n
  <2> DEFINE r == Filled(j, m, s)
  <2>1. r.name = m
    BY FilledIsRecord DEF IInv
  <2>2. loaded[j] /\ file[j] = "ok"
    BY <1>2 DEF New, Merge, files
  <2>3. disk' = [disk EXCEPT ![j] = [disk[j] EXCEPT ![r.name] = r]]
    BY <1>2, <2>2 DEF New, Merge, Save, Faultless
  <2> HIDE DEF r
  <2>4. disk' = [disk EXCEPT ![j] = [disk[j] EXCEPT ![m] = r]]
    BY <2>1, <2>3
  <2> QED  BY <2>4 DEF IInv, TypeOK
<1>3. ASSUME NEW j \in Kinds, NEW D \in SUBSET Names, Delete(j, D)
      PROVE  j = k /\ (n \notin D => mem[k][n] = Template /\ disk'[k][n] = tpl[k])
  <2>1. CASE loaded[j]
    <3>1. disk' = [disk EXCEPT ![j] = Written(j, Remaining(j, D))]
      BY <1>3, <2>1 DEF Delete, Save, Faultless
    <3>2. j = k
      BY <3>1 DEF IInv, TypeOK
    <3>3. disk'[k][n] = Val(k, Remaining(k, D)[n])
      BY <3>1, <3>2 DEF IInv, TypeOK, Written
    <3>4. CASE n \notin D
      <4>1. disk'[k][n] = Val(k, mem[k][n])
        BY <3>3, <3>4 DEF Remaining
      <4>2. mem[k][n] # Template => disk'[k][n] = disk[k][n]
        BY <2>1, <3>2, <4>1 DEF Val, IInv, TypeOK, Cells, Agreement, MapMatchesFile
      <4> QED  BY <3>2, <4>1, <4>2 DEF Val
    <3> QED  BY <3>2, <3>4
  <2>2. CASE ~loaded[j] /\ D # {}
    BY <1>3, <2>2 DEF Delete, files
  <2>3. CASE ~loaded[j] /\ D = {}
    <3>1. CASE file[k] = "ok" /\ j = k
      BY <1>3, <2>3, <3>1 DEF Delete, UsableIsLoaded
    <3>2. CASE j # k
      BY <1>3, <2>3, <3>2 DEF Delete, Tear, Faultless, IInv, TypeOK
    <3>3. CASE file[k] # "ok" /\ j = k
      BY <1>3, <2>3, <3>3 DEF Delete, Tear, Faultless, IInv, TypeOK, Backed
    <3> QED  BY <3>1, <3>2, <3>3
  <2> QED  BY <2>1, <2>2, <2>3
<1>4. ASSUME Boot \/ BootCrash PROVE FALSE
  <2>1. ~NoStorage
    <3> SUFFICES ASSUME NoStorage PROVE disk'[k][n] = disk[k][n]
      BY <1>4 DEF Boot, BootCrash, files
    <3>1. disk[k] = EmptyMap
      BY DEF ProfileFileFirst, IInv, Backed
    <3>2. disk'[k] = EmptyMap
      BY <1>4, <3>1 DEF Boot, BootCrash, MakeStorage
    <3> QED  BY <3>1, <3>2
  <2> QED  BY <1>4, <2>1 DEF Boot, BootCrash, files
<1>5. ASSUME NEW j \in Kinds, Crash \/ CrashWhileSaving(j) \/ List(j) PROVE FALSE
  BY <1>5 DEF Crash, CrashWhileSaving, List, Faultless, files
<1>6. ASSUME NEW j \in {"profile"}, NEW m, Save(j, m) PROVE disk'[k] = disk[k]
  BY <1>6 DEF Save, Faultless, IInv, TypeOK
<1>7. ASSUME NEW m \in Names, NEW s \in Scheds, Edit(m, s) PROVE FALSE
  BY <1>6, <1>7 DEF Edit, files
<1>8. ASSUME NEW m \in Names, NEW a \in BOOLEAN, SetActivity(m, a) PROVE FALSE
  BY <1>6, <1>8 DEF SetActivity, files
<1>9. ASSUME NEW m \in Names, NEW d \in Records, Run(m, d) PROVE FALSE
  BY <1>6, <1>9 DEF Run, Merge, files
<1>10. ASSUME NEW j \in Kinds, NEW m \in Names, NEW s \in Scheds, New(j, m, s)
       PROVE  New(k, n, s)
  BY <1>2, <1>10
<1>11. ASSUME NEW j \in Kinds, NEW D \in SUBSET Names, Delete(j, D)
       PROVE  /\ Delete(k, D)
              /\ n \notin D => mem[k][n] = Template /\ disk'[k][n] = tpl[k]
  BY <1>3, <1>11
<1>12. CASE Next
  BY <1>4, <1>5, <1>7, <1>8, <1>9, <1>10, <1>11, <1>12 DEF Next
<1> QED  BY <1>1, <1>12

\* No release or group is lost or changed but by a request that names it or by
\* the template's spread.
THEOREM StoredRecordsFate == ASSUME Faultless PROVE Spec => StoredRecordFate
<1>1. ~SavesMayFail
  BY DEF Faultless
<1>2. IInv /\ Agreement /\ UsableIsLoaded /\ ProfileFileFirst /\ [Next]_vars =>
        [\A k \in Kinds \ {"profile"}, n \in Names : disk'[k][n] # disk[k][n] =>
          \/ \E s \in Scheds : New(k, n, s)
          \/ \E D \in SUBSET Names :
                /\ Delete(k, D)
                /\ n \notin D => mem[k][n] = Template /\ disk'[k][n] = tpl[k]]_vars
  BY StoredRecordFateStep
<1> QED  BY <1>1, <1>2, InvariantHolds, AgreementHolds, UsableHolds, ProfileFileFirstHolds,
            PTL DEF Spec, StoredRecordFate

\* A start of the server, whenever the last one was killed, loses no record,
\* provided no save ever failed without writing anything.
THEOREM RestartsKeepRecords == ASSUME ~SavesMayFail PROVE Spec => RestartKeepsRecords
<1>1. ASSUME IInv, ProfileFileFirst, [Next]_vars, ~up, NEW k \in Kinds, NEW n \in Names,
             disk[k][n] # Nil
      PROVE  disk'[k][n] = disk[k][n]
  <2>1. ~NoStorage
    BY <1>1 DEF ProfileFileFirst, IInv, Backed, EmptyMap
  <2>2. CASE UNCHANGED vars
    BY <2>2 DEF vars
  <2>3. CASE Boot \/ BootCrash
    BY <2>1, <2>3 DEF Boot, BootCrash, files
  <2> QED  BY <1>1, <2>2, <2>3
           DEF Next, Crash, CrashWhileSaving, List, New, Delete, Edit, SetActivity, Run
<1>2. IInv /\ ProfileFileFirst /\ [Next]_vars =>
        [~up => \A k \in Kinds, n \in Names : disk[k][n] # Nil => disk'[k][n] = disk[k][n]]_vars
  BY <1>1
<1> QED  BY <1>2, InvariantHolds, ProfileFileFirstHolds, PTL DEF Spec, RestartKeepsRecords

\* Whatever fails, an unusable file becomes usable only when a loaded map is
\* written over it, or when makeStorage makes the whole storage.
THEOREM NoSilentResets == Spec => NoSilentReset
<1>1. ASSUME IInv, [Next]_vars, NEW k \in Kinds, file[k] # "ok", file'[k] = "ok", ~NoStorage
      PROVE  loaded[k]
  <2> SUFFICES ASSUME ~loaded[k] PROVE FALSE
    OBVIOUS
  <2>1. ~UNCHANGED files
    BY <1>1 DEF files
  <2>2. ASSUME NEW j \in Kinds, Tear(j) PROVE FALSE
    BY <1>1, <2>2 DEF Tear, IInv, TypeOK
  <2>3. ASSUME NEW j \in Kinds, NEW m, Save(j, m) PROVE j = k
    BY <1>1, <2>1, <2>3 DEF Save, Tear, IInv, TypeOK
  <2>4. ASSUME NEW j \in Kinds, NEW r, Merge(j, r) PROVE FALSE
    BY <1>1, <2>1, <2>3, <2>4 DEF Merge
  <2>5. ASSUME NEW n \in Names, NEW s \in Scheds, Edit(n, s) PROVE FALSE
    BY <2>1, <2>3, <2>5 DEF Edit, Kinds
  <2>6. ASSUME NEW n \in Names, NEW a \in BOOLEAN, SetActivity(n, a) PROVE FALSE
    BY <1>1, <2>1, <2>3, <2>6 DEF SetActivity, Kinds
  <2>7. ASSUME NEW n \in Names, NEW d \in Records, Run(n, d) PROVE FALSE
    BY <2>1, <2>4, <2>7 DEF Run, Kinds
  <2>8. ASSUME NEW j \in Kinds, NEW n \in Names, NEW s \in Scheds, New(j, n, s) PROVE FALSE
    BY <2>1, <2>4, <2>8 DEF New
  <2>9. ASSUME NEW j \in Kinds, NEW D \in SUBSET Names, Delete(j, D) PROVE FALSE
    <3>1. CASE loaded[j]
      BY <2>3, <2>9, <3>1 DEF Delete
    <3>2. CASE ~loaded[j]
      BY <2>1, <2>2, <2>9, <3>2 DEF Delete
    <3> QED  BY <3>1, <3>2
  <2>10. ASSUME NEW j \in Kinds, CrashWhileSaving(j) \/ List(j) PROVE FALSE
    BY <2>1, <2>2, <2>10 DEF CrashWhileSaving, List, files
  <2>11. ASSUME Boot \/ BootCrash \/ Crash \/ UNCHANGED vars PROVE FALSE
    BY <1>1, <2>1, <2>11 DEF Boot, BootCrash, Crash, vars, files
  <2> QED  BY <1>1, <2>5, <2>6, <2>7, <2>8, <2>9, <2>10, <2>11 DEF Next
<1>2. IInv /\ [Next]_vars =>
        [\A k \in Kinds : file[k] # "ok" /\ file'[k] = "ok" /\ ~NoStorage => loaded[k]]_vars
  BY <1>1
<1> QED  BY <1>2, InvariantHolds, PTL DEF Spec, NoSilentReset

LEMMA MergeKeepsOthers ==
  ASSUME IInv, ~SavesMayTear, NEW k \in Kinds, NEW r, NEW n \in Names, r.name = n, Merge(k, r)
  PROVE  OthersStay(k, n)
<1>1. UNCHANGED files \/ disk' = [disk EXCEPT ![k] = [disk[k] EXCEPT ![n] = r]]
  BY DEF Merge, Save
<1> QED  BY <1>1 DEF OthersStay, files, IInv, TypeOK

\* The merge of one record changes no other name, whether it fails or not, as
\* long as it does not stop halfway.
THEOREM SingleWritesKeepTheOthers == ASSUME ~SavesMayTear PROVE Spec => SingleWritesKeepOthers
<1>1. ASSUME IInv, NEW k \in Kinds, NEW n \in Names, NEW s \in Scheds, New(k, n, s)
      PROVE  OthersStay(k, n)
  <2>1. CASE ~loaded[k]
    BY <1>1, <2>1 DEF New, files, OthersStay
  <2>2. CASE loaded[k]
    <3>1. Filled(k, n, s).name = n /\ Merge(k, Filled(k, n, s))
      BY <1>1, <2>2, FilledIsRecord DEF IInv, New
    <3> QED  BY <1>1, <3>1, MergeKeepsOthers
  <2> QED  BY <2>1, <2>2
<1>2. ASSUME IInv, NEW n \in Names, NEW d \in Records, Run(n, d)
      PROVE  OthersStay("profile", d.name)
  <2>1. CASE UNCHANGED files
    BY <2>1 DEF files, OthersStay
  <2>2. CASE Merge("profile", d)
    <3>1. d.name \in Names /\ "profile" \in Kinds
      BY DEF Records, Kinds
    <3> QED  BY <1>2, <2>2, <3>1, MergeKeepsOthers
  <2> QED  BY <1>2, <2>1, <2>2 DEF Run
<1>3. ASSUME IInv, NEW n \in Names, NEW a \in BOOLEAN, SetActivity(n, a), disk' # disk
      PROVE  OthersStay("profile", OwnName(n))
  <2>1. Save("profile", [disk["profile"] EXCEPT ![OwnName(n)].act = a])
    BY <1>3 DEF SetActivity, files
  <2>2. \/ UNCHANGED files
        \/ disk' = [disk EXCEPT !["profile"] = [disk["profile"] EXCEPT ![OwnName(n)].act = a]]
    BY <2>1 DEF Save
  <2>3. "profile" \in Kinds
    BY DEF Kinds
  <2> QED  BY <1>3, <2>2, <2>3 DEF OthersStay, files, IInv, TypeOK
<1> DEFINE Claim ==
      /\ \A k \in Kinds, n \in Names, s \in Scheds : OthersStay(k, n) \/ ~New(k, n, s)
      /\ \A n \in Names, d \in Records : OthersStay("profile", d.name) \/ ~Run(n, d)
      /\ \A n \in Names, a \in BOOLEAN : pool[n] # Nil =>
            OthersStay("profile", OwnName(n)) \/ ~SetActivity(n, a)
<1>4. IInv /\ [Next]_vars => [disk' # disk => Claim]_vars
  BY <1>1, <1>2, <1>3
<1> QED  BY <1>4, InvariantHolds, PTL DEF Spec, SingleWritesKeepOthers

-----------------------------------------------------------------------------
(* If every save succeeds, the stores of the releases and of the groups    *)
(* each implement a Catalog.  The argument is made once, for a kind k,     *)
(* with the formulae of Catalog written out for k; its two instances are   *)
(* then matters of definition.                                             *)


Stores == Kinds \ {"profile"}

ShownDisk(k) == ShownMap(disk[k])
Latest(k) == Shown(tpl[k])
catalog(k) == <<loaded[k], ShownDisk(k), Latest(k), Kin(k)>>

Opens(k) ==
    ~loaded[k] /\ loaded'[k] = TRUE
        /\ UNCHANGED <<ShownDisk(k), Latest(k), Kin(k)>>

Closes(k) ==
    loaded[k] /\ loaded'[k] = FALSE /\ Latest(k)' = Nil /\ Kin(k)' = {}
        /\ UNCHANGED ShownDisk(k)

Creates(k, n, s) ==
    loaded[k] /\ loaded'[k] = loaded[k]
        /\ ShownDisk(k)' = [ShownDisk(k) EXCEPT ![n] = [name |-> n, sched |-> s]]
        /\ Latest(k)' = [name |-> n, sched |-> s]
        /\ Kin(k)' = Kin(k) \cup {n}

Removes(k, D) ==
    loaded[k] /\ loaded'[k] = loaded[k]
        /\ ShownDisk(k)' = [n \in Names |-> CASE n \in D           -> Nil
                                              [] n \in Kin(k) \ D  -> Latest(k)
                                              [] OTHER             -> ShownDisk(k)[n]]
        /\ Kin(k)' = Kin(k) \ D
        /\ Latest(k)' = Latest(k)

Rereads(k) ==
    loaded[k] /\ loaded'[k] = loaded[k] /\ Kin(k)' = {}
        /\ UNCHANGED <<ShownDisk(k), Latest(k)>>

\* What others than its clients can do to the catalogue of k.
Leaves(k) == UNCHANGED catalog(k) \/ Closes(k)

CatalogStep(k) ==
    \/ Leaves(k)
    \/ Opens(k)
    \/ \E n \in Names, s \in Scheds : Creates(k, n, s)
    \/ \E D \in SUBSET Names : Removes(k, D)
    \/ Rereads(k)

\* A kind that is not loaded has no template: it was never filled, since filling
\* it needs the map, and a loaded map is only lost with the process.
NoLatestUnloaded == \A k \in Stores : ~loaded[k] => tpl[k] = Nil

\* What keeps it so.
LatestGoes(k) == tpl'[k] = Nil \/ loaded'[k] \/ (tpl'[k] = tpl[k] /\ loaded'[k] = loaded[k])

-----------------------------------------------------------------------------
(* What each action does to the catalogue of a kind *)

LEMMA UnloadedIsEmpty ==
    ASSUME IInv, NoLatestUnloaded, NEW k \in Stores, ~loaded[k]
    PROVE  Latest(k) = Nil /\ Kin(k) = {}
  BY MarkerAssumption DEF NoLatestUnloaded, Stores, IInv, Backed, EmptyMap, Latest, Shown, Kin

\* The end of the process closes every catalogue that is open.
LEMMA DieCloses ==
    ASSUME IInv, NoLatestUnloaded, Die, NEW k \in Stores, ShownDisk(k)' = ShownDisk(k)
    PROVE  Leaves(k) /\ LatestGoes(k)
<1>1. loaded'[k] = FALSE /\ tpl'[k] = Nil /\ mem'[k] = EmptyMap
  BY DEF Die, Everywhere, Stores
<1>2. Latest(k)' = Nil /\ Kin(k)' = {}
  BY <1>1, MarkerAssumption DEF Latest, Shown, Kin, EmptyMap
<1>3. CASE loaded[k]
  BY <1>1, <1>2, <1>3 DEF Leaves, Closes, LatestGoes
<1>4. CASE ~loaded[k]
  <2>1. loaded[k] = FALSE
    BY <1>4 DEF IInv, TypeOK, Stores
  <2> QED  BY <1>1, <1>2, <1>4, <2>1, UnloadedIsEmpty DEF Leaves, catalog, LatestGoes
<1> QED  BY <1>3, <1>4

\* A step that leaves the kind alone.
LEMMA AloneStutters ==
    ASSUME NEW k \in Stores, loaded'[k] = loaded[k], disk'[k] = disk[k], mem'[k] = mem[k],
           tpl'[k] = tpl[k]
    PROVE  UNCHANGED catalog(k) /\ Leaves(k) /\ LatestGoes(k)
  BY DEF LatestGoes, Leaves, catalog, ShownDisk, ShownMap, Latest, Shown, Kin

LEMMA BootStep ==
    ASSUME Faultless, IInv, IInv', NoLatestUnloaded, ProfileFileFirst, Boot \/ BootCrash,
           NEW k \in Stores
    PROVE  /\ IF loaded'[k] THEN Boot /\ Opens(k) ELSE UNCHANGED catalog(k)
           /\ LatestGoes(k)
<1>1. disk'[k] = disk[k]
  <2>1. CASE NoStorage
    <3>1. disk[k] = EmptyMap
      BY <2>1 DEF ProfileFileFirst, IInv, Backed, Stores
    <3>2. disk'[k] = EmptyMap
      BY <2>1, <3>1 DEF Boot, BootCrash, MakeStorage, Stores
    <3> QED  BY <3>1, <3>2
  <2>2. CASE ~NoStorage
    BY <2>2 DEF Boot, BootCrash, files
  <2> QED  BY <2>1, <2>2
<1>2. ShownDisk(k)' = ShownDisk(k)
  BY <1>1 DEF ShownDisk, ShownMap, Shown
<1>3. ~loaded[k] /\ loaded[k] = FALSE
  BY DEF Boot, BootCrash, IInv, Backed, Everywhere, Stores
<1>4. CASE Boot
  <2>1. tpl' = tpl /\ mem'[k] = disk'[k] /\ loaded'[k] \in BOOLEAN
    BY <1>4 DEF Boot, Stores
  <2>2. Kin(k)' = {} /\ Latest(k)' = Latest(k)
    BY <2>1, MarkerAssumption DEF Kin, Latest, Shown, IInv, TypeOK, Stores
  <2>3. Kin(k) = {}
    BY <1>3, UnloadedIsEmpty
  <2>4. LatestGoes(k)
    BY <1>3, <2>1 DEF LatestGoes, NoLatestUnloaded
  <2>5. CASE loaded'[k]
    BY <1>2, <1>3, <1>4, <2>1, <2>2, <2>3, <2>4, <2>5 DEF Opens
  <2>6. CASE ~loaded'[k]
    <3>1. loaded'[k] = loaded[k]
      BY <1>3, <2>1, <2>6
    <3> QED  BY <1>2, <2>2, <2>3, <2>4, <2>6, <3>1 DEF catalog
  <2> QED  BY <2>5, <2>6
<1>5. CASE BootCrash
  BY <1>1, <1>3, <1>5, AloneStutters DEF BootCrash, memory
<1> QED  BY <1>4, <1>5

LEMMA NewCreates ==
    ASSUME Faultless, IInv, Agreement, NEW k \in Stores, loaded[k],
           NEW n \in Names, NEW s \in Scheds, New(k, n, s)
    PROVE  Creates(k, n, s)
<1> DEFINE r == Filled(k, n, s)
<1>1. r \in Records /\ r.name = n /\ r.sched = s
  BY FilledIsRecord DEF IInv, Filled, Stores
<1>2. file[k] = "ok"
  BY DEF Agreement, ListedIsStored, Stores
<1>3. /\ mem' = [mem EXCEPT ![k][n] = Template]
      /\ disk' = [disk EXCEPT ![k] = [disk[k] EXCEPT ![n] = r]]
      /\ tpl' = [tpl EXCEPT ![k] = r]
      /\ loaded' = loaded
  BY <1>1, <1>2 DEF New, Merge, Save, Faultless
<1> HIDE DEF r
<1>4. /\ mem'[k] = [mem[k] EXCEPT ![n] = Template]
      /\ disk'[k] = [disk[k] EXCEPT ![n] = r]
      /\ tpl'[k] = r
      /\ mem[k] \in [Names -> Cells] /\ disk[k] \in [Names -> Records \cup {Nil}]
  BY <1>3 DEF IInv, TypeOK, Stores
<1>5. Shown(r) = [name |-> n, sched |-> s]
  BY <1>1, MarkerAssumption DEF Shown
<1>6. Latest(k)' = [name |-> n, sched |-> s]
  BY <1>4, <1>5 DEF Latest, Shown
<1>7. Kin(k)' = Kin(k) \cup {n}
  BY <1>4 DEF Kin
<1>8. ShownDisk(k)' = [ShownDisk(k) EXCEPT ![n] = [name |-> n, sched |-> s]]
  <2>1. ShownDisk(k)' = [m \in Names |-> Shown(disk'[k][m])]
    BY DEF ShownDisk, ShownMap, Shown
  <2>2. \A m \in Names : Shown(disk'[k][m]) = IF m = n THEN [name |-> n, sched |-> s]
                                             ELSE Shown(disk[k][m])
    BY <1>4, <1>5
  <2>3. ShownDisk(k) = [m \in Names |-> Shown(disk[k][m])]
    BY DEF ShownDisk, ShownMap
  <2> QED  BY <2>1, <2>2, <2>3
<1> QED  BY <1>3, <1>6, <1>7, <1>8 DEF Creates

\* A form for another kind leaves k alone or ends the server.
LEMMA NewLeaves ==
    ASSUME IInv, NoLatestUnloaded, NEW k \in Stores, NEW j \in Kinds, j # k \/ ~loaded[j],
           NEW n \in Names, NEW s \in Scheds, New(j, n, s)
    PROVE  Leaves(k) /\ LatestGoes(k)
<1>1. CASE ~loaded[j]
  BY <1>1, DieCloses DEF New, files, ShownDisk, ShownMap
<1>2. CASE loaded[j]
  <2>1. /\ mem' = [mem EXCEPT ![j][n] = Template]
        /\ tpl' = [tpl EXCEPT ![j] = Filled(j, n, s)]
        /\ loaded' = loaded
    BY <1>2 DEF New
  <2>2. disk'[k] = disk[k]
    BY <1>2 DEF New, Merge, Save, Tear, files, IInv, TypeOK, Stores
  <2> QED  BY <1>2, <2>1, <2>2, AloneStutters DEF IInv, TypeOK, Stores
<1> QED  BY <1>1, <1>2

LEMMA NewStep ==
    ASSUME Faultless, IInv, Agreement, NoLatestUnloaded,
           NEW j \in Kinds, NEW n \in Names, NEW s \in Scheds, New(j, n, s), NEW k \in Stores
    PROVE  CatalogStep(k) /\ LatestGoes(k)
<1>1. CASE j # k \/ ~loaded[j]
  BY <1>1, NewLeaves DEF CatalogStep
<1>2. CASE j = k /\ loaded[j]
  <2>1. Creates(k, n, s)
    BY <1>2, NewCreates
  <2> QED  BY <1>2, <2>1 DEF Creates, CatalogStep, LatestGoes
<1> QED  BY <1>1, <1>2

LEMMA DeleteRemoves ==
    ASSUME Faultless, IInv, Agreement, NEW k \in Stores, loaded[k],
           NEW D \in SUBSET Names, Delete(k, D)
    PROVE  Removes(k, D)
<1>1. /\ mem' = [mem EXCEPT ![k] = Remaining(k, D)]
      /\ disk' = [disk EXCEPT ![k] = Written(k, Remaining(k, D))]
      /\ loaded' = loaded /\ tpl' = tpl
  BY DEF Delete, Save, Faultless
<1>2. mem'[k] = Remaining(k, D) /\ disk'[k] = Written(k, Remaining(k, D))
  BY <1>1 DEF IInv, TypeOK, Stores
<1>3. Kin(k)' = Kin(k) \ D
  BY <1>2, MarkerAssumption DEF Kin, Remaining
<1>4. Latest(k)' = Latest(k)
  BY <1>1 DEF Latest, Shown
<1>5. ASSUME NEW n \in Names
      PROVE  Shown(disk'[k][n]) = CASE n \in D           -> Nil
                                    [] n \in Kin(k) \ D  -> Latest(k)
                                    [] OTHER             -> Shown(disk[k][n])
  <2>1. disk'[k][n] = Val(k, IF n \in D THEN Nil ELSE mem[k][n])
    BY <1>2 DEF Written, Remaining
  <2>2. CASE n \in D
    BY <2>1, <2>2, MarkerAssumption DEF Val, Shown
  <2>3. CASE n \in Kin(k) \ D
    BY <2>1, <2>3 DEF Val, Kin, Latest
  <2>4. CASE n \notin D /\ n \notin Kin(k)
    <3>1. disk'[k][n] = mem[k][n] /\ mem[k][n] # Template
      BY <2>1, <2>4 DEF Val, Kin
    <3>2. disk[k][n] = mem[k][n]
      BY <3>1 DEF IInv, TypeOK, Cells, Agreement, MapMatchesFile, Stores
    <3> QED  BY <2>4, <3>1, <3>2
  <2> QED  BY <2>2, <2>3, <2>4
<1>6. ShownDisk(k)' = [n \in Names |-> CASE n \in D           -> Nil
                                         [] n \in Kin(k) \ D  -> Latest(k)
                                         [] OTHER             -> ShownDisk(k)[n]]
  <2>1. ShownDisk(k)' = [m \in Names |-> Shown(disk'[k][m])]
    BY DEF ShownDisk, ShownMap, Shown
  <2>2. \A m \in Names : ShownDisk(k)[m] = Shown(disk[k][m])
    BY DEF ShownDisk, ShownMap
  <2> QED  BY <1>5, <2>1, <2>2
<1> QED  BY <1>1, <1>3, <1>4, <1>6 DEF Removes

LEMMA DeleteLeaves ==
    ASSUME Faultless, IInv, UsableIsLoaded, NoLatestUnloaded, NEW k \in Stores,
           NEW j \in Kinds, j # k \/ ~loaded[j], NEW D \in SUBSET Names, Delete(j, D)
    PROVE  Leaves(k) /\ LatestGoes(k)
<1>1. CASE ~loaded[j] /\ D # {}
  BY <1>1, DieCloses DEF Delete, files, ShownDisk, ShownMap
<1>2. CASE ~loaded[j] /\ D = {}
  <2>1. Tear(j) /\ UNCHANGED memory /\ up
    BY <1>2 DEF Delete, Faultless
  <2>2. file[j] # "ok"
    BY <1>2, <2>1 DEF UsableIsLoaded
  <2>3. disk'[k] = disk[k]
    BY <2>1, <2>2 DEF Tear, IInv, TypeOK, Backed, Stores
  <2> QED  BY <2>1, <2>3, AloneStutters DEF memory
<1>3. CASE loaded[j]
  <2>1. /\ mem' = [mem EXCEPT ![j] = Remaining(j, D)]
        /\ disk' = [disk EXCEPT ![j] = Written(j, Remaining(j, D))]
        /\ loaded' = loaded /\ tpl' = tpl
    BY <1>3 DEF Delete, Save, Faultless
  <2> QED  BY <1>3, <2>1, AloneStutters DEF IInv, TypeOK, Stores
<1> QED  BY <1>1, <1>2, <1>3

LEMMA DeleteStep ==
    ASSUME Faultless, IInv, Agreement, UsableIsLoaded, NoLatestUnloaded,
           NEW j \in Kinds, NEW D \in SUBSET Names, Delete(j, D), NEW k \in Stores
    PROVE  CatalogStep(k) /\ LatestGoes(k)
<1>1. CASE j # k \/ ~loaded[j]
  BY <1>1, DeleteLeaves DEF CatalogStep
<1>2. CASE j = k /\ loaded[j]
  <2>1. Removes(k, D)
    BY <1>2, DeleteRemoves
  <2> QED  BY <1>2, <2>1 DEF Removes, CatalogStep, LatestGoes
<1> QED  BY <1>1, <1>2

LEMMA ListStep ==
    ASSUME IInv, Agreement, UsableIsLoaded, NEW j \in Kinds, List(j), NEW k \in Stores
    PROVE  /\ IF Reloaded(j) = k /\ loaded[k] THEN Rereads(k) ELSE UNCHANGED catalog(k)
           /\ LatestGoes(k)
<1> DEFINE r == Reloaded(j)
<1>1. /\ loaded' = [loaded EXCEPT ![r] = file[r] = "ok"]
      /\ mem' = [mem EXCEPT ![r] = disk[r]]
      /\ UNCHANGED <<disk, tpl>> /\ up
  BY DEF List
<1> HIDE DEF r
<1>2. CASE r # k
  <2>1. UNCHANGED catalog(k) /\ LatestGoes(k)
    BY <1>1, <1>2, AloneStutters DEF IInv, TypeOK, Stores
  <2> QED  BY <1>2, <2>1 DEF r
<1>3. CASE r = k
  <2>1. loaded'[k] = loaded[k] /\ mem'[k] = disk[k]
    BY <1>1, <1>3 DEF Agreement, ListedIsStored, UsableIsLoaded, IInv, TypeOK, Stores
  <2>2. Kin(k)' = {}
    BY <2>1, MarkerAssumption DEF Kin, IInv, TypeOK, Stores
  <2>3. ShownDisk(k)' = ShownDisk(k) /\ Latest(k)' = Latest(k)
    BY <1>1 DEF ShownDisk, ShownMap, Latest, Shown
  <2>4. ~loaded[k] => Kin(k) = {}
    BY MarkerAssumption DEF IInv, Backed, EmptyMap, Kin, Stores
  <2>5. LatestGoes(k)
    BY <1>1, <2>1 DEF LatestGoes
  <2>6. IF loaded[k] THEN Rereads(k) ELSE UNCHANGED catalog(k)
    BY <2>1, <2>2, <2>3, <2>4 DEF Rereads, catalog
  <2> QED  BY <1>3, <2>5, <2>6 DEF r
<1> QED  BY <1>2, <1>3

\* Edits, alarms and runs write the file of the profiles, or end the process.
LEMMA ProfileStep ==
    ASSUME Faultless, IInv, NoLatestUnloaded, NEW k \in Stores,
           \/ \E n \in Names, s \in Scheds : Edit(n, s)
           \/ \E n \in Names, a \in BOOLEAN : SetActivity(n, a)
           \/ \E n \in Names, d \in Records : Run(n, d)
    PROVE  Leaves(k) /\ LatestGoes(k)
<1>1. ASSUME NEW m, Save("profile", m) PROVE disk'[k] = disk[k]
  BY <1>1 DEF Save, Faultless, IInv, TypeOK, Stores
<1>2. ASSUME UNCHANGED files PROVE disk'[k] = disk[k] /\ ShownDisk(k)' = ShownDisk(k)
  BY <1>2 DEF files, ShownDisk, ShownMap
<1>3. ASSUME Die, UNCHANGED files PROVE Leaves(k) /\ LatestGoes(k)
  BY <1>2, <1>3, DieCloses
<1>4. ASSUME NEW n \in Names, NEW s \in Scheds, Edit(n, s)
      PROVE  Leaves(k) /\ LatestGoes(k)
  <2>1. CASE ~loaded["profile"] \/ mem["profile"][n] = Nil
    BY <1>3, <1>4, <2>1 DEF Edit
  <2>2. CASE ~(~loaded["profile"] \/ mem["profile"][n] = Nil)
    <3>1. disk'[k] = disk[k] /\ loaded' = loaded
      BY <1>1, <1>4, <2>2 DEF Edit
    <3>2. tpl'[k] = tpl[k] /\ mem'[k] = mem[k]
      BY <1>4, <2>2 DEF Edit, IInv, TypeOK, Stores
    <3> QED  BY <3>1, <3>2, AloneStutters
  <2> QED  BY <2>1, <2>2
<1>5. ASSUME NEW n \in Names, NEW a \in BOOLEAN, SetActivity(n, a)
      PROVE  Leaves(k) /\ LatestGoes(k)
  <2> DEFINE dies == \/ pool[n] = Nil
                     \/ file["profile"] # "ok"
                     \/ disk["profile"][OwnName(n)] = Nil
  <2>1. CASE dies
    BY <1>3, <1>5, <2>1 DEF SetActivity
  <2>2. CASE ~dies
    <3>1. disk'[k] = disk[k] /\ loaded' = loaded
      BY <1>1, <1>5, <2>2 DEF SetActivity
    <3>2. tpl'[k] = tpl[k] /\ mem'[k] = mem[k]
      BY <1>5, <2>2 DEF SetActivity, IInv, TypeOK, Stores
    <3> QED  BY <3>1, <3>2, AloneStutters
  <2> QED  BY <2>1, <2>2
<1>6. ASSUME NEW n \in Names, NEW d \in Records, Run(n, d)
      PROVE  Leaves(k) /\ LatestGoes(k)
  <2>1. CASE pool[n] = Nil
    BY <1>3, <1>6, <2>1 DEF Run
  <2>2. CASE pool[n] # Nil
    <3>1. disk'[k] = disk[k] /\ UNCHANGED <<loaded, mem, tpl>>
      BY <1>1, <1>2, <1>6, <2>2 DEF Run, Merge
    <3> QED  BY <3>1, AloneStutters
  <2> QED  BY <2>1, <2>2
<1> QED  BY <1>4, <1>5, <1>6
-----------------------------------------------------------------------------
(* Every step, and the theorems *)

LEMMA StepRefines ==
    ASSUME Faultless, IInv, IInv', Agreement, UsableIsLoaded, ProfileFileFirst,
           NoLatestUnloaded, [Next]_vars, NEW k \in Stores
    PROVE  CatalogStep(k) /\ LatestGoes(k)
<1>1. CASE Boot \/ BootCrash
  BY <1>1, BootStep DEF CatalogStep, Leaves
<1>2. ASSUME NEW j \in Kinds, NEW n \in Names, NEW s \in Scheds, New(j, n, s)
      PROVE  CatalogStep(k) /\ LatestGoes(k)
  BY <1>2, NewStep
<1>3. ASSUME NEW j \in Kinds, NEW D \in SUBSET Names, Delete(j, D)
      PROVE  CatalogStep(k) /\ LatestGoes(k)
  BY <1>3, DeleteStep
<1>4. ASSUME NEW j \in Kinds, List(j) PROVE CatalogStep(k) /\ LatestGoes(k)
  BY <1>4, ListStep DEF CatalogStep, Leaves
<1>5. CASE Crash
  BY <1>5, DieCloses DEF Crash, files, ShownDisk, ShownMap, CatalogStep
<1>6. \A j \in Kinds : ~CrashWhileSaving(j)
  BY DEF CrashWhileSaving, Faultless
<1>7. CASE UNCHANGED vars
  BY <1>7, AloneStutters DEF vars, CatalogStep
<1>8. CASE \/ \E n \in Names, s \in Scheds : Edit(n, s)
           \/ \E n \in Names, a \in BOOLEAN : SetActivity(n, a)
           \/ \E n \in Names, d \in Records : Run(n, d)
  BY <1>8, ProfileStep DEF CatalogStep
<1> QED  BY <1>1, <1>2, <1>3, <1>4, <1>5, <1>6, <1>7, <1>8 DEF Next

LEMMA NoLatestUnloadedKept ==
    ASSUME Faultless, IInv, IInv', Agreement, UsableIsLoaded, ProfileFileFirst,
           NoLatestUnloaded, [Next]_vars
    PROVE  NoLatestUnloaded'
<1> SUFFICES ASSUME NEW k \in Stores, ~loaded'[k] PROVE tpl'[k] = Nil
  BY DEF NoLatestUnloaded
<1>1. LatestGoes(k)
  BY StepRefines
<1> QED  BY <1>1 DEF LatestGoes, NoLatestUnloaded

LEMMA NoLatestUnloadedHolds == ASSUME Faultless PROVE Spec => []NoLatestUnloaded
<1>1. ~SavesMayFail
  BY DEF Faultless
<1>2. Init => NoLatestUnloaded
  BY DEF Init, NoLatestUnloaded, Everywhere, Stores
<1>3. IInv /\ IInv' /\ Agreement /\ UsableIsLoaded /\ ProfileFileFirst /\ NoLatestUnloaded
        /\ [Next]_vars => NoLatestUnloaded'
  BY NoLatestUnloadedKept
<1> QED  BY <1>1, <1>2, <1>3, InvariantHolds, AgreementHolds, UsableHolds,
            ProfileFileFirstHolds, PTL DEF Spec

\* Every entry is absent and nothing was created.
LEMMA InitRefines ==
    ASSUME Init, NEW k \in Stores
    PROVE  /\ loaded[k] = FALSE /\ ShownDisk(k) = [n \in Names |-> Nil]
           /\ Latest(k) = Nil /\ Kin(k) = {}
  BY MarkerAssumption
     DEF Init, Everywhere, EmptyMap, ShownDisk, ShownMap, Latest, Shown, Kin, Stores

\* The releases as clients see them are a Catalog: new_release_profile,
\* delete_release_profile and restarts of the server are its only steps, and
\* what happens to profiles and groups does not show.
THEOREM ReleasesImplementCatalog == ASSUME Faultless PROVE Spec => ReleasesAreACatalog
<1>1. ~SavesMayFail
  BY DEF Faultless
<1>2. Init => Releases!Init
  <2>1. "release" \in Stores
    BY DEF Stores, Kinds
  <2> QED  BY <2>1, InitRefines DEF Releases!Init, ShownDisk, Latest
<1>3. IInv /\ IInv' /\ Agreement /\ UsableIsLoaded /\ ProfileFileFirst /\ NoLatestUnloaded
        /\ [Next]_vars => [Releases!Next]_Releases!cvars
  <2> SUFFICES ASSUME IInv, IInv', Agreement, UsableIsLoaded, ProfileFileFirst,
                      NoLatestUnloaded, [Next]_vars
               PROVE  [Releases!Next]_Releases!cvars
    OBVIOUS
  <2>1. "release" \in Stores
    BY DEF Stores, Kinds
  <2>2. CatalogStep("release")
    BY <2>1, StepRefines
  <2> QED  BY <2>2 DEF CatalogStep, Leaves, catalog, Opens, Closes, Creates, Removes, Rereads, ShownDisk, Latest,
               Releases!Next, Releases!cvars, Releases!Open, Releases!Close, Releases!Create,
               Releases!Remove, Releases!Reread, Releases!Entry
<1> QED  BY <1>1, <1>2, <1>3, InvariantHolds, AgreementHolds, UsableHolds,
            ProfileFileFirstHolds, NoLatestUnloadedHolds, PTL
         DEF Spec, ReleasesAreACatalog, Releases!Spec

\* The groups are a Catalog of their own, with the steps of new_group,
\* delete_group and group_list.
THEOREM GroupsImplementCatalog == ASSUME Faultless PROVE Spec => GroupsAreACatalog
<1>1. ~SavesMayFail
  BY DEF Faultless
<1>2. Init => Groups!Init
  <2>1. "group" \in Stores
    BY DEF Stores, Kinds
  <2> QED  BY <2>1, InitRefines DEF Groups!Init, ShownDisk, Latest
<1>3. IInv /\ IInv' /\ Agreement /\ UsableIsLoaded /\ ProfileFileFirst /\ NoLatestUnloaded
        /\ [Next]_vars => [Groups!Next]_Groups!cvars
  <2> SUFFICES ASSUME IInv, IInv', Agreement, UsableIsLoaded, ProfileFileFirst,
                      NoLatestUnloaded, [Next]_vars
               PROVE  [Groups!Next]_Groups!cvars
    OBVIOUS
  <2>1. "group" \in Stores
    BY DEF Stores, Kinds
  <2>2. CatalogStep("group")
    BY <2>1, StepRefines
  <2> QED  BY <2>2 DEF CatalogStep, Leaves, catalog, Opens, Closes, Creates, Removes, Rereads, ShownDisk, Latest,
               Groups!Next, Groups!cvars, Groups!Open, Groups!Close, Groups!Create,
               Groups!Remove, Groups!Reread, Groups!Entry
<1> QED  BY <1>1, <1>2, <1>3, InvariantHolds, AgreementHolds, UsableHolds,
            ProfileFileFirstHolds, NoLatestUnloadedHolds, PTL
         DEF Spec, GroupsAreACatalog, Groups!Spec
=============================================================================
