-------------------------- MODULE AdminSystemProofs --------------------------
(***************************************************************************)
(* Proofs about AdminSystem, for every number of names, forms, windows,    *)
(* requests and starts, if saves succeed: the windows see a Catalog, and   *)
(* so what AdminPagesProofs proves over the Catalog holds in front of the  *)
(* real handlers, maps, templates and files.                               *)
(***************************************************************************)
EXTENDS AdminSystem, AdminManagerProofs

\* What is proved about the pages over a catalogue.
Promised == INSTANCE AdminPagesProofs WITH
    serving <- loaded[kind], stored <- ShownMap(disk[kind]),
    latest <- Shown(tpl[kind]), kin <- Kin(kind)

\* The invariants of the manager that make the stores catalogues.
Managed == IInv /\ Agreement /\ UsableIsLoaded /\ ProfileFileFirst /\ NoLatestUnloaded

\* No profile has the name of a release.
ProfilesApart ==
    \A n \in Names \ ProfileNames :
        disk["profile"][n] = Nil /\ mem["profile"][n] = Nil /\ pool[n] = Nil

\* What the pages ask to deploy is no profile, ...
DeploysApart ==
    \A r \in asked : r.op = "deploy" =>
        kind = "release" /\ \E n \in Names \ ProfileNames : r.names = {n}

\* ... because no release they make, store or show has the name of one.
Reserved(n) ==
    /\ \A r \in asked : r.op = "make" => n \notin r.names
    /\ ShownMap(disk[kind])[n] = Nil /\ n \notin Kin(kind)
    /\ \A p \in Pages : list[p] # Nil => list[p][n] = Nil
    /\ \A a \in answers : a.list[n] = Nil

ReleasesApart == kind = "release" => \A n \in Names \cap ProfileNames : Reserved(n)

Clients == kind \in Stores /\ others \subseteq Kinds

SystemInv ==
    Managed /\ Clients /\ ProfilesApart /\ DeploysApart /\ ReleasesApart /\ Promised!IInv
-----------------------------------------------------------------------------
(* The catalogue of the pages' kind, as the pages see it *)

LEMMA Seen ==
    ASSUME NEW k \in Stores, kind = k, kind' = k
    PROVE  /\ UNCHANGED catalog(k) => UNCHANGED Page!server
           /\ Opens(k) => Page!Server!Open
           /\ Closes(k) => Page!Server!Close
           /\ Rereads(k) => Page!Server!Reread
           /\ \A n \in Names, s \in Scheds : Creates(k, n, s) => Page!Server!Create(n, s)
           /\ \A D \in SUBSET Names : Removes(k, D) => Page!Server!Remove(D)
<1> USE DEF ShownDisk, Latest
<1>1. UNCHANGED catalog(k) => UNCHANGED Page!server
  BY DEF catalog, Page!server
<1>2. Opens(k) => Page!Server!Open
  BY DEF Opens, Page!Server!Open
<1>3. Closes(k) => Page!Server!Close
  BY DEF Closes, Page!Server!Close
<1>4. Rereads(k) => Page!Server!Reread
  BY DEF Rereads, Page!Server!Reread
<1>5. ASSUME NEW n \in Names, NEW s \in Scheds, Creates(k, n, s) PROVE Page!Server!Create(n, s)
  BY <1>5 DEF Creates, Page!Server!Create, Page!Server!Entry
<1>6. ASSUME NEW D \in SUBSET Names, Removes(k, D) PROVE Page!Server!Remove(D)
  BY <1>6 DEF Removes, Page!Server!Remove
<1> QED  BY <1>1, <1>2, <1>3, <1>4, <1>5, <1>6

\* A step of others closes the server of the pages or does not show.
LEMMA LeavesShow ==
    ASSUME NEW k \in Stores, kind = k, Leaves(k), UNCHANGED pageVars
    PROVE  [Page!Next]_(Page!vars)
<1>1. /\ kind' = k
      /\ UNCHANGED <<kind, starts, served, list, date, asked, answers, count, dialog, stamps,
                     newest, crossed, lost>>
  BY DEF pageVars
<1>2. CASE UNCHANGED catalog(k)
  BY <1>1, <1>2, Seen DEF Page!vars, Page!history
<1>3. CASE Closes(k)
  <2>1. Page!Stop
    BY <1>1, <1>3, Seen DEF Page!Stop, Page!history
  <2> QED  BY <2>1 DEF Page!Next
<1> QED  BY <1>2, <1>3 DEF Leaves

\* What is on its way is a request of a page.
LEMMA RequestShape ==
    ASSUME SystemInv, NEW r \in asked
    PROVE  /\ r.op \in {"list", "make", "delete", "deploy"}
           /\ r.names \in SUBSET Names
           /\ r.op = "make" => r.sched \in Scheds /\ \E n \in Names : r.names = {n}
  BY DEF SystemInv, Promised!IInv, Promised!TypeOK, Promised!Requests, Promised!WellAsked
-----------------------------------------------------------------------------
(* The system takes steps of the manager *)

LEMMA HandleIsAStep ==
    ASSUME SystemInv, NEW r \in asked, Handle(r)
    PROVE  Next
<1>1. kind \in Kinds
  BY DEF SystemInv, Clients, Stores
<1>2. CASE r.op = "list"
  <2>1. List(kind)
    BY <1>2 DEF Handle
  <2> QED  BY <1>1, <2>1 DEF Next
<1>3. CASE r.op = "make"
  <2>1. PICK n \in Names : New(kind, n, r.sched)
    BY <1>3, RequestShape DEF Handle
  <2>2. r.sched \in Scheds
    BY <1>3, RequestShape
  <2> QED  BY <1>1, <2>1, <2>2 DEF Next
<1>4. CASE r.op = "delete"
  <2>1. Delete(kind, r.names)
    BY <1>4 DEF Handle
  <2> QED  BY <1>1, <2>1, RequestShape DEF Next
<1>5. CASE r.op = "deploy"
  <2>1. PICK n \in Names : SetActivity(n, FALSE)
    BY <1>5, RequestShape DEF Handle
  <2> QED  BY <2>1 DEF Next
<1> QED  BY <1>2, <1>3, <1>4, <1>5, RequestShape

LEMMA ElsewhereIsAStep ==
    ASSUME Clients, Elsewhere PROVE Next
  BY DEF Elsewhere, Clients, Next

LEMMA ManagerSteps ==
    ASSUME SystemInv, [SystemNext]_systemVars PROVE [Next]_vars
<1>1. CASE Browse
  BY <1>1 DEF Browse
<1>2. ASSUME NEW r \in asked, Serve(r) PROVE Next
  BY <1>2, HandleIsAStep DEF Serve
<1>3. CASE Start
  BY <1>3 DEF Start, Next
<1>4. CASE Fail
  BY <1>4 DEF Fail, Next
<1>5. CASE Elsewhere
  BY <1>5, ElsewhereIsAStep DEF SystemInv
<1>6. CASE UNCHANGED systemVars
  BY <1>6 DEF systemVars
<1> QED  BY <1>1, <1>2, <1>3, <1>4, <1>5, <1>6 DEF SystemNext

LEMMA ManagedKept ==
    ASSUME Faultless, SystemInv, [SystemNext]_systemVars PROVE Managed'
<1>1. [Next]_vars /\ Managed
  BY ManagerSteps DEF SystemInv
<1>2. IInv'
  BY <1>1, NextIInv DEF Managed
<1>3. Agreement' /\ UsableIsLoaded'
  BY <1>1, <1>2, NextAgrees, NextUsable DEF Managed
<1>4. ProfileFileFirst'
  BY <1>1, NextProfileFileFirst DEF Managed, Faultless
<1>5. NoLatestUnloaded'
  BY <1>1, <1>2, NoLatestUnloadedKept DEF Managed
<1> QED  BY <1>2, <1>3, <1>4, <1>5 DEF Managed
-----------------------------------------------------------------------------
(* What a request of a page does *)

\* With a map in memory, the handler does what the Catalog does.
LEMMA ServeLoaded ==
    ASSUME Faultless, SystemInv, NEW k \in Stores, kind = k, loaded[k],
           NEW r \in asked, Serve(r)
    PROVE  Page!Serve(r)
<1>1. Managed /\ kind' = k /\ Handle(r) /\ Page!Answered(r)
  BY DEF SystemInv, Serve
<1>2. k \in Kinds /\ k \in {"release", "group"}
  BY DEF Stores, Kinds
<1>3. CASE r.op = "list"
  <2>1. List(k)
    BY <1>1, <1>3 DEF Handle
  <2>2. IF Reloaded(k) = k /\ loaded[k] THEN Rereads(k) ELSE UNCHANGED catalog(k)
    BY <1>1, <1>2, <2>1, ListStep DEF Managed
  <2>3. IF k = "group" THEN Page!Server!Reread ELSE UNCHANGED Page!server
    BY <1>1, <1>2, <2>2, Seen DEF Reloaded
  <2> QED  BY <1>1, <1>2, <1>3, <2>3 DEF Page!Serve
<1>4. CASE r.op = "make"
  <2>1. PICK n \in Names : r.names = {n} /\ r.sched \in Scheds
    BY <1>4, RequestShape
  <2>2. New(k, n, r.sched)
    BY <1>1, <1>4, <2>1 DEF Handle
  <2>3. Page!Server!Create(n, r.sched)
    BY <1>1, <2>1, <2>2, NewCreates, Seen DEF Managed
  <2> QED  BY <1>1, <1>4, <2>1, <2>3 DEF Page!Serve
<1>5. CASE r.op = "delete"
  <2>1. Delete(k, r.names)
    BY <1>1, <1>5 DEF Handle
  <2>2. Page!Server!Remove(r.names)
    BY <1>1, <2>1, DeleteRemoves, RequestShape, Seen DEF Managed
  <2> QED  BY <1>1, <1>5, <2>2 DEF Page!Serve
<1>6. CASE r.op = "deploy"
  <2>1. PICK n \in Names \ ProfileNames : r.names = {n}
    BY <1>6 DEF SystemInv, DeploysApart
  <2>2. SetActivity(n, FALSE) /\ pool[n] = Nil
    BY <1>1, <1>6, <2>1 DEF Handle, SystemInv, ProfilesApart
  <2>3. Die /\ UNCHANGED files
    BY <2>2 DEF SetActivity
  <2>4. ShownDisk(k)' = ShownDisk(k)
    BY <2>3 DEF files, ShownDisk
  <2>5. Leaves(k) /\ loaded'[k] = FALSE
    BY <1>1, <1>2, <2>3, <2>4, DieCloses DEF Managed, Die, Everywhere
  <2>6. Closes(k)
    BY <2>5 DEF Leaves, catalog
  <2>7. Page!Server!Close
    BY <1>1, <2>6, Seen
  <2> QED  BY <1>1, <1>6, <2>7 DEF Page!Serve
<1> QED  BY <1>3, <1>4, <1>5, <1>6, RequestShape

\* Without one, the request is not answered and the files stay.
LEMMA ServeUnloaded ==
    ASSUME Faultless, SystemInv, NEW k \in Stores, kind = k, ~loaded[k],
           NEW r \in asked, Serve(r)
    PROVE  Page!Refuse(r)
<1>1. Managed /\ kind' = k /\ Handle(r) /\ Page!Unanswered(r)
  BY DEF SystemInv, Serve
<1>2. k \in Kinds
  BY DEF Stores
<1>3. UNCHANGED catalog(k)
  <2>1. ASSUME Leaves(k) PROVE UNCHANGED catalog(k)
    BY <2>1 DEF Leaves, Closes
  <2>2. CASE r.op = "list"
    BY <1>1, <1>2, <2>2, ListStep DEF Managed, Handle
  <2>3. CASE r.op = "make"
    <3>1. PICK n \in Names : New(k, n, r.sched)
      BY <1>1, <2>3, RequestShape DEF Handle
    <3> QED  BY <1>1, <1>2, <2>1, <2>3, <3>1, NewLeaves, RequestShape DEF Managed
  <2>4. CASE r.op = "delete"
    <3>1. Delete(k, r.names)
      BY <1>1, <2>4 DEF Handle
    <3> QED  BY <1>1, <1>2, <2>1, <3>1, DeleteLeaves, RequestShape DEF Managed
  <2>5. CASE r.op = "deploy"
    <3>1. PICK n \in Names : SetActivity(n, FALSE)
      BY <1>1, <2>5, RequestShape DEF Handle
    <3> QED  BY <1>1, <2>1, <3>1, ProfileStep DEF Managed
  <2> QED  BY <2>2, <2>3, <2>4, <2>5, RequestShape
<1> QED  BY <1>1, <1>3, Seen DEF Page!Refuse, Page!Lose
-----------------------------------------------------------------------------
(* What starts, ends and other clients do *)

LEMMA StartOpens ==
    ASSUME Faultless, SystemInv, Managed', NEW k \in Stores, kind = k, Start
    PROVE  IF loaded'[k] THEN Page!Start ELSE UNCHANGED catalog(k) /\ UNCHANGED pageVars
<1>1. /\ kind' = k /\ Boot
      /\ IF loaded'[k]
           THEN starts < MaxStarts /\ starts' = starts + 1 /\ served' = served + 1
           ELSE UNCHANGED <<starts, served>>
      /\ UNCHANGED <<list, date, asked, answers, count, dialog, stamps, newest, crossed, lost>>
  BY DEF Start
<1>2. IF loaded'[k] THEN Opens(k) ELSE UNCHANGED catalog(k)
  BY <1>1, BootStep DEF SystemInv, Managed
<1>3. CASE loaded'[k]
  BY <1>1, <1>2, <1>3, Seen DEF Page!Start, Page!history
<1>4. CASE ~loaded'[k]
  BY <1>1, <1>2, <1>4 DEF pageVars
<1> QED  BY <1>3, <1>4

LEMMA FailLeaves ==
    ASSUME Faultless, SystemInv, Managed', NEW k \in Stores, Fail
    PROVE  Leaves(k)
<1>1. CASE Crash
  BY <1>1, DieCloses DEF Crash, files, ShownDisk, ShownMap, SystemInv, Managed
<1>2. CASE BootCrash
  <2>1. ~loaded[k] /\ loaded' = loaded
    BY <1>2 DEF BootCrash, memory, SystemInv, Managed, IInv, Backed, Everywhere, Stores
  <2> QED  BY <1>2, <2>1, BootStep DEF SystemInv, Managed, Leaves
<1> QED  BY <1>1, <1>2 DEF Fail

LEMMA ElsewhereLeaves ==
    ASSUME Faultless, SystemInv, NEW k \in Stores, kind = k, Elsewhere
    PROVE  Leaves(k)
<1>1. Managed /\ others \subseteq Kinds
  BY DEF SystemInv, Clients
<1>2. ASSUME NEW j \in others \ {k}, List(j) PROVE Leaves(k)
  <2>1. Reloaded(j) # k
    BY <1>2 DEF Reloaded, Stores
  <2> QED  BY <1>1, <1>2, <2>1, ListStep DEF Managed, Leaves
<1>3. ASSUME NEW j \in others \ {k}, NEW D \in SUBSET Names, Delete(j, D) PROVE Leaves(k)
  BY <1>1, <1>3, DeleteLeaves DEF Managed
<1>4. ASSUME NEW j \in others \ {k}, NEW n \in Names, NEW s \in Scheds, New(j, n, s)
      PROVE  Leaves(k)
  BY <1>1, <1>4, NewLeaves DEF Managed
<1>5. CASE \/ \E n \in Names, s \in Scheds : Edit(n, s)
           \/ \E n \in Names, a \in BOOLEAN : SetActivity(n, a)
           \/ \E n \in Names, d \in Records : Run(n, d)
  BY <1>1, <1>5, ProfileStep DEF Managed
<1> QED  BY <1>2, <1>3, <1>4, <1>5 DEF Elsewhere

\* The steps of the windows and of the network are those of AdminPages.
LEMMA BrowseIsAPageStep ==
    ASSUME NEW k \in Stores, kind = k, Browse PROVE Page!Next
<1>1. ASSUME NEW r \in asked, ~up /\ Page!Refuse(r) PROVE Page!Next
  BY <1>1 DEF Page!Next
<1> QED  BY <1>1 DEF Browse, Page!Next

LEMMA PageSteps ==
    ASSUME Faultless, SystemInv, [SystemNext]_systemVars PROVE [Page!Next]_(Page!vars)
<1> SUFFICES ASSUME NEW k \in Stores, kind = k PROVE [Page!Next]_(Page!vars)
  BY DEF SystemInv, Clients
<1>1. CASE Browse
  BY <1>1, BrowseIsAPageStep
<1>2. ASSUME NEW r \in asked, Serve(r) PROVE Page!Next
  BY <1>2, ServeLoaded, ServeUnloaded DEF Page!Next
<1>3. CASE Start
  <2>1. CASE loaded'[k]
    BY <1>3, <2>1, StartOpens, ManagedKept DEF Page!Next, SystemNext
  <2>2. CASE ~loaded'[k]
    BY <1>3, <2>2, StartOpens, ManagedKept, LeavesShow DEF Leaves, SystemNext
  <2> QED  BY <2>1, <2>2
<1>4. CASE Fail
  BY <1>4, FailLeaves, ManagedKept, LeavesShow DEF Fail, SystemNext
<1>5. CASE Elsewhere
  BY <1>5, ElsewhereLeaves, LeavesShow DEF Elsewhere
<1>6. CASE UNCHANGED systemVars
  <2>1. Leaves(k)
    BY <1>6, AloneStutters DEF systemVars, vars
  <2> QED  BY <1>6, <2>1, LeavesShow DEF systemVars
<1> QED  BY <1>1, <1>2, <1>3, <1>4, <1>5, <1>6 DEF SystemNext
-----------------------------------------------------------------------------
(* The pages keep what is proved of them *)

\* Page and Promised instantiate one module in the same way.
LEMMA SameSteps == [Page!Next]_(Page!vars) => [Promised!Next]_(Promised!vars)
  BY DEF Page!Next, Promised!Next, Page!Start, Promised!Start, Page!Stop, Promised!Stop,
         Page!Load, Promised!Load, Page!Cancel, Promised!Cancel,
         Page!Deploy, Promised!Deploy, Page!MakeGroup, Promised!MakeGroup,
         Page!MakeRelease, Promised!MakeRelease, Page!Delete, Promised!Delete,
         Page!Serve, Promised!Serve, Page!Refuse, Promised!Refuse,
         Page!Deliver, Promised!Deliver, Page!Lose, Promised!Lose,
         Page!Unanswered, Promised!Unanswered, Page!Answered, Promised!Answered,
         Page!Replied, Promised!Replied, Page!Reply, Promised!Reply,
         Page!Answer, Promised!Answer, Page!Success, Promised!Success,
         Page!Ready, Promised!Ready, Page!Ask, Promised!Ask,
         Page!Request, Promised!Request, Page!Orphaned, Promised!Orphaned,
         Page!Waiting, Promised!Waiting, Page!Free, Promised!Free,
         Page!Named, Promised!Named, Page!vars, Promised!vars,
         Page!server, Promised!server, Page!history, Promised!history,
         Page!Server!Open, Promised!Server!Open,
         Page!Server!Close, Promised!Server!Close,
         Page!Server!Create, Promised!Server!Create,
         Page!Server!Remove, Promised!Server!Remove,
         Page!Server!Reread, Promised!Server!Reread,
         Page!Server!Entry, Promised!Server!Entry

LEMMA PromisedKept ==
    ASSUME Faultless, SystemInv, [SystemNext]_systemVars PROVE Promised!IInv'
<1>1. Promised!IInv /\ [Promised!Next]_(Promised!vars)
  BY PageSteps, SameSteps DEF SystemInv
<1> QED  BY <1>1, PageAssumption, NoPageAssumption, Promised!StepKeeps
-----------------------------------------------------------------------------
(* Names of profiles and names of releases stay apart *)

LEMMA OwnNameIsAProfile ==
    ASSUME IInv, NEW n \in Names, pool[n] # Nil
    PROVE  OwnName(n) \in Names
<1>1. "profile" \in Kinds
  BY DEF Kinds
<1>2. Val("profile", pool[n]) \in Records
  BY <1>1, MarkerAssumption DEF Val, IInv, TypeOK, Backed, Cells
<1> QED  BY <1>2 DEF OwnName, Records

\* What is written over the file of the profiles, or merged into it, has no
\* entry outside ProfileNames.
LEMMA ApartAfterSave ==
    ASSUME Faultless, IInv, NEW m \in [Names -> Records \cup {Nil}],
           \A n \in Names \ ProfileNames : m[n] = Nil, Save("profile", m)
    PROVE  \A n \in Names \ ProfileNames : disk'["profile"][n] = Nil
  BY DEF Save, Faultless, IInv, TypeOK, Kinds

LEMMA ApartAfterMerge ==
    ASSUME Faultless, IInv, ProfilesApart, NEW r \in Records, r.name \in ProfileNames,
           Merge("profile", r)
    PROVE  \A n \in Names \ ProfileNames : disk'["profile"][n] = Nil
<1> DEFINE m == [disk["profile"] EXCEPT ![r.name] = r]
<1>1. m \in [Names -> Records \cup {Nil}] /\ \A n \in Names \ ProfileNames : m[n] = Nil
  BY DEF IInv, TypeOK, Kinds, ProfilesApart
<1>2. CASE file["profile"] = "ok"
  <2>1. Save("profile", m)
    BY <1>2 DEF Merge
  <2> HIDE DEF m
  <2> QED  BY <1>1, <2>1, ApartAfterSave
<1>3. CASE file["profile"] # "ok"
  BY <1>3 DEF Merge, files, ProfilesApart
<1> QED  BY <1>2, <1>3

LEMMA ApartWhenDead ==
    ASSUME ProfilesApart, Die, UNCHANGED files PROVE ProfilesApart'
  BY DEF ProfilesApart, Die, Everywhere, EmptyMap, files, Kinds

LEMMA ApartAfterBoot ==
    ASSUME IInv, ProfilesApart, Boot \/ BootCrash PROVE ProfilesApart'
<1>1. ASSUME NEW n \in Names \ ProfileNames PROVE disk'["profile"][n] = Nil
  BY <1>1 DEF Boot, BootCrash, MakeStorage, files, EmptyMap, ProfilesApart, Kinds
<1>2. CASE Boot
  BY <1>1, <1>2 DEF Boot, ProfilesApart
<1>3. CASE BootCrash
  BY <1>1, <1>3 DEF BootCrash, memory, ProfilesApart
<1> QED  BY <1>2, <1>3

LEMMA ApartAfterNew ==
    ASSUME Faultless, IInv, ProfilesApart, NEW j \in Kinds, NEW n \in Names, NEW s \in Scheds,
           j = "profile" => n \in ProfileNames, New(j, n, s)
    PROVE  ProfilesApart'
<1>1. CASE ~loaded[j]
  BY <1>1, ApartWhenDead DEF New
<1>2. CASE loaded[j] /\ j # "profile"
  <2>1. mem'["profile"] = mem["profile"] /\ pool' = pool
    BY <1>2 DEF New, IInv, TypeOK, Kinds
  <2>2. disk'["profile"] = disk["profile"]
    BY <1>2 DEF New, Merge, Save, Tear, files, IInv, TypeOK, Kinds
  <2> QED  BY <2>1, <2>2 DEF ProfilesApart
<1>3. CASE loaded[j] /\ j = "profile"
  <2>1. Merge("profile", Filled("profile", n, s))
    BY <1>3 DEF New
  <2>2. \A m \in Names \ ProfileNames : disk'["profile"][m] = Nil
    BY <1>3, <2>1, FilledIsRecord, ApartAfterMerge DEF IInv
  <2>3. \A m \in Names \ {n} : mem'["profile"][m] = mem["profile"][m] /\ pool'[m] = pool[m]
    BY <1>3 DEF New, IInv, TypeOK, Kinds
  <2> QED  BY <1>3, <2>2, <2>3 DEF ProfilesApart
<1> QED  BY <1>1, <1>2, <1>3

LEMMA ApartAfterDelete ==
    ASSUME Faultless, IInv, ProfilesApart, NEW j \in Kinds, NEW D \in SUBSET Names, Delete(j, D)
    PROVE  ProfilesApart'
<1>1. CASE ~loaded[j] /\ D # {}
  BY <1>1, ApartWhenDead DEF Delete
<1>2. CASE ~loaded[j] /\ D = {}
  <2>1. Tear(j) /\ UNCHANGED memory
    BY <1>2 DEF Delete, Faultless
  <2> QED  BY <2>1 DEF Tear, memory, EmptyMap, ProfilesApart, IInv, TypeOK, Kinds
<1>3. CASE loaded[j]
  <2>1. /\ mem' = [mem EXCEPT ![j] = Remaining(j, D)] /\ pool' = pool
        /\ disk' = [disk EXCEPT ![j] = Written(j, Remaining(j, D))]
    BY <1>3 DEF Delete, Save, Faultless
  <2>2. CASE j # "profile"
    BY <2>1, <2>2 DEF ProfilesApart, IInv, TypeOK, Kinds
  <2>3. CASE j = "profile"
    <3>1. ASSUME NEW n \in Names \ ProfileNames
          PROVE  Remaining(j, D)[n] = Nil /\ Written(j, Remaining(j, D))[n] = Nil
      BY <2>3, <3>1, MarkerAssumption DEF Remaining, Written, Val, ProfilesApart
    <3>2. mem'["profile"] = Remaining(j, D) /\ disk'["profile"] = Written(j, Remaining(j, D))
      BY <2>1, <2>3 DEF IInv, TypeOK, Kinds
    <3> QED  BY <2>1, <3>1, <3>2 DEF ProfilesApart
  <2> QED  BY <2>2, <2>3
<1> QED  BY <1>1, <1>2, <1>3

LEMMA ApartAfterList ==
    ASSUME IInv, ProfilesApart, NEW j \in Kinds, List(j) PROVE ProfilesApart'
<1>1. /\ mem' = [mem EXCEPT ![Reloaded(j)] = disk[Reloaded(j)]]
      /\ disk' = disk /\ pool' = pool
  BY DEF List
<1>2. mem'["profile"] = mem["profile"] \/ mem'["profile"] = disk["profile"]
  BY <1>1 DEF IInv, TypeOK, Kinds
<1> QED  BY <1>1, <1>2 DEF ProfilesApart

LEMMA ApartAfterEdit ==
    ASSUME Faultless, IInv, IInv', ProfilesApart, NEW n \in Names, NEW s \in Scheds, Edit(n, s)
    PROVE  ProfilesApart'
<1>1. CASE ~loaded["profile"] \/ mem["profile"][n] = Nil
  BY <1>1, ApartWhenDead DEF Edit
<1>2. CASE ~(~loaded["profile"] \/ mem["profile"][n] = Nil)
  <2>1. n \in ProfileNames
    BY <1>2 DEF ProfilesApart
  <2>2. \A m \in Names \ {n} : mem'["profile"][m] = mem["profile"][m] /\ pool'[m] = pool[m]
    BY <1>2 DEF Edit, IInv, TypeOK, Kinds
  <2>3. disk'["profile"] = [m \in Names |->
            IF mem'["profile"][m] = Template THEN tpl'["profile"] ELSE mem'["profile"][m]]
    BY <1>2 DEF Edit, Save, Faultless, IInv, TypeOK, Kinds
  <2> QED  BY <2>1, <2>2, <2>3, MarkerAssumption DEF ProfilesApart
<1> QED  BY <1>1, <1>2

LEMMA ApartAfterSetActivity ==
    ASSUME Faultless, IInv, ProfilesApart, NEW n \in Names, NEW a \in BOOLEAN, SetActivity(n, a)
    PROVE  ProfilesApart'
<1> DEFINE dies == \/ pool[n] = Nil
                   \/ file["profile"] # "ok"
                   \/ disk["profile"][OwnName(n)] = Nil
<1>1. CASE dies
  BY <1>1, ApartWhenDead DEF SetActivity
<1>2. CASE ~dies
  <2>1. n \in ProfileNames /\ OwnName(n) \in Names
    BY <1>2, OwnNameIsAProfile DEF ProfilesApart
  <2>2. OwnName(n) \in ProfileNames
    BY <1>2, <2>1 DEF ProfilesApart
  <2>3. \A m \in Names \ {n} : mem'["profile"][m] = mem["profile"][m] /\ pool'[m] = pool[m]
    BY <1>2 DEF SetActivity, IInv, TypeOK, Kinds
  <2>4. disk'["profile"] = [disk["profile"] EXCEPT ![OwnName(n)].act = a]
    BY <1>2 DEF SetActivity, Save, Faultless, IInv, TypeOK, Kinds
  <2>5. \A m \in Names \ ProfileNames : disk'["profile"][m] = Nil
    BY <2>2, <2>4 DEF ProfilesApart, IInv, TypeOK, Kinds
  <2> QED  BY <2>1, <2>3, <2>5 DEF ProfilesApart
<1> QED  BY <1>1, <1>2

LEMMA ApartAfterRun ==
    ASSUME Faultless, IInv, ProfilesApart, NEW n \in Names, NEW d \in Records,
           d.name \in ProfileNames, Run(n, d)
    PROVE  ProfilesApart'
<1>1. CASE pool[n] = Nil
  BY <1>1, ApartWhenDead DEF Run
<1>2. CASE pool[n] # Nil
  <2>1. n \in ProfileNames
    BY <1>2 DEF ProfilesApart
  <2>2. Merge("profile", d) /\ pool' = [pool EXCEPT ![n] = d] /\ mem' = mem
    BY <1>2 DEF Run
  <2>3. \A m \in Names \ ProfileNames : disk'["profile"][m] = Nil
    BY <2>2, ApartAfterMerge
  <2> QED  BY <2>1, <2>2, <2>3 DEF ProfilesApart, IInv, TypeOK
<1> QED  BY <1>1, <1>2

LEMMA ProfilesApartKept ==
    ASSUME Faultless, SystemInv, [SystemNext]_systemVars PROVE ProfilesApart'
<1>1. IInv /\ IInv' /\ ProfilesApart /\ Clients
  BY ManagedKept DEF SystemInv, Managed
<1>2. CASE Browse \/ UNCHANGED systemVars
  BY <1>1, <1>2 DEF Browse, systemVars, vars, ProfilesApart
<1>3. ASSUME NEW r \in asked, Serve(r) PROVE ProfilesApart'
  <2>1. Handle(r) /\ kind \in Kinds /\ kind # "profile"
    BY <1>1, <1>3 DEF Serve, Clients, Stores
  <2>2. CASE r.op = "list"
    BY <1>1, <2>1, <2>2, ApartAfterList DEF Handle
  <2>3. CASE r.op = "make"
    BY <1>1, <2>1, <2>3, RequestShape, ApartAfterNew DEF Handle
  <2>4. CASE r.op = "delete"
    BY <1>1, <2>1, <2>4, RequestShape, ApartAfterDelete DEF Handle
  <2>5. CASE r.op = "deploy"
    BY <1>1, <2>1, <2>5, RequestShape, ApartAfterSetActivity DEF Handle
  <2> QED  BY <2>2, <2>3, <2>4, <2>5, RequestShape
<1>4. CASE Start \/ (Fail /\ BootCrash)
  BY <1>1, <1>4, ApartAfterBoot DEF Start
<1>5. CASE Fail /\ Crash
  BY <1>1, <1>5, ApartWhenDead DEF Crash
<1>6. CASE Elsewhere
  <2>1. ASSUME NEW j \in others \ {kind},
               \/ List(j)
               \/ \E D \in SUBSET Names : Delete(j, D)
               \/ \E n \in Names, s \in Scheds : (j = "profile" => n \in ProfileNames) /\ New(j, n, s)
        PROVE  ProfilesApart'
    BY <1>1, <2>1, ApartAfterList, ApartAfterDelete, ApartAfterNew DEF Clients
  <2>2. ASSUME \/ \E n \in Names, s \in Scheds : Edit(n, s)
               \/ \E n \in Names, a \in BOOLEAN : SetActivity(n, a)
               \/ \E n \in Names, d \in Records : d.name \in ProfileNames /\ Run(n, d)
        PROVE  ProfilesApart'
    BY <1>1, <2>2, ApartAfterEdit, ApartAfterSetActivity, ApartAfterRun
  <2> QED  BY <1>6, <2>1, <2>2 DEF Elsewhere
<1> QED  BY <1>2, <1>3, <1>4, <1>5, <1>6 DEF SystemNext, Fail

LEMMA ClientsKept ==
    ASSUME Clients, [SystemNext]_systemVars PROVE Clients' /\ kind' = kind
<1>1. kind' = kind /\ others' = others
  BY DEF SystemNext, Browse, Serve, Start, Fail, Elsewhere, pageVars, systemVars
<1> QED  BY <1>1 DEF Clients

\* What the pages ask, on their way to the server or just sent.
SentBefore(m) == \E r \in asked : m.op = r.op /\ m.names = r.names

Sendable(m) ==
    \/ SentBefore(m)
    \/ m.op \notin {"make", "deploy"}
    \/ m.op = "make" /\ \E n \in Names : m.names = {n} /\ Free(n)
    \/ /\ m.op = "deploy" /\ kind = "release"
       /\ \E p \in Pages, n \in Names : m.names = {n} /\ list[p] # Nil /\ list[p][n] # Nil

LEMMA BrowseAsks ==
    ASSUME SystemInv, Browse, NEW m \in asked' PROVE Sendable(m)
<1>1. m \in asked => Sendable(m)
  BY DEF Sendable, SentBefore
<1>2. ASSUME NEW r \in asked, m = [r EXCEPT !.page = Nil] PROVE Sendable(m)
  <2>1. r \in Promised!Requests
    BY DEF SystemInv, Promised!IInv, Promised!TypeOK
  <2> QED  BY <1>2, <2>1 DEF Sendable, SentBefore, Promised!Requests
<1>3. ASSUME NEW p \in Pages, Page!Ready(p) PROVE Sendable(m)
  <2>1. CASE m = Page!Request(p, "list", {}, Nil)
    BY <2>1 DEF Page!Request, Sendable
  <2>2. CASE m \in Page!Orphaned(p, asked)
    BY <1>1, <1>2, <2>2 DEF Page!Orphaned
  <2> QED  BY <1>3, <2>1, <2>2 DEF Page!Ready
<1>4. ASSUME NEW p \in Pages, Page!Load(p) PROVE Sendable(m)
  BY <1>3, <1>4 DEF Page!Load
<1>5. ASSUME NEW p \in Pages, Page!Cancel(p) PROVE Sendable(m)
  BY <1>1, <1>2, <1>5 DEF Page!Cancel
<1>6. ASSUME NEW p \in Pages, NEW n \in Names, Page!Deploy(p, n) PROVE Sendable(m)
  <2>1. CASE m = [Page!Request(p, "deploy", {n}, Nil) EXCEPT !.page = Nil]
    BY <1>6, <2>1 DEF Page!Request, Page!Deploy, Page!Free, Sendable
  <2> QED  BY <1>1, <1>6, <2>1 DEF Page!Deploy
<1>7. ASSUME NEW p \in Pages, NEW n \in Names, NEW s \in Scheds, Free(n),
             Page!MakeGroup(p, n, s) \/ Page!MakeRelease(p, n, s)
      PROVE  Sendable(m)
  <2>1. CASE m = Page!Request(p, "make", {n}, s)
    BY <1>7, <2>1 DEF Page!Request, Sendable
  <2> QED  BY <1>1, <1>7, <2>1 DEF Page!MakeGroup, Page!MakeRelease, Page!Ask
<1>8. ASSUME NEW p \in Pages, NEW D \in SUBSET Names, Page!Delete(p, D) PROVE Sendable(m)
  <2>1. CASE m = Page!Request(p, "delete", Page!Named(D), Nil)
    BY <2>1 DEF Page!Request, Sendable
  <2> QED  BY <1>1, <1>8, <2>1 DEF Page!Delete, Page!Ask
<1>9. ASSUME NEW a \in answers, Page!Deliver(a) PROVE Sendable(m)
  <2>1. a.page \in Pages
    BY DEF SystemInv, Promised!IInv, Promised!TypeOK
  <2> QED  BY <1>1, <1>3, <1>9, <2>1 DEF Page!Deliver
<1>10. ASSUME NEW l \in asked \cup answers, Page!Lose(l) \/ Page!Refuse(l) PROVE Sendable(m)
  BY <1>1, <1>10 DEF Page!Refuse, Page!Lose, Page!Unanswered
<1> QED  BY <1>4, <1>5, <1>6, <1>7, <1>8, <1>9, <1>10 DEF Browse

\* What the pages show, and the answers they wait for.
LEMMA BrowseShows ==
    ASSUME SystemInv, Browse
    PROVE  /\ answers' \subseteq answers
           /\ \A p \in Pages : \/ list'[p] = list[p]
                             \/ list'[p] = [n \in Names |-> Nil]
                             \/ \E a \in answers : list'[p] = a.list
<1>1. \A a \in answers : a.page \in Pages
  BY DEF SystemInv, Promised!IInv, Promised!TypeOK
<1>2. list \in [Pages -> Promised!Maps \cup {Nil}]
  BY DEF SystemInv, Promised!IInv, Promised!TypeOK
<1>3. ASSUME NEW p \in Pages, Page!Load(p)
      PROVE  answers' \subseteq answers /\ list' = [list EXCEPT ![p] = [n \in Names |-> Nil]]
  BY <1>3 DEF Page!Load, Page!Ready
<1>4. ASSUME NEW a \in answers, Page!Deliver(a)
      PROVE  /\ answers' \subseteq answers
             /\ \/ list' = [list EXCEPT ![a.page] = [n \in Names |-> Nil]]
                \/ list' = [list EXCEPT ![a.page] = a.list]
  BY <1>4 DEF Page!Deliver, Page!Ready, Page!Success
<1>5. ASSUME \/ \E p \in Pages : Page!Cancel(p)
             \/ \E p \in Pages, n \in Names : Page!Deploy(p, n)
             \/ \E p \in Pages, n \in Names, s \in Scheds :
                   Page!MakeGroup(p, n, s) \/ Page!MakeRelease(p, n, s)
             \/ \E p \in Pages, D \in SUBSET Names : Page!Delete(p, D)
             \/ \E m \in asked \cup answers : Page!Lose(m)
             \/ \E r \in asked : Page!Refuse(r)
      PROVE  answers' \subseteq answers /\ list' = list
  BY <1>5 DEF Page!Cancel, Page!Deploy, Page!MakeGroup, Page!MakeRelease, Page!Delete,
              Page!Refuse, Page!Lose, Page!Unanswered
<1> QED  BY <1>1, <1>2, <1>3, <1>4, <1>5 DEF Browse

\* The steps of the server alone send nothing and show nothing.
LEMMA ServerAsks ==
    ASSUME SystemInv, Start \/ Fail \/ Elsewhere \/ UNCHANGED systemVars
    PROVE  asked' = asked /\ list' = list /\ answers' = answers
  BY DEF Start, Fail, Elsewhere, pageVars, systemVars

LEMMA ServeAsks ==
    ASSUME NEW r \in asked, Serve(r)
    PROVE  asked' \subseteq asked /\ list' = list
  BY DEF Serve, Page!Answered, Page!Unanswered

LEMMA DeploysApartKept ==
    ASSUME SystemInv, [SystemNext]_systemVars PROVE DeploysApart'
<1>1. kind' = kind
  BY ClientsKept DEF SystemInv
<1>2. CASE ~Browse
  <2>1. asked' \subseteq asked
    BY <1>2, ServerAsks, ServeAsks DEF SystemNext
  <2> QED  BY <1>1, <2>1 DEF SystemInv, DeploysApart
<1>3. CASE Browse
  <2> SUFFICES ASSUME NEW m \in asked', m.op = "deploy"
               PROVE  kind = "release" /\ \E n \in Names \ ProfileNames : m.names = {n}
    BY <1>1 DEF DeploysApart
  <2>1. CASE SentBefore(m)
    BY <2>1 DEF SentBefore, SystemInv, DeploysApart
  <2>2. CASE ~SentBefore(m)
    <3>1. /\ kind = "release"
          /\ \E p \in Pages, n \in Names : m.names = {n} /\ list[p] # Nil /\ list[p][n] # Nil
      BY <1>3, <2>2, BrowseAsks DEF Sendable
    <3>2. \A p \in Pages, n \in Names \cap ProfileNames : list[p] # Nil => list[p][n] = Nil
      BY <3>1 DEF SystemInv, ReleasesApart, Reserved
    <3> QED  BY <3>1, <3>2
  <2> QED  BY <2>1, <2>2
<1> QED  BY <1>2, <1>3

\* An entry under a reserved name would have to be asked for.
LEMMA ReservedAfterServe ==
    ASSUME Faultless, SystemInv, kind = "release", NEW n \in Names \cap ProfileNames, Reserved(n),
           NEW r \in asked, Serve(r)
    PROVE  /\ (ShownMap(disk[kind])[n])' = Nil /\ n \notin Kin(kind)'
           /\ \A a \in answers' : a.list[n] = Nil
<1>1. "release" \in Stores
  BY DEF Stores, Kinds
<1>2. CASE ~loaded[kind]
  <2>1. Page!Refuse(r)
    BY <1>1, <1>2, ServeUnloaded
  <2> QED  BY <2>1 DEF Page!Refuse, Page!Lose, Page!Unanswered, Page!server, Reserved
<1>3. CASE loaded[kind]
  <2>1. Page!Serve(r)
    BY <1>1, <1>3, ServeLoaded
  <2>2. /\ (ShownMap(disk[kind])[n])' = Nil /\ n \notin Kin(kind)'
    <3>1. CASE r.op = "list"
      BY <2>1, <3>1 DEF Page!Serve, Page!server, Reserved
    <3>2. CASE r.op = "make"
      <4>1. PICK l \in Names : r.names = {l} /\ l # n
        BY <3>2, RequestShape DEF Reserved
      <4>2. Page!Server!Create(l, r.sched)
        BY <2>1, <3>2, <4>1 DEF Page!Serve
      <4> QED  BY <4>1, <4>2 DEF Page!Server!Create, Reserved
    <3>3. CASE r.op = "delete"
      <4>1. Page!Server!Remove(r.names)
        BY <2>1, <3>3 DEF Page!Serve
      <4> QED  BY <4>1 DEF Page!Server!Remove, Reserved
    <3>4. CASE r.op = "deploy"
      <4>1. Page!Server!Close
        BY <2>1, <3>4 DEF Page!Serve
      <4> QED  BY <4>1 DEF Page!Server!Close, Reserved
    <3> QED  BY <3>1, <3>2, <3>3, <3>4, RequestShape
  <2>3. answers' \subseteq answers \cup {Page!Reply(r)}
    BY <2>1 DEF Page!Serve, Page!Answered, Page!Replied
  <2>4. Page!Reply(r).list[n] = Nil
    BY <2>2 DEF Page!Reply, Page!Answer
  <2> QED  BY <2>2, <2>3, <2>4 DEF Reserved
<1> QED  BY <1>2, <1>3

LEMMA ReleasesApartKept ==
    ASSUME Faultless, SystemInv, [SystemNext]_systemVars PROVE ReleasesApart'
<1>1. kind' = kind /\ "release" \in Stores
  BY ClientsKept DEF SystemInv, Stores, Kinds
<1> SUFFICES ASSUME kind = "release", NEW n \in Names \cap ProfileNames PROVE Reserved(n)'
  BY <1>1 DEF ReleasesApart
<1>2. Reserved(n)
  BY DEF SystemInv, ReleasesApart
<1>3. ASSUME NEW r \in asked, Serve(r) PROVE Reserved(n)'
  BY <1>2, <1>3, ReservedAfterServe, ServeAsks DEF Reserved
<1>4. CASE Browse
  <2>1. UNCHANGED Page!server
    BY <1>1, <1>4, AloneStutters, Seen DEF Browse, vars
  <2>2. (ShownMap(disk[kind])[n])' = Nil /\ n \notin Kin(kind)'
    BY <1>2, <2>1 DEF Reserved, Page!server
  <2>3. ASSUME NEW m \in asked', m.op = "make" PROVE n \notin m.names
    <3>1. Sendable(m)
      BY <1>4, BrowseAsks
    <3> QED  BY <1>2, <2>3, <3>1 DEF Sendable, SentBefore, Reserved, Free
  <2>4. \A a \in answers' : a.list[n] = Nil
    BY <1>2, <1>4, BrowseShows DEF Reserved
  <2>5. ASSUME NEW p \in Pages, list'[p] # Nil PROVE list'[p][n] = Nil
    BY <1>2, <1>4, <2>5, BrowseShows DEF Reserved
  <2> QED  BY <2>2, <2>3, <2>4, <2>5 DEF Reserved
<1>5. CASE Start \/ Fail \/ Elsewhere \/ UNCHANGED systemVars
  <2>1. UNCHANGED ShownDisk("release") /\ Kin("release")' \subseteq Kin("release")
    <3>1. CASE Start
      <4>1. IInv' /\ Boot
        BY <3>1, ManagedKept DEF Managed, Start, SystemNext
      <4>2. Opens("release") \/ UNCHANGED catalog("release")
        BY <1>1, <4>1, BootStep DEF SystemInv, Managed
      <4> QED  BY <4>2 DEF Opens, catalog
    <3>2. CASE Fail
      <4>1. Managed'
        BY <3>2, ManagedKept DEF SystemNext
      <4> QED  BY <1>1, <3>2, <4>1, FailLeaves DEF Leaves, Closes, catalog
    <3>3. CASE Elsewhere
      BY <1>1, <3>3, ElsewhereLeaves DEF Leaves, Closes, catalog
    <3>4. CASE UNCHANGED systemVars
      BY <1>1, <3>4, AloneStutters DEF systemVars, vars, catalog
    <3> QED  BY <1>5, <3>1, <3>2, <3>3, <3>4
  <2> QED  BY <1>1, <1>2, <1>5, <2>1, ServerAsks DEF Reserved, ShownDisk
<1> QED  BY <1>3, <1>4, <1>5 DEF SystemNext
-----------------------------------------------------------------------------
(* The invariant of the composition, and the theorems *)

LEMMA SystemStepKeeps ==
    ASSUME Faultless, SystemInv, [SystemNext]_systemVars PROVE SystemInv'
  BY ManagedKept, ClientsKept, ProfilesApartKept, DeploysApartKept, ReleasesApartKept,
     PromisedKept DEF SystemInv

LEMMA SystemStarts == SystemInit => SystemInv
<1> SUFFICES ASSUME SystemInit PROVE SystemInv
  OBVIOUS
<1>1. Init /\ Page!Init /\ others \in Crowds
  BY DEF SystemInit
<1>2. kind \in Stores /\ kind \in Kinds
  BY <1>1 DEF Page!Init, Stores, Kinds
<1>3. Managed
  BY <1>1, InitIInv
     DEF Managed, Init, Everywhere, Agreement, ListedIsStored, MapMatchesFile, UsableIsLoaded,
         ProfileFileFirst, NoLatestUnloaded, Stores
<1>4. Clients
  BY <1>1, <1>2, CrowdAssumption DEF Clients
<1>5. ProfilesApart
  BY <1>1 DEF Init, Everywhere, EmptyMap, ProfilesApart, Kinds
<1>6. DeploysApart
  BY <1>1 DEF Page!Init, DeploysApart
<1>7. ReleasesApart
  BY <1>1 DEF Page!Init, Page!Server!Init, ReleasesApart, Reserved
<1>8. Promised!IInv
  <2>1. Promised!Init
    BY <1>1 DEF Page!Init, Page!Server!Init, Promised!Init, Promised!Server!Init
  <2> QED  BY <2>1, PageAssumption, NoPageAssumption, Promised!InitKeeps
<1> QED  BY <1>3, <1>4, <1>5, <1>6, <1>7, <1>8 DEF SystemInv

LEMMA SystemInvariant == ASSUME Faultless PROVE SystemSpec => []SystemInv
<1>1. SystemInv /\ [SystemNext]_systemVars => SystemInv'
  BY SystemStepKeeps
<1> QED  BY <1>1, SystemStarts, PTL DEF SystemSpec

\* The requests of pages and other clients are among those that AdminManager
\* allows, so all that is proved of the manager holds behind the pages.
THEOREM SystemRunsTheManager == ASSUME Faultless PROVE SystemSpec => Spec
<1>1. SystemInit => Init
  BY DEF SystemInit
<1>2. SystemInv /\ [SystemNext]_systemVars => [Next]_vars
  BY ManagerSteps
<1> QED  BY <1>1, <1>2, SystemInvariant, PTL DEF SystemSpec, Spec

\* In front of the handlers of request_admin_group_* and _release_*, whatever
\* else the server does, each window sees a Catalog: the reply to a request and
\* what it did to file, map and template are one step of AdminPages.
THEOREM PagesSeeTheStores == ASSUME Faultless PROVE SystemSpec => PagesSeeACatalog
<1>1. SystemInit => Page!Init
  BY DEF SystemInit
<1>2. SystemInv /\ [SystemNext]_systemVars => [Page!Next]_(Page!vars)
  BY PageSteps
<1> QED  BY <1>1, <1>2, SystemInvariant, PTL DEF SystemSpec, PagesSeeACatalog, Page!Spec

LEMMA SamePages == PagesSeeACatalog => Promised!Spec
<1>1. Page!Init => Promised!Init
  BY DEF Page!Init, Page!Server!Init, Promised!Init, Promised!Server!Init
<1> QED  BY <1>1, SameSteps, PTL DEF PagesSeeACatalog, Page!Spec, Promised!Spec

\* A window shows what the FILE holds for as long as nobody asks the server
\* anything and it is not restarted, apart from entries that are one object in
\* the map (the success callbacks of the two pages).
THEOREM WindowsShowTheFile ==
    ASSUME Faultless PROVE SystemSpec => []Promised!TruthUntilTheNextRequest
<1>1. Promised!Spec => []Promised!TruthUntilTheNextRequest
  BY PageAssumption, NoPageAssumption, Promised!PagesShowTheTruth
<1> QED  BY <1>1, PagesSeeTheStores, SamePages, PTL

\* A window that waits for nothing shows the last list the handlers made for it,
\* unless two of its requests crossed or one was lost: crashes of the server and
\* requests it dies of count as lost, and nothing else disturbs the order.
THEOREM OldWindowsAreExplained ==
    ASSUME Faultless PROVE SystemSpec => []Promised!OldListExplained
<1>1. Promised!Spec => []Promised!OldListExplained
  BY PageAssumption, NoPageAssumption, Promised!OldListsAreExplained
<1> QED  BY <1>1, PagesSeeTheStores, SamePages, PTL

\* No window removes from the file a group whose name its checkbox cannot carry
\* (createGroupList, selectedGroup, deleteGroupProfile).
THEOREM OddGroupsStayInTheFile ==
    ASSUME Faultless PROVE SystemSpec => Promised!OddNamesStay
<1>1. Promised!Spec => Promised!OddNamesStay
  BY PageAssumption, NoPageAssumption, Promised!OddGroupsStay
<1> QED  BY <1>1, PagesSeeTheStores, SamePages, PTL

\* The buttons to deploy and to roll back a release ask set_activity for a
\* profile that never exists: each such request that is served ends the server.
THEOREM DeployEndsTheServer ==
    ASSUME Faultless
    PROVE  SystemSpec => [][\A r \in asked : r.op = "deploy" /\ Serve(r) => ~up']_systemVars
<1>1. SystemInv /\ [SystemNext]_systemVars =>
        [\A r \in asked : r.op = "deploy" /\ Serve(r) => ~up']_systemVars
  <2> SUFFICES ASSUME SystemInv, NEW r \in asked, r.op = "deploy", Serve(r) PROVE ~up'
    OBVIOUS
  <2>1. PICK n \in Names \ ProfileNames : r.names = {n}
    BY DEF SystemInv, DeploysApart
  <2>2. SetActivity(n, FALSE) /\ pool[n] = Nil
    BY <2>1 DEF Serve, Handle, SystemInv, ProfilesApart
  <2> QED  BY <2>2 DEF SetActivity, Die
<1> QED  BY <1>1, SystemInvariant, PTL DEF SystemSpec
=============================================================================
