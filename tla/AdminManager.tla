---------------------------- MODULE AdminManager ----------------------------
(***************************************************************************)
(* The administration server's stores (src/src/admin_manager.node.js,      *)
(* src/src/data/storage.node.js, src/src/stuff/profile.node.js and the     *)
(* /request_admin_* handlers): three JSON meta files on disk, a map of     *)
(* each in memory, the pool of Profile objects, and the interval timers of *)
(* the alarms.                                                             *)
(*                                                                         *)
(* Every handler is synchronous from the parsed request to the reply, so   *)
(* one handler call is one action.  What makes the code hard is object     *)
(* IDENTITY: newProfile fills and stores one global template object, so    *)
(* every entry created since the server started is the same object; and a  *)
(* Profile object of the pool may or may not wrap the very object the map  *)
(* holds.  A cell of a map is therefore a record of its own, the marker    *)
(* Template (the cell holds the shared template object), or Nil.           *)
(*                                                                         *)
(* A record keeps its name, its "sched" (what a form submission sets in    *)
(* full: the schedule; for a group its description) and its "act" (the     *)
(* alarm flag "activity", which no form sets).  The other config fields    *)
(* are written together with the schedule and are left out.                *)
(*                                                                         *)
(* An exception thrown by a handler is not caught anywhere: the process    *)
(* dies (Die).  Restart is Boot, done by whoever runs the server.          *)
(***************************************************************************)
EXTENDS Naturals

CONSTANTS
    Names,         \* names of profiles, releases and groups
    Scheds,        \* values of the submitted fields
    Served,        \* the kinds whose requests the clients of the instance send
    Nil,           \* no object
    Template,      \* "the shared template object" in a cell
    SavesMayFail,  \* writeFileSync may fail and leave the file as it was
    SavesMayTear,  \* writeFileSync may stop halfway, by an error or a crash
    MaxTimers      \* bound on the alarm timers running for one name

Kinds == {"profile", "release", "group"}

\* Operators whose names hold an underscore (NoStorage_Unchecked, ...) are
\* faulty variants that nothing uses: each is a bug that some property catches.

\* The order in which makeStorage writes the three files.
Rank == [k \in Kinds |-> CASE k = "profile" -> 1 [] k = "release" -> 2 [] k = "group" -> 3]

Records == [name : Names, sched : Scheds, act : BOOLEAN]

ASSUME ServedAssumption == Served \subseteq Kinds
ASSUME MarkerAssumption == Nil \notin Records /\ Template \notin Records /\ Nil # Template
ASSUME FaultAssumption == SavesMayFail \in BOOLEAN /\ SavesMayTear \in BOOLEAN
ASSUME BoundAssumption == MaxTimers \in Nat

VARIABLES
    file,     \* file[k]: "absent", "ok", or "bad" (torn, or with no profiles in it)
    disk,     \* disk[k][n]: the record the file of k stores under key n
    up,       \* the server process runs
    loaded,   \* loaded[k]: this.profiles is an object (undefined after a failed load)
    mem,      \* mem[k][n]: the cell of this.profiles / releaseProfiles / groupProfiles
    pool,     \* pool[n]: the record inside the Profile object this.profilePool[n]
    shared,   \* names whose pool object wraps the object the map holds
    tpl,      \* tpl[k]: the contents of the template object, Nil until first filled
    timers,   \* timers[n]: alarm intervals running for Profile objects of name n
    handle    \* handle[n]: this.scheduler of profilePool[n] is not null

files == <<file, disk>>
memory == <<loaded, mem, pool, shared, tpl, timers, handle>>
vars == <<file, disk, up, loaded, mem, pool, shared, tpl, timers, handle>>

Cells == Records \cup {Nil, Template}
EmptyMap == [n \in Names |-> Nil]

\* The record a cell of kind k stands for.
Val(k, cell) == IF cell = Template THEN tpl[k] ELSE cell
-----------------------------------------------------------------------------
(* The process *)

Everywhere(value) == [k \in Kinds |-> value]

Init ==
    /\ file = Everywhere("absent")
    /\ disk = Everywhere(EmptyMap)
    /\ up = FALSE
    /\ loaded = Everywhere(FALSE)
    /\ mem = Everywhere(EmptyMap)
    /\ pool = EmptyMap
    /\ shared = {}
    /\ tpl = Everywhere(Nil)
    /\ timers = [n \in Names |-> 0]
    /\ handle = [n \in Names |-> FALSE]

\* The process ends: nothing is left in memory and no interval runs.
Die ==
    /\ up' = FALSE
    /\ loaded' = Everywhere(FALSE)
    /\ mem' = Everywhere(EmptyMap)
    /\ pool' = EmptyMap
    /\ shared' = {}
    /\ tpl' = Everywhere(Nil)
    /\ timers' = [n \in Names |-> 0]
    /\ handle' = [n \in Names |-> FALSE]

\* makeStorage: one save per kind, whose results nobody looks at.
MakeStorage ==
    \E failed, torn \in SUBSET Kinds :
        /\ failed # {} => SavesMayFail
        /\ torn # {} => SavesMayTear
        /\ failed \cap torn = {}
        /\ file' = [k \in Kinds |-> CASE k \in failed -> file[k]
                                      [] k \in torn   -> "bad"
                                      [] OTHER        -> "ok"]
        /\ disk' = [k \in Kinds |-> IF k \in failed THEN disk[k] ELSE EmptyMap]

NoStorage_Unchecked == TRUE

\* isMakeStorage: only the profile file is looked at.
NoStorage == file["profile"] = "absent"

\* The constructor: make the files if there is no profile file, then load all
\* three; the pool wraps the loaded objects; no alarm is started.
Boot ==
    /\ ~up
    /\ IF NoStorage THEN MakeStorage ELSE UNCHANGED files
    /\ up' = TRUE
    /\ loaded' = [k \in Kinds |-> file'[k] = "ok"]
    /\ mem' = disk'
    /\ pool' = disk'["profile"]
    /\ shared' = {n \in Names : disk'["profile"][n] # Nil}
    /\ UNCHANGED <<tpl, timers, handle>>

\* The process is killed inside makeStorage, before or (torn) while it writes k.
BootCrash ==
    /\ ~up
    /\ NoStorage
    /\ \E k \in Kinds, torn \in BOOLEAN :
        /\ torn => SavesMayTear
        /\ file' = [j \in Kinds |-> CASE Rank[j] < Rank[k] -> "ok"
                                      [] torn /\ j = k      -> "bad"
                                      [] OTHER             -> file[j]]
        /\ disk' = [j \in Kinds |-> IF Rank[j] < Rank[k] \/ (torn /\ j = k)
                                    THEN EmptyMap ELSE disk[j]]
    /\ UNCHANGED <<up, memory>>

Crash == up /\ Die /\ UNCHANGED files
-----------------------------------------------------------------------------
(* Writing a meta file *)

Tear(k) ==
    /\ file' = [file EXCEPT ![k] = "bad"]
    /\ disk' = [disk EXCEPT ![k] = EmptyMap]

\* saveMeta...ProfilesSync: the whole map m replaces the file of k.
Save(k, m) ==
    \/ /\ file' = [file EXCEPT ![k] = "ok"]
       /\ disk' = [disk EXCEPT ![k] = m]
    \/ SavesMayFail /\ UNCHANGED files
    \/ SavesMayTear /\ Tear(k)

Merge_DropsOthers(k, r) ==
    IF file[k] = "ok" THEN Save(k, [EmptyMap EXCEPT ![r.name] = r])
                      ELSE UNCHANGED files

Merge_FreshIfUnreadable(k, r) == Save(k, [disk[k] EXCEPT ![r.name] = r])

Merge_WritesTheMap(k, r) ==
    IF file[k] = "ok" THEN Save(k, [n \in Names |-> IF n = r.name THEN r ELSE Val(k, mem[k][n])])
                      ELSE UNCHANGED files

\* saveMeta...ProfileSync: read the file, put r under its name, write it back.
Merge(k, r) ==
    IF file[k] = "ok" THEN Save(k, [disk[k] EXCEPT ![r.name] = r])
                      ELSE UNCHANGED files

\* The process is killed while it writes the file of k.
CrashWhileSaving(k) == up /\ k \in Served /\ SavesMayTear /\ Tear(k) /\ Die
-----------------------------------------------------------------------------
(* The handlers *)

\* The template after a form (n, s): its activity flag is whatever it was.
Filled(k, n, s) ==
    [name |-> n, sched |-> s, act |-> IF tpl[k] = Nil THEN TRUE ELSE tpl[k].act]

\* newProfile, newReleaseProfile, newGroupProfile
New(k, n, s) ==
    /\ up /\ k \in Served
    /\ IF ~loaded[k] THEN Die /\ UNCHANGED files
       ELSE /\ tpl' = [tpl EXCEPT ![k] = Filled(k, n, s)]
            /\ mem' = [mem EXCEPT ![k][n] = Template]
            /\ IF k = "profile"
               THEN /\ pool' = [pool EXCEPT ![n] = Template]
                    /\ shared' = shared \ {n}
                    /\ handle' = [handle EXCEPT ![n] = FALSE]
               ELSE UNCHANGED <<pool, shared, handle>>
            /\ Merge(k, Filled(k, n, s))
            /\ UNCHANGED <<up, loaded, timers>>

\* What deleting the names D leaves of the map of k, written out in full.
Remaining(k, D) == [n \in Names |-> IF n \in D THEN Nil ELSE mem[k][n]]
Written(k, m) == [n \in Names |-> Val(k, m[n])]

\* deleteProfile, deleteReleaseProfile, deleteGroupProfile: the pool is left
\* alone.  With no map, an empty list of names writes a file without profiles.
Delete(k, D) ==
    /\ up /\ k \in Served
    /\ CASE loaded[k] ->
              /\ mem' = [mem EXCEPT ![k] = Remaining(k, D)]
              /\ shared' = IF k = "profile" THEN shared \ D ELSE shared
              /\ Save(k, Written(k, Remaining(k, D)))
              /\ UNCHANGED <<up, loaded, pool, tpl, timers, handle>>
         [] ~loaded[k] /\ D # {} -> Die /\ UNCHANGED files
         [] ~loaded[k] /\ D = {} ->
              /\ Tear(k) \/ (SavesMayFail /\ UNCHANGED files)
              /\ UNCHANGED <<up, memory>>

\* editProfile: changes the object the map holds, whoever else holds it, and
\* writes the whole map.
Edit(n, s) ==
    /\ up /\ "profile" \in Served
    /\ IF ~loaded["profile"] \/ mem["profile"][n] = Nil THEN Die /\ UNCHANGED files
       ELSE /\ IF mem["profile"][n] = Template
               THEN /\ tpl' = [tpl EXCEPT !["profile"].sched = s]
                    /\ UNCHANGED <<mem, pool>>
               ELSE /\ mem' = [mem EXCEPT !["profile"][n].sched = s]
                    /\ pool' = IF n \in shared THEN [pool EXCEPT ![n].sched = s] ELSE pool
                    /\ UNCHANGED tpl
            /\ Save("profile", [m \in Names |->
                  IF mem'["profile"][m] = Template THEN tpl'["profile"] ELSE mem'["profile"][m]])
            /\ UNCHANGED <<up, loaded, shared, timers, handle>>

\* A slip one line further: the release handler reloads the groups.
Reloaded_Groups(k) == IF k = "release" THEN "group" ELSE k

\* The map a list request reloads: the release handler reloads the profiles.
Reloaded(k) == IF k = "release" THEN "profile" ELSE k

\* /request_admin_profile_list, _release_profile_list, _group_list
List(k) ==
    /\ up /\ k \in Served
    /\ LET r == Reloaded(k) IN
         /\ loaded' = [loaded EXCEPT ![r] = file[r] = "ok"]
         /\ mem' = [mem EXCEPT ![r] = disk[r]]
         /\ shared' = IF r = "profile" THEN {} ELSE shared
    /\ UNCHANGED <<up, file, disk, pool, tpl, timers, handle>>

\* The name inside the record that the pool's Profile object n wraps.
OwnName(n) == Val("profile", pool[n]).name

TimersAfter_Unchecked(n, a) == [timers EXCEPT ![n] = IF a THEN @ + 1 ELSE @ - 1]
HandleAfter_NeverCleared(n, a) == [handle EXCEPT ![n] = @ \/ a]

\* addScheduler: turning on starts an interval and does not stop the one before
\* it; turning off stops the interval the object has a handle of, if any.
TimersAfter(n, a) == [timers EXCEPT ![n] = CASE a -> @ + 1
                                             [] ~a /\ handle[n] -> @ - 1
                                             [] OTHER -> @]
HandleAfter(n, a) == [handle EXCEPT ![n] = a]

\* Profile.setActivity: set the flag on the wrapped object, run
\* addScheduler, then set the flag of the record stored under the object's own
\* name (a missing record or an unreadable file is an exception).
SetActivity(n, a) ==
    /\ up /\ "profile" \in Served
    /\ a => timers[n] < MaxTimers
    /\ IF \/ pool[n] = Nil
          \/ file["profile"] # "ok"
          \/ disk["profile"][OwnName(n)] = Nil
       THEN Die /\ UNCHANGED files
       ELSE /\ IF pool[n] = Template
               THEN /\ tpl' = [tpl EXCEPT !["profile"].act = a]
                    /\ UNCHANGED <<mem, pool>>
               ELSE /\ pool' = [pool EXCEPT ![n].act = a]
                    /\ mem' = IF n \in shared THEN [mem EXCEPT !["profile"][n].act = a] ELSE mem
                    /\ UNCHANGED tpl
            /\ timers' = TimersAfter(n, a)
            /\ handle' = HandleAfter(n, a)
            /\ Save("profile", [disk["profile"] EXCEPT ![OwnName(n)].act = a])
            /\ UNCHANGED <<up, loaded, shared>>

\* doRun with isSave, one entry of the posted object: the page posts back the
\* record d it shows under key n, which may be old and may carry another name.
\* No device is in the pool, so no job is made; without isSave only the
\* missing profile matters (the disjunct that dies).
Run(n, d) ==
    /\ up /\ "profile" \in Served
    /\ IF pool[n] = Nil THEN Die /\ UNCHANGED files
       ELSE /\ Merge("profile", d)
            /\ pool' = [pool EXCEPT ![n] = d]
            /\ shared' = shared \ {n}
            /\ UNCHANGED <<up, loaded, mem, tpl, timers, handle>>

Next ==
    \/ Boot
    \/ BootCrash
    \/ Crash
    \/ \E k \in Kinds : CrashWhileSaving(k) \/ List(k)
    \/ \E k \in Kinds, n \in Names, s \in Scheds : New(k, n, s)
    \/ \E k \in Kinds, D \in SUBSET Names : Delete(k, D)
    \/ \E n \in Names, s \in Scheds : Edit(n, s)
    \/ \E n \in Names, a \in BOOLEAN : SetActivity(n, a)
    \/ \E n \in Names, d \in Records : Run(n, d)

Spec == Init /\ [][Next]_vars
-----------------------------------------------------------------------------
(* Properties *)

\* Every variable keeps its shape; the count of running intervals stays a
\* natural number, so no interval is ended twice (profile.node.js addScheduler).
TypeOK ==
    /\ file \in [Kinds -> {"absent", "ok", "bad"}]
    /\ disk \in [Kinds -> [Names -> Records \cup {Nil}]]
    /\ up \in BOOLEAN
    /\ loaded \in [Kinds -> BOOLEAN]
    /\ mem \in [Kinds -> [Names -> Cells]]
    /\ pool \in [Names -> Cells]
    /\ shared \in SUBSET Names
    /\ tpl \in [Kinds -> Records \cup {Nil}]
    /\ timers \in [Names -> Nat]
    /\ handle \in [Names -> BOOLEAN]

\* Who refers to what: a cell that holds the template means it was filled, an
\* object the pool shares with the map is the one the map holds, and there is
\* nothing behind an unusable file or an unloaded map.
Backed ==
    /\ \A k \in Kinds : \A n \in Names : mem[k][n] = Template => tpl[k] # Nil
    /\ \A n \in Names : pool[n] = Template => tpl["profile"] # Nil
    /\ \A n \in shared : pool[n] \in Records /\ mem["profile"][n] = pool[n]
    /\ \A k \in Kinds : file[k] # "ok" => disk[k] = EmptyMap
    /\ \A k \in Kinds : ~loaded[k] => mem[k] = EmptyMap
    /\ ~up => loaded = Everywhere(FALSE)

\* If no save ever fails, whatever a list shows is in the file: a loaded map
\* has a readable file behind it and no name the file does not have.  The
\* handlers keep the map and the file by separate writes (addProfile and
\* saveMetaProfileSync, delete and saveMetaProfilesSync).
ListedIsStored ==
    \A k \in Kinds : loaded[k] =>
        /\ file[k] = "ok"
        /\ \A n \in Names : mem[k][n] # Nil => disk[k][n] # Nil

\* And a usable file is one the running server has loaded.
UsableIsLoaded == up => \A k \in Kinds : file[k] = "ok" => loaded[k]

\* For releases and groups, which nothing but New and Delete writes, the map
\* and the file have the same names, and an entry that is an object of its own
\* is what the file says: only the shared template may show something else.
MapMatchesFile ==
    \A k \in Kinds \ {"profile"} : loaded[k] => \A n \in Names :
        /\ mem[k][n] = Nil <=> disk[k][n] = Nil
        /\ mem[k][n] \in Records => disk[k][n] = mem[k][n]

\* A Profile object with a scheduler has an interval running, and an interval
\* belongs to a name some Profile object of the pool has: turning an alarm off
\* (Scheduler.end) never clears an interval that is already gone.
AlarmOwned ==
    \A n \in Names :
        /\ handle[n] => timers[n] >= 1
        /\ timers[n] >= 1 => up /\ pool[n] # Nil

OthersStay(k, n) == \A m \in Names \ {n} : disk'[k][m] = disk[k][m]

\* The requests that read the file, change one record and write it back leave all
\* other records alone, however stale the map and the pool in memory are: a new
\* entry touches its name, a run the name inside the record the page posts, and an
\* alarm the name inside the object of the pool.  (Delete and Edit write the map.)
SingleWritesKeepOthers ==
    [][disk' # disk =>
         /\ \A k \in Kinds, n \in Names, s \in Scheds : OthersStay(k, n) \/ ~New(k, n, s)
         /\ \A n \in Names, d \in Records : OthersStay("profile", d.name) \/ ~Run(n, d)
         /\ \A n \in Names, a \in BOOLEAN : pool[n] # Nil =>
               OthersStay("profile", OwnName(n)) \/ ~SetActivity(n, a)]_vars

\* What may happen to a stored release or group: it is created or replaced by a
\* New of its name, it goes by a Delete that names it, and it is overwritten by
\* the Delete of another only with the contents of the shared template.
StoredRecordFate ==
    [][\A k \in Kinds \ {"profile"}, n \in Names : disk'[k][n] # disk[k][n] =>
          \/ \E s \in Scheds : New(k, n, s)
          \/ \E D \in SUBSET Names :
                /\ Delete(k, D)
                /\ n \notin D => mem[k][n] = Template /\ disk'[k][n] = tpl[k]]_vars

\* Starting the server never changes a stored record, although makeStorage
\* would overwrite all three files without looking at two of them.
RestartKeepsRecords ==
    [][~up => \A k \in Kinds, n \in Names : disk[k][n] # Nil => disk'[k][n] = disk[k][n]]_vars

\* An unusable file is never taken for an empty store: it becomes usable again
\* only when a map loaded earlier is written over it in full (or when there is
\* no storage at all and makeStorage makes it).
NoSilentReset ==
    [][\A k \in Kinds : file[k] # "ok" /\ file'[k] = "ok" /\ ~NoStorage =>
          loaded[k]]_vars

\* INSTALL line 62, "name: unique profile name": no two stored entries carry the
\* same name.
UniqueNames ==
    \A k \in Kinds : \A m, n \in Names :
        m # n /\ disk[k][m] # Nil /\ disk[k][n] # Nil => disk[k][m].name # disk[k][n].name
-----------------------------------------------------------------------------
(* What the stores of releases and groups implement *)

\* A record as a client sees it: the activity flag of a release or group never
\* changes and nothing reads it.
Shown(r) == IF r = Nil THEN Nil ELSE [name |-> r.name, sched |-> r.sched]
ShownMap(m) == [n \in Names |-> Shown(m[n])]
Kin(k) == {n \in Names : mem[k][n] = Template}

Releases == INSTANCE Catalog WITH
    serving <- loaded["release"], stored <- ShownMap(disk["release"]),
    latest <- Shown(tpl["release"]), kin <- Kin("release")

Groups == INSTANCE Catalog WITH
    serving <- loaded["group"], stored <- ShownMap(disk["group"]),
    latest <- Shown(tpl["group"]), kin <- Kin("group")

\* If no save fails, the three copies of a release (file, map, template) behave
\* as the one entry of a Catalog, whatever happens to profiles and groups.
ReleasesAreACatalog == Releases!Spec

\* And so do those of a group, which unlike releases are read again by a list.
GroupsAreACatalog == Groups!Spec
=============================================================================
