------------------------------ MODULE AdminPages ------------------------------
(***************************************************************************)
(* The browser pages of the groups (views/admin/admin_monitor_client.js)   *)
(* and of the releases (views/admin/admin_result_client.js with its dialog *)
(* views/admin/admin_release.html), on top of the server's Catalog.        *)
(*                                                                         *)
(* A page holds a copy of the server's list, replaced by whatever list an  *)
(* answer brings.  Every request is an HTTP request of its own, so those   *)
(* of one page can overtake each other on both ways, and a page never asks *)
(* again by itself.  Every error callback is empty: a request or an answer *)
(* that is lost leaves the page as it is.                                  *)
(*                                                                         *)
(* A release is made in a modal dialog, which blocks its page, names the   *)
(* release by the time of day and reloads the page when it is answered; a  *)
(* group is made on the page, by a name the user types.  The page of groups *)
(* also draws the list of agents, once, and the agents of a group.         *)
(***************************************************************************)
EXTENDS Naturals

CONSTANTS
    Names,      \* names of entries
    Scheds,     \* values of the submitted fields
    Nil,        \* no entry, no page
    Pages,      \* browser windows
    Stripped,   \* Stripped[n]: the checkbox value a group n gets, without '/'
    MaxAsks,    \* bound on the requests of all pages
    MaxStarts   \* bound on the starts of the server

ASSUME StrippedAssumption == Stripped \in [Names -> Names]
ASSUME AskAssumption == MaxAsks \in Nat /\ MaxStarts \in Nat
ASSUME NilAssumption == Nil \notin Pages /\ Nil \notin [name : Names, sched : Scheds]

VARIABLES
    kind,     \* what the pages show: "group" or "release"
    serving, stored, latest, kin,  \* the catalogue on the server
    starts,   \* starts of the server
    served,   \* requests served and starts: dates the lists
    list,     \* list[p]: what page p shows, Nil if it was not opened
    date,     \* date[p]: of the list that p shows, 0 before the first answer
    asked,    \* requests on their way
    answers,  \* answers on their way
    count,    \* requests of all pages so far
    dialog,   \* pages that have the dialog of a new release open
    stamps,   \* names that were given to releases
    newest,   \* newest[p]: date of the last list served to the loaded p
    crossed,  \* pages that, since loaded, had two requests on the way at once
    lost      \* pages that, since loaded, lost a request or an answer

server == <<serving, stored, latest, kin>>
history == <<newest, crossed, lost>>
vars == <<kind, server, starts, served, list, date, asked, answers, count,
          dialog, stamps, history>>

Server == INSTANCE Catalog

Entries == [name : Names, sched : Scheds]
Maps == [Names -> Entries \cup {Nil}]
Requests == [page : Pages \cup {Nil}, no : 1..MaxAsks, names : SUBSET Names,
             op : {"list", "make", "delete", "deploy"}, sched : Scheds \cup {Nil}]

Init ==
    /\ kind \in {"group", "release"}
    /\ Server!Init
    /\ starts = 0 /\ served = 0
    /\ list = [p \in Pages |-> Nil]
    /\ date = [p \in Pages |-> 0]
    /\ asked = {} /\ answers = {}
    /\ count = 0
    /\ dialog = {} /\ stamps = {}
    /\ newest = [p \in Pages |-> 0]
    /\ crossed = {} /\ lost = {}
-----------------------------------------------------------------------------
(* The pages *)

Waiting(p) == \E m \in asked \cup answers : m.page = p

\* A message whose page p has gone: the server still serves a request.
Orphaned(p, messages) ==
    {IF m.page = p THEN [m EXCEPT !.page = Nil] ELSE m : m \in messages}

Request(p, op, names, s) ==
    [page |-> p, no |-> count + 1, op |-> op, names |-> names, sched |-> s]

\* $.ajax; the number only tells the requests apart.
Ask(p, r) ==
    /\ count < MaxAsks
    /\ count' = count + 1
    /\ asked' = asked \cup {r}
    /\ crossed' = IF Waiting(p) THEN crossed \cup {p} ELSE crossed

\* $(document).ready, on a page just opened or reloaded, which forgets all it
\* knew and waits for.
Ready(p) ==
    /\ count < MaxAsks
    /\ count' = count + 1
    /\ asked' = Orphaned(p, asked) \cup {Request(p, "list", {}, Nil)}
    /\ list' = [list EXCEPT ![p] = [n \in Names |-> Nil]]
    /\ date' = [date EXCEPT ![p] = 0]
    /\ newest' = [newest EXCEPT ![p] = 0]
    /\ crossed' = crossed \ {p}
    /\ lost' = lost \ {p}

Load(p) ==
    /\ p \notin dialog
    /\ Ready(p)
    /\ answers' = {a \in answers : a.page # p}
    /\ UNCHANGED <<kind, server, starts, served, dialog, stamps>>

Free(p) == list[p] # Nil /\ p \notin dialog

\* onClickMake of the page of groups.
MakeGroup(p, n, s) ==
    /\ kind = "group" /\ Free(p)
    /\ Ask(p, Request(p, "make", {n}, s))
    /\ UNCHANGED <<kind, server, starts, served, list, date, answers, dialog, stamps,
                   newest, lost>>

\* onClickSubmit in the dialog, opened by newPopup: the name is new Date().
\* After a lost answer the dialog is still there, and submits under a new name.
MakeRelease(p, n, s) ==
    /\ kind = "release" /\ n \notin stamps
    /\ Free(p) \/ (p \in dialog /\ \A m \in asked \cup answers : m.page = p => m.op # "make")
    /\ count + 1 < MaxAsks
    /\ Ask(p, Request(p, "make", {n}, s))
    /\ dialog' = dialog \cup {p}
    /\ stamps' = stamps \cup {n}
    /\ UNCHANGED <<kind, server, starts, served, list, date, answers, newest, lost>>

\* The user closes the dialog: its request, if any, loses its reader.
Cancel(p) ==
    /\ p \in dialog
    /\ dialog' = dialog \ {p}
    /\ asked' = {IF m.page = p /\ m.op = "make" THEN [m EXCEPT !.page = Nil] ELSE m : m \in asked}
    /\ answers' = {a \in answers : ~(a.page = p /\ a.op = "make")}
    /\ lost' = IF asked' = asked /\ answers' = answers THEN lost ELSE lost \cup {p}
    /\ UNCHANGED <<kind, server, starts, served, list, date, count, stamps, newest, crossed>>

\* Nothing checked stands for everything.
Named_AllIfNone(D) ==
    CASE D = {}                    -> Names
      [] D # {} /\ kind = "group" -> {Stripped[n] : n \in D}
      [] OTHER                     -> D

\* The names a delete posts for the checked boxes: createGroupList writes
\* value=name/ without quotes and selectedGroup takes the '/' out, so that a
\* name with a space or a '/' is sent as another one; createProfileList quotes.
Named(D) == IF kind = "group" THEN {Stripped[n] : n \in D} ELSE D

\* onClickDelete, onClickDeleteProfile: the checked boxes, possibly none.
Delete(p, D) ==
    /\ Free(p)
    /\ \A n \in D : list[p][n] # Nil
    /\ Ask(p, Request(p, "delete", Named(D), Nil))
    /\ UNCHANGED <<kind, server, starts, served, list, date, answers, dialog, stamps,
                   newest, lost>>

\* onClickAlarm of the buttons to deploy and to roll back, which every release
\* has: it asks to turn off the alarm of the PROFILE of this name, and its
\* success callback is empty.
Deploy(p, n) ==
    /\ kind = "release" /\ Free(p) /\ list[p][n] # Nil
    /\ count < MaxAsks
    /\ count' = count + 1
    /\ asked' = asked \cup {[Request(p, "deploy", {n}, Nil) EXCEPT !.page = Nil]}
    /\ UNCHANGED <<kind, server, starts, served, list, date, answers, dialog, stamps, history>>
-----------------------------------------------------------------------------
(* The server and the network *)

\* What the handlers answer: the map in memory, where the kin are one object.
Answer == [n \in Names |-> IF n \in kin THEN latest ELSE stored[n]]

Reply_Before(r) == [page |-> r.page, op |-> r.op, date |-> served + 1, list |-> Answer]

\* The reply is made when the handler is through (evt_added_group, ...).
Reply(r) == [page |-> r.page, op |-> r.op, date |-> served + 1, list |-> Answer']

Replied_ToAnyone(r) == answers \cup {Reply(r)}

Replied(r) == IF r.page = Nil THEN answers ELSE answers \cup {Reply(r)}

\* What the page and the network see of a request that is served.
Answered(r) ==
    /\ asked' = asked \ {r}
    /\ served' = served + 1
    /\ answers' = Replied(r)
    /\ newest' = IF r.page = Nil THEN newest ELSE [newest EXCEPT ![r.page] = served + 1]
    /\ UNCHANGED <<kind, starts, list, date, count, dialog, stamps, crossed, lost>>

\* One request is served.  A list request reads the groups again, but not the
\* releases.  No profile has the name of a release (both are times of day), so
\* set_activity finds none and its exception ends the server.
Serve(r) ==
    /\ serving /\ r \in asked
    /\ CASE r.op = "list" /\ kind = "group"   -> Server!Reread
         [] r.op = "list" /\ kind = "release" -> UNCHANGED server
         [] r.op = "make"   -> \A n \in r.names : Server!Create(n, r.sched)
         [] r.op = "delete" -> Server!Remove(r.names)
         [] r.op = "deploy" -> Server!Close
    /\ Answered(r)

Success_NotOfDelete(a) ==
    IF a.op = "delete" THEN UNCHANGED <<list, date>>
    ELSE /\ list' = [list EXCEPT ![a.page] = a.list]
         /\ date' = [date EXCEPT ![a.page] = a.date]

\* The success callbacks: the list is replaced, however old the answer is.
Success(a) ==
    /\ list' = [list EXCEPT ![a.page] = a.list]
    /\ date' = [date EXCEPT ![a.page] = a.date]

\* An answer arrives; that of a dialog reloads the page (createNew), and a page
\* with a dialog runs no callback.
Deliver(a) ==
    /\ a \in answers
    /\ IF kind = "release" /\ a.op = "make"
       THEN /\ Ready(a.page)
            /\ answers' = {b \in answers : b.page # a.page}
            /\ dialog' = dialog \ {a.page}
       ELSE /\ a.page \notin dialog
            /\ Success(a)
            /\ answers' = answers \ {a}
            /\ UNCHANGED <<asked, count, dialog, history>>
    /\ UNCHANGED <<kind, server, starts, served, stamps>>

\* Of a request that fails, and of one whose answer is lost: the error callback
\* does nothing.
Unanswered(m) ==
    /\ asked' = asked \ {m}
    /\ answers' = answers \ {m}
    /\ lost' = IF m.page = Nil THEN lost ELSE lost \cup {m.page}
    /\ UNCHANGED <<kind, starts, served, list, date, count, dialog, stamps, newest, crossed>>

\* A connection breaks.
Lose(m) == Unanswered(m) /\ UNCHANGED server

\* No server listens.
Refuse(r) == ~serving /\ Lose(r)

Start ==
    /\ starts < MaxStarts
    /\ Server!Open
    /\ starts' = starts + 1
    /\ served' = served + 1
    /\ UNCHANGED <<kind, list, date, asked, answers, count, dialog, stamps, history>>

Stop ==
    /\ Server!Close
    /\ UNCHANGED <<kind, starts, served, list, date, asked, answers, count, dialog,
                   stamps, history>>

Next ==
    \/ Start
    \/ Stop
    \/ \E p \in Pages : Load(p) \/ Cancel(p)
    \/ \E p \in Pages, n \in Names : Deploy(p, n)
    \/ \E p \in Pages, n \in Names, s \in Scheds : MakeGroup(p, n, s) \/ MakeRelease(p, n, s)
    \/ \E p \in Pages, D \in SUBSET Names : Delete(p, D)
    \/ \E r \in asked : Serve(r) \/ Refuse(r)
    \/ \E a \in answers : Deliver(a)
    \/ \E m \in asked \cup answers : m.page # Nil /\ Lose(m)

Spec == Init /\ [][Next]_vars
-----------------------------------------------------------------------------
(* Properties *)

\* Every variable keeps its shape; a dialog exists only for releases.
TypeOK ==
    /\ kind \in {"group", "release"}
    /\ serving \in BOOLEAN /\ stored \in Maps /\ latest \in Entries \cup {Nil}
    /\ kin \in SUBSET Names
    /\ starts \in 0..MaxStarts /\ served \in Nat
    /\ list \in [Pages -> Maps \cup {Nil}] /\ date \in [Pages -> 0..served]
    /\ asked \in SUBSET Requests
    /\ \A a \in answers : a.page \in Pages /\ a.date \in 1..served /\ a.list \in Maps
    /\ count \in 0..MaxAsks
    /\ dialog \in SUBSET Pages /\ (dialog # {} => kind = "release")
    /\ stamps \in SUBSET Names
    /\ newest \in [Pages -> 0..served]
    /\ crossed \in SUBSET Pages /\ lost \in SUBSET Pages

\* A page shows the truth about the files for as long as nobody asks anything
\* and the server is not restarted, except for entries that were one object
\* when the page was answered.
TruthUntilTheNextRequest ==
    \A p \in Pages : date[p] = served /\ serving =>
        \A n \in Names \ kin : list[p][n] = stored[n]

\* A page that waits for nothing shows the last list the server made for it,
\* unless two of its requests crossed or one was lost: with one request at a
\* time the callbacks need no test of which answer is the newer.
OldListExplained ==
    \A p \in Pages : ~Waiting(p) /\ p \notin crossed \cup lost => date[p] = newest[p]

\* A group whose name its checkbox cannot carry is never deleted by any page
\* (createGroupList and selectedGroup in admin_monitor_client.js).
OddNamesStay ==
    [][kind = "group" => \A n \in Names : stored[n] # Nil /\ stored'[n] = Nil =>
          \E m \in Names : Stripped[m] = n]_vars
=============================================================================
