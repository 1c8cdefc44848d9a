----------------------------- MODULE AdminSystem -----------------------------
(***************************************************************************)
(* The browser pages of AdminPages in front of the real administration     *)
(* manager: a request that a page sent is carried out by the handler, the  *)
(* maps, the shared template and the file of AdminManager, while other     *)
(* clients work on the profiles and on the other store, and the server may *)
(* end at any moment, inside makeStorage as well.                          *)
(*                                                                         *)
(* Saves are taken to succeed (SavesMayFail and SavesMayTear are FALSE):   *)
(* what a page is answered after a failed one is not modelled.             *)
(***************************************************************************)
EXTENDS AdminManager

CONSTANTS
    Pages, Stripped, MaxAsks, MaxStarts,  \* as in AdminPages
    ProfileNames, \* names of profiles: times of day at which no release was made
    Crowds        \* sets of kinds for which other clients than the pages may send requests

ASSUME PageAssumption == Stripped \in [Names -> Names] /\ MaxAsks \in Nat /\ MaxStarts \in Nat
ASSUME NoPageAssumption == Nil \notin Pages /\ Nil \notin [name : Names, sched : Scheds]
ASSUME CrowdAssumption == Crowds \subseteq SUBSET Kinds

VARIABLES
    kind, starts, served, list, date, asked, answers, count, dialog, stamps,
    newest, crossed, lost,  \* as in AdminPages
    others    \* the kinds for which other clients send requests

pageVars == <<kind, starts, served, list, date, asked, answers, count, dialog, stamps,
              newest, crossed, lost>>
systemVars == <<vars, pageVars, others>>

Page == INSTANCE AdminPages WITH
    serving <- loaded[kind], stored <- ShownMap(disk[kind]),
    latest <- Shown(tpl[kind]), kin <- Kin(kind)

SystemInit == Init /\ Page!Init /\ others \in Crowds
-----------------------------------------------------------------------------
(* The pages and the network *)

\* Names the pages' entries may have: a release has none of a profile.
Free(n) == kind = "release" => n \notin ProfileNames

Browse ==
    /\ UNCHANGED <<vars, kind, others>>
    /\ \/ \E p \in Pages : Page!Load(p) \/ Page!Cancel(p)
       \/ \E p \in Pages, n \in Names : Page!Deploy(p, n)
       \/ \E p \in Pages, n \in Names, s \in Scheds :
             Free(n) /\ (Page!MakeGroup(p, n, s) \/ Page!MakeRelease(p, n, s))
       \/ \E p \in Pages, D \in SUBSET Names : Page!Delete(p, D)
       \/ \E a \in answers : Page!Deliver(a)
       \/ \E m \in asked \cup answers : m.page # Nil /\ Page!Lose(m)
       \/ \E r \in asked : ~up /\ Page!Refuse(r)
-----------------------------------------------------------------------------
(* The server *)

Handle(r) ==
    CASE r.op = "list"   -> List(kind)
      [] r.op = "make"   -> \E n \in r.names : New(kind, n, r.sched)
      [] r.op = "delete" -> Delete(kind, r.names)
      [] r.op = "deploy" -> \E n \in r.names : SetActivity(n, FALSE)

\* Without a map every handler throws or answers with an error.
Serve(r) ==
    /\ up /\ r \in asked
    /\ Handle(r) /\ UNCHANGED <<kind, others>>
    /\ IF loaded[kind] THEN Page!Answered(r) ELSE Page!Unanswered(r)

\* A start that could not load the map of the pages' kind offers them nothing.
Start ==
    /\ Boot
    /\ IF loaded'[kind]
       THEN starts < MaxStarts /\ starts' = starts + 1 /\ served' = served + 1
       ELSE UNCHANGED <<starts, served>>
    /\ UNCHANGED <<kind, list, date, asked, answers, count, dialog, stamps,
                   newest, crossed, lost, others>>

Fail ==
    /\ Crash \/ BootCrash
    /\ UNCHANGED <<pageVars, others>>

\* The page of the builds, the page of the other store, and any other client.
Elsewhere ==
    /\ \/ \E k \in others \ {kind} :
             \/ List(k)
             \/ \E D \in SUBSET Names : Delete(k, D)
             \/ \E n \in Names, s \in Scheds :
                   (k = "profile" => n \in ProfileNames) /\ New(k, n, s)
       \/ /\ "profile" \in others
          /\ \/ \E n \in Names, s \in Scheds : Edit(n, s)
             \/ \E n \in Names, a \in BOOLEAN : SetActivity(n, a)
             \/ \E n \in Names, d \in Records : d.name \in ProfileNames /\ Run(n, d)
    /\ UNCHANGED <<pageVars, others>>

SystemNext ==
    \/ Browse
    \/ \E r \in asked : Serve(r)
    \/ Start
    \/ Fail
    \/ Elsewhere

SystemSpec == SystemInit /\ [][SystemNext]_systemVars
-----------------------------------------------------------------------------
(* Properties *)

\* Whatever other clients and crashes do, each window of the groups page or of
\* the releases page sees a Catalog, and may rely on what AdminPages promises.
PagesSeeACatalog == Page!Spec
=============================================================================
