------------------------------- MODULE Catalog -------------------------------
(***************************************************************************)
(* What a client of the administration server sees of the releases, or of  *)
(* the groups: a catalogue of named entries that survives the server.      *)
(* AdminManager implements one for each of the two kinds with a meta file, *)
(* a map in memory and a template object.                                  *)
(*                                                                         *)
(* It is not the catalogue one would expect.  The entries created since    *)
(* the server started are "kin" until the catalogue is read again: they    *)
(* are one object, and every removal stores the latest of them for all.    *)
(***************************************************************************)
CONSTANTS
    Names,   \* names of entries
    Scheds,  \* values of the submitted fields
    Nil      \* no entry

VARIABLES
    serving,  \* requests are carried out
    stored,   \* stored[n]: the entry under name n
    latest,   \* the entry created last since the server started
    kin       \* names whose entries are the one object

cvars == <<serving, stored, latest, kin>>

Entry(n, s) == [name |-> n, sched |-> s]

Init ==
    /\ serving = FALSE
    /\ stored = [n \in Names |-> Nil]
    /\ latest = Nil
    /\ kin = {}

Open ==
    /\ ~serving
    /\ serving' = TRUE
    /\ UNCHANGED <<stored, latest, kin>>

\* The server ends, by itself or by a request it cannot carry out.
Close ==
    /\ serving
    /\ serving' = FALSE
    /\ latest' = Nil
    /\ kin' = {}
    /\ UNCHANGED stored

Create(n, s) ==
    /\ serving
    /\ stored' = [stored EXCEPT ![n] = Entry(n, s)]
    /\ latest' = Entry(n, s)
    /\ kin' = kin \cup {n}
    /\ UNCHANGED serving

Remove(D) ==
    /\ serving
    /\ stored' = [n \in Names |-> CASE n \in D        -> Nil
                                    [] n \in kin \ D  -> latest
                                    [] OTHER          -> stored[n]]
    /\ kin' = kin \ D
    /\ UNCHANGED <<serving, latest>>

\* The catalogue is read again: its entries are objects of their own.
Reread ==
    /\ serving
    /\ kin' = {}
    /\ UNCHANGED <<serving, stored, latest>>

Next ==
    \/ Open
    \/ Close
    \/ \E n \in Names, s \in Scheds : Create(n, s)
    \/ \E D \in SUBSET Names : Remove(D)
    \/ Reread

Spec == Init /\ [][Next]_cvars
=============================================================================
