--------------------------- MODULE AdminPagesProofs ---------------------------
(***************************************************************************)
(* Proofs about AdminPages, for every number of windows, entries, requests *)
(* and restarts: what a page shows is true or old for a known reason.      *)
(***************************************************************************)
EXTENDS AdminPages, TLAPS

\* What the requests on their way ask for.
WellAsked ==
    \A r \in asked :
        /\ r.op = "make" => r.sched \in Scheds /\ \E n \in Names : r.names = {n}
        /\ r.op = "delete" /\ kind = "group" => \A n \in r.names : \E m \in Names : Stripped[m] = n

\* Entries that are one object are the latest entry; a server that serves has
\* been started.
ServerFits ==
    /\ kin # {} => latest \in Entries
    /\ serving => served > 0

\* An answer that is as new as the server's last reply tells the truth.
AnswersTrue ==
    \A a \in answers : a.date = served /\ serving => \A n \in Names \ kin : a.list[n] = stored[n]

\* A page whose requests met and lost nothing has at most one on its way, and
\* the answer to it is the newest.
Orderly(p) ==
    /\ \A m, k \in asked : m.page = p /\ k.page = p => m = k
    /\ \A a, b \in answers : a.page = p /\ b.page = p => a = b
    /\ \A m \in asked, a \in answers : m.page = p => a.page # p
    /\ \A a \in answers : a.page = p => a.date = newest[p]
    /\ (\A a \in answers : a.page # p) => date[p] = newest[p]

InOrder == \A p \in Pages \ (crossed \cup lost) : Orderly(p)

IInv ==
    /\ TypeOK
    /\ WellAsked
    /\ ServerFits
    /\ AnswersTrue
    /\ TruthUntilTheNextRequest
    /\ InOrder
-----------------------------------------------------------------------------
(* Requests of a page *)

LEMMA RequestType ==
  ASSUME TypeOK, NEW p \in Pages \cup {Nil}, count < MaxAsks,
         NEW op \in {"list", "make", "delete", "deploy"}, NEW names \in SUBSET Names, NEW s \in Scheds \cup {Nil}
  PROVE  /\ Request(p, op, names, s) \in Requests
         /\ count + 1 \in 0 .. MaxAsks
         /\ Request(p, op, names, s).page = p /\ Request(p, op, names, s).op = op
         /\ Request(p, op, names, s).names = names /\ Request(p, op, names, s).sched = s
<1>1. count + 1 \in 1 .. MaxAsks /\ count + 1 \in 0 .. MaxAsks
  BY AskAssumption DEF TypeOK
<1> QED
  BY <1>1 DEF Request, Requests

\* An action of a page that only adds a request r.
LEMMA AskKeeps ==
  ASSUME IInv, NEW p \in Pages, NEW r \in Requests, r.page = p, Ask(p, r),
         r.op = "make" => r.sched \in Scheds /\ \E n \in Names : r.names = {n},
         r.op = "delete" /\ kind = "group" => \A n \in r.names : \E m \in Names : Stripped[m] = n,
         UNCHANGED <<kind, server, starts, served, list, date, answers, newest, lost>>,
         dialog' \in SUBSET Pages, dialog' # {} => kind = "release", stamps' \in SUBSET Names
  PROVE  IInv'
<1>1. /\ asked' = asked \cup {r} /\ count' = count + 1 /\ count + 1 \in 0 .. MaxAsks
      /\ crossed' = (IF Waiting(p) THEN crossed \cup {p} ELSE crossed)
  BY AskAssumption DEF Ask, IInv, TypeOK
<1>2. UNCHANGED <<serving, stored, latest, kin>>
  BY DEF server
<1>3. TypeOK'
  BY <1>1, <1>2 DEF IInv, TypeOK
<1>4. WellAsked'
  BY <1>1 DEF IInv, WellAsked
<1>5. ServerFits' /\ AnswersTrue'
  BY <1>2 DEF IInv, ServerFits, AnswersTrue
<1>6. TruthUntilTheNextRequest'
  BY <1>2 DEF IInv, TruthUntilTheNextRequest
<1>7. InOrder'
  <2> SUFFICES ASSUME NEW q \in Pages, q \notin crossed' \cup lost' PROVE Orderly(q)'
    BY DEF InOrder
  <2>1. Orderly(q)
    BY <1>1 DEF IInv, InOrder
  <2>2. CASE q # p
    BY <1>1, <2>1, <2>2 DEF Orderly
  <2>3. CASE q = p
    <3>1. \A m \in asked \cup answers : m.page # p
      BY <1>1, <2>3 DEF Waiting
    <3> QED
      BY <1>1, <2>1, <2>3, <3>1 DEF Orderly
  <2> QED
    BY <2>2, <2>3
<1> QED
  BY <1>3, <1>4, <1>5, <1>6, <1>7 DEF IInv

LEMMA OrphanedType ==
  ASSUME TypeOK, NEW p \in Pages
  PROVE  /\ Orphaned(p, asked) \in SUBSET Requests
         /\ \A m \in Orphaned(p, asked) :
              /\ m.page # p
              /\ m.page \in Pages => m \in asked
              /\ \E k \in asked : m.op = k.op /\ m.names = k.names /\ m.sched = k.sched
<1> SUFFICES ASSUME NEW k \in asked,
                    NEW m, m = (IF k.page = p THEN [k EXCEPT !.page = Nil] ELSE k)
             PROVE  /\ m \in Requests /\ m.page # p
                    /\ m.page \in Pages => m \in asked
                    /\ m.op = k.op /\ m.names = k.names /\ m.sched = k.sched
  BY DEF Orphaned
<1>1. k \in Requests
  BY DEF TypeOK
<1> QED
  BY <1>1, NilAssumption DEF Requests

\* A page is loaded: it forgets its list and what it waited for.
LEMMA ReadyKeeps ==
  ASSUME IInv, NEW p \in Pages, Ready(p),
         answers' = {a \in answers : a.page # p},
         UNCHANGED <<kind, server, starts, served, stamps>>,
         dialog' \in SUBSET dialog
  PROVE  IInv'
<1> DEFINE r == Request(p, "list", {}, Nil)
           empty == [n \in Names |-> Nil]
<1>1. /\ r \in Requests /\ r.page = p /\ r.op = "list" /\ count + 1 \in 0 .. MaxAsks
  BY RequestType DEF IInv, Ready
<1> HIDE DEF r
<1>2. /\ asked' = Orphaned(p, asked) \cup {r} /\ count' = count + 1
      /\ list' = [list EXCEPT ![p] = empty]
      /\ date' = [date EXCEPT ![p] = 0] /\ newest' = [newest EXCEPT ![p] = 0]
      /\ crossed' = crossed \ {p} /\ lost' = lost \ {p}
  BY DEF Ready, r
<1>3. UNCHANGED <<serving, stored, latest, kin>>
  BY DEF server
<1>4. empty \in Maps
  BY DEF Maps
<1> HIDE DEF empty
<1>5. /\ list' \in [Pages -> Maps \cup {Nil}] /\ date' \in [Pages -> 0 .. served] /\ newest' \in [Pages -> 0 .. served]
      /\ date'[p] = 0 /\ newest'[p] = 0
      /\ \A q \in Pages \ {p} : date'[q] = date[q] /\ newest'[q] = newest[q] /\ list'[q] = list[q]
  BY <1>2, <1>4 DEF IInv, TypeOK
<1>6. TypeOK'
  <2>1. asked' \in SUBSET Requests
    BY <1>1, <1>2, OrphanedType DEF IInv
  <2> QED
    BY <1>1, <1>2, <1>3, <1>5, <2>1 DEF IInv, TypeOK
<1>7. WellAsked'
  <2> SUFFICES ASSUME NEW m \in Orphaned(p, asked)
               PROVE  /\ m.op = "make" => m.sched \in Scheds /\ \E n \in Names : m.names = {n}
                      /\ m.op = "delete" /\ kind = "group" => \A n \in m.names : \E l \in Names : Stripped[l] = n
    BY <1>1, <1>2 DEF WellAsked
  <2>1. PICK k \in asked : m.op = k.op /\ m.names = k.names /\ m.sched = k.sched
    BY OrphanedType DEF IInv
  <2> QED
    BY <2>1 DEF IInv, WellAsked
<1>8. ServerFits' /\ AnswersTrue'
  BY <1>3 DEF IInv, ServerFits, AnswersTrue
<1>9. TruthUntilTheNextRequest'
  <2> SUFFICES ASSUME NEW q \in Pages, date'[q] = served, serving, NEW n \in Names \ kin
               PROVE  list'[q][n] = stored[n]
    BY <1>3 DEF TruthUntilTheNextRequest
  <2>1. q # p
    BY <1>5 DEF IInv, ServerFits
  <2> QED
    BY <1>5, <2>1 DEF IInv, TruthUntilTheNextRequest
<1>10. InOrder'
  <2> SUFFICES ASSUME NEW q \in Pages, q \notin crossed' \cup lost' PROVE Orderly(q)'
    BY DEF InOrder
  <2>1. \A m \in asked' : m.page = q => m = r \/ (m \in asked /\ q # p)
    <3> SUFFICES ASSUME NEW m \in Orphaned(p, asked), m.page = q
                 PROVE  m \in asked /\ q # p
      BY <1>2
    <3> QED
      BY OrphanedType DEF IInv
  <2>2. CASE q # p
    <3>1. Orderly(q)
      BY <1>2, <2>2 DEF IInv, InOrder
    <3> QED
      BY <1>1, <1>5, <2>1, <2>2, <3>1 DEF Orderly
  <2>3. CASE q = p
    BY <1>1, <1>5, <2>1, <2>3 DEF Orderly
  <2> QED
    BY <2>2, <2>3
<1> QED
  BY <1>6, <1>7, <1>8, <1>9, <1>10 DEF IInv
-----------------------------------------------------------------------------
(* One lemma per action *)

LEMMA InitKeeps == Init => IInv
<1> SUFFICES ASSUME Init PROVE IInv
  OBVIOUS
<1>1. /\ kind \in {"group", "release"} /\ serving = FALSE /\ latest = Nil /\ kin = {}
      /\ stored = [n \in Names |-> Nil] /\ starts = 0 /\ served = 0 /\ count = 0
      /\ list = [p \in Pages |-> Nil] /\ date = [p \in Pages |-> 0]
      /\ asked = {} /\ answers = {} /\ dialog = {} /\ stamps = {}
      /\ newest = [p \in Pages |-> 0] /\ crossed = {} /\ lost = {}
  BY DEF Init, Server!Init
<1>2. TypeOK
  <2>1. /\ stored \in Maps /\ list \in [Pages -> Maps \cup {Nil}]
        /\ date \in [Pages -> 0 .. 0] /\ newest \in [Pages -> 0 .. 0]
    BY <1>1 DEF Maps
  <2>2. 0 \in 0 .. MaxStarts /\ 0 \in 0 .. MaxAsks
    BY AskAssumption
  <2> QED
    BY <1>1, <2>1, <2>2 DEF TypeOK
<1>3. WellAsked /\ ServerFits /\ AnswersTrue /\ TruthUntilTheNextRequest
  BY <1>1 DEF WellAsked, ServerFits, AnswersTrue, TruthUntilTheNextRequest
<1>4. InOrder
  BY <1>1 DEF InOrder, Orderly
<1> QED
  BY <1>2, <1>3, <1>4 DEF IInv

LEMMA LoadKeeps ==
  ASSUME IInv, NEW p \in Pages, Load(p)
  PROVE  IInv'
<1> QED
  BY ReadyKeeps DEF Load

LEMMA MakeGroupKeeps ==
  ASSUME IInv, NEW p \in Pages, NEW n \in Names, NEW s \in Scheds, MakeGroup(p, n, s)
  PROVE  IInv'
<1> DEFINE r == Request(p, "make", {n}, s)
<1>1. /\ r \in Requests /\ r.page = p /\ r.op = "make" /\ r.names = {n} /\ r.sched = s
  BY RequestType DEF IInv, MakeGroup, Ask
<1>2. Ask(p, r)
  BY DEF MakeGroup
<1>3. dialog \in SUBSET Pages /\ (dialog # {} => kind = "release") /\ stamps \in SUBSET Names
  BY DEF IInv, TypeOK
<1> HIDE DEF r
<1> QED
  BY <1>1, <1>2, <1>3, AskKeeps DEF MakeGroup

LEMMA MakeReleaseKeeps ==
  ASSUME IInv, NEW p \in Pages, NEW n \in Names, NEW s \in Scheds, MakeRelease(p, n, s)
  PROVE  IInv'
<1> DEFINE r == Request(p, "make", {n}, s)
<1>1. /\ r \in Requests /\ r.page = p /\ r.op = "make" /\ r.names = {n} /\ r.sched = s
  BY RequestType DEF IInv, MakeRelease, Ask
<1>2. Ask(p, r)
  BY DEF MakeRelease
<1>3. dialog' \in SUBSET Pages /\ kind = "release" /\ stamps' \in SUBSET Names
  BY DEF IInv, TypeOK, MakeRelease
<1> HIDE DEF r
<1> QED
  BY <1>1, <1>2, <1>3, AskKeeps DEF MakeRelease

LEMMA DeleteKeeps ==
  ASSUME IInv, NEW p \in Pages, NEW D \in SUBSET Names, Delete(p, D)
  PROVE  IInv'
<1> DEFINE r == Request(p, "delete", Named(D), Nil)
<1>1. /\ Named(D) \in SUBSET Names
      /\ kind = "group" => \A n \in Named(D) : \E m \in Names : Stripped[m] = n
  BY StrippedAssumption DEF Named
<1>2. /\ r \in Requests /\ r.page = p /\ r.op = "delete" /\ r.names = Named(D)
  BY <1>1, RequestType DEF IInv, Delete, Ask
<1>3. Ask(p, r)
  BY DEF Delete
<1>4. dialog \in SUBSET Pages /\ (dialog # {} => kind = "release") /\ stamps \in SUBSET Names
  BY DEF IInv, TypeOK
<1> HIDE DEF r
<1> QED
  BY <1>1, <1>2, <1>3, <1>4, AskKeeps DEF Delete

LEMMA DeployKeeps ==
  ASSUME IInv, NEW p \in Pages, NEW n \in Names, Deploy(p, n)
  PROVE  IInv'
<1> DEFINE r == [Request(p, "deploy", {n}, Nil) EXCEPT !.page = Nil]
<1>1. count + 1 \in 1 .. MaxAsks /\ count + 1 \in 0 .. MaxAsks
  BY AskAssumption DEF IInv, TypeOK, Deploy
<1>2. /\ r \in Requests /\ r.page \notin Pages /\ r.op = "deploy"
  BY <1>1, NilAssumption DEF Request, Requests
<1>3. /\ asked' = asked \cup {r} /\ count' = count + 1
      /\ UNCHANGED <<kind, serving, stored, latest, kin, starts, served, list, date, answers, dialog, stamps,
                     newest, crossed, lost>>
  BY DEF Deploy, server, history
<1> HIDE DEF r
<1>4. TypeOK'
  BY <1>1, <1>2, <1>3 DEF IInv, TypeOK
<1>5. WellAsked' /\ ServerFits' /\ AnswersTrue' /\ TruthUntilTheNextRequest'
  BY <1>2, <1>3 DEF IInv, WellAsked, ServerFits, AnswersTrue, TruthUntilTheNextRequest
<1>6. InOrder'
  <2> SUFFICES ASSUME NEW q \in Pages, q \notin crossed' \cup lost' PROVE Orderly(q)'
    BY DEF InOrder
  <2>1. Orderly(q)
    BY <1>3 DEF IInv, InOrder
  <2>2. \A m \in asked' : m.page = q => m \in asked
    BY <1>2, <1>3
  <2> QED
    BY <1>3, <2>1, <2>2 DEF Orderly
<1> QED
  BY <1>4, <1>5, <1>6 DEF IInv

\* The user closes a dialog, and the page no longer waits for its request.
LEMMA CancelKeeps ==
  ASSUME IInv, NEW p \in Pages, Cancel(p)
  PROVE  IInv'
<1> DEFINE Unread(m) == IF m.page = p /\ m.op = "make" THEN [m EXCEPT !.page = Nil] ELSE m
<1>1. /\ asked' = {Unread(m) : m \in asked}
      /\ answers' = {a \in answers : ~(a.page = p /\ a.op = "make")}
      /\ dialog' = dialog \ {p}
      /\ lost' = IF asked' = asked /\ answers' = answers THEN lost ELSE lost \cup {p}
      /\ UNCHANGED <<kind, serving, stored, latest, kin, starts, served, list, date, count, stamps, newest, crossed>>
  BY DEF Cancel, server
<1>2. ASSUME NEW k \in asked
      PROVE  /\ Unread(k) \in Requests
             /\ Unread(k).op = k.op /\ Unread(k).names = k.names /\ Unread(k).sched = k.sched
             /\ Unread(k).page \in Pages => Unread(k) = k
  <2>1. k \in Requests
    BY DEF IInv, TypeOK
  <2> QED
    BY <2>1, NilAssumption DEF Requests
<1> HIDE DEF Unread
<1>3. TypeOK'
  <2>1. asked' \in SUBSET Requests
    BY <1>1, <1>2
  <2>2. lost' \in SUBSET Pages
    BY <1>1 DEF IInv, TypeOK
  <2> QED
    BY <1>1, <2>1, <2>2 DEF IInv, TypeOK
<1>4. WellAsked'
  <2> SUFFICES ASSUME NEW k \in asked
               PROVE  /\ Unread(k).op = "make" => Unread(k).sched \in Scheds /\ \E n \in Names : Unread(k).names = {n}
                      /\ Unread(k).op = "delete" /\ kind = "group" => \A n \in Unread(k).names : \E m \in Names : Stripped[m] = n
    BY <1>1 DEF WellAsked
  <2> QED
    BY <1>2 DEF IInv, WellAsked
<1>5. ServerFits' /\ AnswersTrue' /\ TruthUntilTheNextRequest'
  BY <1>1 DEF IInv, ServerFits, AnswersTrue, TruthUntilTheNextRequest
<1>6. InOrder'
  <2> SUFFICES ASSUME NEW q \in Pages, q \notin crossed' \cup lost' PROVE Orderly(q)'
    BY DEF InOrder
  <2>1. Orderly(q)
    BY <1>1 DEF IInv, InOrder
  <2>2. \A m \in asked' : m.page = q => m \in asked
    BY <1>1, <1>2
  <2>3. CASE q # p
    BY <1>1, <2>1, <2>2, <2>3 DEF Orderly
  <2>4. CASE q = p
    <3>1. answers' = answers
      BY <1>1, <2>4
    <3> QED
      BY <1>1, <2>1, <2>2, <3>1 DEF Orderly
  <2> QED
    BY <2>3, <2>4
<1> QED
  BY <1>3, <1>4, <1>5, <1>6 DEF IInv
-----------------------------------------------------------------------------
(* The server *)

\* What a request does to the catalogue keeps its shape, and what the server
\* answers next is the truth outside the kin.
LEMMA ServerStep ==
  ASSUME IInv, NEW r \in asked, Serve(r)
  PROVE  /\ serving' = serving \/ serving' = FALSE
         /\ stored' \in Maps /\ latest' \in Entries \cup {Nil} /\ kin' \in SUBSET Names
         /\ kin' # {} => latest' \in Entries
<1>1. /\ serving /\ stored \in Maps /\ latest \in Entries \cup {Nil} /\ kin \in SUBSET Names
      /\ kin # {} => latest \in Entries
  BY DEF IInv, TypeOK, ServerFits, Serve, Answered
<1>2. r \in Requests
  BY DEF IInv, TypeOK
<1>3. CASE r.op = "list" /\ kind = "group"
  BY <1>1, <1>3 DEF Serve, Answered, Server!Reread
<1>4. CASE r.op = "list" /\ kind = "release"
  BY <1>1, <1>4 DEF Serve, server
<1>5. CASE r.op = "make"
  <2>1. PICK n \in Names : r.names = {n}
    BY <1>5 DEF IInv, WellAsked
  <2>2. r.sched \in Scheds
    BY <1>5 DEF IInv, WellAsked
  <2>3. Server!Create(n, r.sched)
    BY <1>5, <2>1 DEF Serve, Answered
  <2>4. Server!Entry(n, r.sched) \in Entries
    BY <2>2 DEF Server!Entry, Entries
  <2> QED
    BY <1>1, <2>3, <2>4 DEF Server!Create, Maps
<1>6. CASE r.op = "delete"
  <2>1. Server!Remove(r.names)
    BY <1>6 DEF Serve, Answered
  <2> QED
    BY <1>1, <2>1 DEF Server!Remove, Maps
<1>7. CASE r.op = "deploy"
  BY <1>1, <1>7 DEF Serve, Server!Close
<1> QED
  BY <1>2, <1>3, <1>4, <1>5, <1>6, <1>7 DEF Requests, IInv, TypeOK

LEMMA ServeKeeps ==
  ASSUME IInv, NEW r \in asked, Serve(r)
  PROVE  IInv'
<1>1. /\ serving' = serving \/ serving' = FALSE
      /\ stored' \in Maps /\ latest' \in Entries \cup {Nil} /\ kin' \in SUBSET Names
      /\ kin' # {} => latest' \in Entries
  BY ServerStep
<1> DEFINE d == Reply(r)
<1>2. /\ d.page = r.page /\ d.date = served + 1 /\ d.list \in Maps
      /\ \A n \in Names \ kin' : d.list[n] = stored'[n]
  BY <1>1 DEF Reply, Answer, Maps
<1> HIDE DEF d
<1>3. r \in Requests
  BY DEF IInv, TypeOK
<1>4. /\ asked' = asked \ {r} /\ served' = served + 1
      /\ answers' = IF r.page = Nil THEN answers ELSE answers \cup {d}
      /\ newest' = IF r.page = Nil THEN newest ELSE [newest EXCEPT ![r.page] = served + 1]
      /\ UNCHANGED <<kind, starts, list, date, count, dialog, stamps, crossed, lost>>
  BY DEF Serve, Answered, Replied, d
<1>5. TypeOK'
  <2>1. newest' \in [Pages -> 0 .. served + 1] /\ date' \in [Pages -> 0 .. served + 1] /\ served + 1 \in Nat
    <3>1. served \in Nat /\ date \in [Pages -> 0 .. served] /\ newest \in [Pages -> 0 .. served]
      BY DEF IInv, TypeOK
    <3>2. 0 .. served \subseteq 0 .. served + 1 /\ served + 1 \in 0 .. served + 1 /\ served + 1 \in Nat
      BY <3>1
    <3>3. date' = date
      BY <1>4
    <3>4. date' \in [Pages -> 0 .. served + 1] /\ newest \in [Pages -> 0 .. served + 1]
      BY <3>1, <3>2, <3>3
    <3>5. newest' = newest \/ newest' = [newest EXCEPT ![r.page] = served + 1]
      BY <1>4
    <3> QED
      BY <3>2, <3>4, <3>5
  <2>2. \A a \in answers' : a.page \in Pages /\ a.date \in 1 .. served + 1 /\ a.list \in Maps
    BY <1>2, <1>3, <1>4 DEF IInv, TypeOK, Requests
  <2> QED
    BY <1>1, <1>4, <2>1, <2>2 DEF IInv, TypeOK
<1>6. WellAsked'
  BY <1>4 DEF IInv, WellAsked
<1>7. ServerFits'
  BY <1>1, <1>4 DEF IInv, ServerFits, TypeOK
<1>8. AnswersTrue'
  <2> SUFFICES ASSUME NEW a \in answers', a.date = served + 1, NEW n \in Names \ kin'
               PROVE  a.list[n] = stored'[n]
    BY <1>4 DEF AnswersTrue
  <2>1. \A b \in answers : b.date # served + 1
    BY DEF IInv, TypeOK
  <2> QED
    BY <1>2, <1>4, <2>1
<1>9. TruthUntilTheNextRequest'
  <2>1. \A p \in Pages : date'[p] # served'
    BY <1>4 DEF IInv, TypeOK
  <2> QED
    BY <2>1 DEF TruthUntilTheNextRequest
<1>10. InOrder'
  <2> SUFFICES ASSUME NEW q \in Pages, q \notin crossed' \cup lost' PROVE Orderly(q)'
    BY DEF InOrder
  <2>1. Orderly(q)
    BY <1>4 DEF IInv, InOrder
  <2>2. CASE q # r.page
    <3>1. newest'[q] = newest[q]
      BY <1>4, <2>2 DEF IInv, TypeOK
    <3> QED
      BY <1>2, <1>4, <2>1, <2>2, <3>1 DEF Orderly
  <2>3. CASE q = r.page
    <3>1. /\ newest'[q] = served + 1 /\ answers' = answers \cup {d}
          /\ \A m \in asked' : m.page # q
          /\ \A a \in answers : a.page # q
      BY <1>4, <2>1, <2>3, NilAssumption DEF IInv, TypeOK, Orderly
    <3> QED
      BY <1>2, <2>3, <3>1 DEF Orderly
  <2> QED
    BY <2>2, <2>3
<1> QED
  BY <1>5, <1>6, <1>7, <1>8, <1>9, <1>10 DEF IInv
-----------------------------------------------------------------------------
(* The network, the start and the stop of the server *)

LEMMA DeliverKeeps ==
  ASSUME IInv, NEW a \in answers, Deliver(a)
  PROVE  IInv'
<1>1. a.page \in Pages /\ a.date \in 1 .. served /\ a.list \in Maps
  BY DEF IInv, TypeOK
<1>2. CASE kind = "release" /\ a.op = "make"
  <2>1. dialog \ {a.page} \in SUBSET dialog
    OBVIOUS
  <2> QED
    BY <1>1, <1>2, <2>1, ReadyKeeps DEF Deliver
<1>3. CASE ~(kind = "release" /\ a.op = "make")
  <2>1. /\ list' = [list EXCEPT ![a.page] = a.list]
        /\ date' = [date EXCEPT ![a.page] = a.date]
        /\ answers' = answers \ {a}
        /\ UNCHANGED <<kind, serving, stored, latest, kin, starts, served, asked, count, dialog, stamps,
                       newest, crossed, lost>>
    BY <1>3 DEF Deliver, Success, server, history
  <2>2. /\ list' \in [Pages -> Maps \cup {Nil}] /\ date' \in [Pages -> 0 .. served]
        /\ list'[a.page] = a.list /\ date'[a.page] = a.date
        /\ \A q \in Pages \ {a.page} : list'[q] = list[q] /\ date'[q] = date[q]
    BY <1>1, <2>1 DEF IInv, TypeOK
  <2>3. TypeOK'
    BY <2>1, <2>2 DEF IInv, TypeOK
  <2>4. WellAsked' /\ ServerFits' /\ AnswersTrue'
    BY <2>1 DEF IInv, WellAsked, ServerFits, AnswersTrue
  <2>5. TruthUntilTheNextRequest'
    <3> SUFFICES ASSUME NEW q \in Pages, date'[q] = served, serving, NEW n \in Names \ kin
                 PROVE  list'[q][n] = stored[n]
      BY <2>1 DEF TruthUntilTheNextRequest
    <3>1. CASE q = a.page
      BY <2>2, <3>1 DEF IInv, AnswersTrue
    <3>2. CASE q # a.page
      BY <2>2, <3>2 DEF IInv, TruthUntilTheNextRequest
    <3> QED
      BY <3>1, <3>2
  <2>6. InOrder'
    <3> SUFFICES ASSUME NEW q \in Pages, q \notin crossed' \cup lost' PROVE Orderly(q)'
      BY DEF InOrder
    <3>1. Orderly(q)
      BY <2>1 DEF IInv, InOrder
    <3>2. CASE q = a.page
      BY <2>1, <2>2, <3>1, <3>2 DEF Orderly
    <3>3. CASE q # a.page
      BY <2>1, <2>2, <3>1, <3>3 DEF Orderly
    <3> QED
      BY <3>2, <3>3
  <2> QED
    BY <2>3, <2>4, <2>5, <2>6 DEF IInv
<1> QED
  BY <1>2, <1>3

LEMMA LoseKeeps ==
  ASSUME IInv, NEW m \in asked \cup answers, Lose(m)
  PROVE  IInv'
<1>1. /\ asked' = asked \ {m} /\ answers' = answers \ {m}
      /\ lost' = IF m.page = Nil THEN lost ELSE lost \cup {m.page}
      /\ UNCHANGED <<kind, serving, stored, latest, kin, starts, served, list, date, count, dialog, stamps,
                     newest, crossed>>
  BY DEF Lose, Unanswered, server
<1>2. m.page \in Pages \cup {Nil}
  BY DEF IInv, TypeOK, Requests
<1>3. TypeOK'
  BY <1>1, <1>2 DEF IInv, TypeOK
<1>4. WellAsked' /\ ServerFits' /\ AnswersTrue' /\ TruthUntilTheNextRequest'
  BY <1>1 DEF IInv, WellAsked, ServerFits, AnswersTrue, TruthUntilTheNextRequest
<1>5. InOrder'
  <2> SUFFICES ASSUME NEW q \in Pages, q \notin crossed' \cup lost' PROVE Orderly(q)'
    BY DEF InOrder
  <2>1. Orderly(q) /\ m.page # q
    BY <1>1, <1>2, NilAssumption DEF IInv, InOrder
  <2> QED
    BY <1>1, <2>1 DEF Orderly
<1> QED
  BY <1>3, <1>4, <1>5 DEF IInv

LEMMA StartKeeps ==
  ASSUME IInv, Start
  PROVE  IInv'
<1>1. /\ starts < MaxStarts /\ starts' = starts + 1 /\ served' = served + 1 /\ serving' = TRUE
      /\ UNCHANGED <<kind, stored, latest, kin, list, date, asked, answers, count, dialog, stamps,
                     newest, crossed, lost>>
  BY DEF Start, Server!Open, history
<1>2. /\ served \in Nat /\ starts + 1 \in 0 .. MaxStarts
      /\ date \in [Pages -> 0 .. served] /\ newest \in [Pages -> 0 .. served]
      /\ \A a \in answers : a.page \in Pages /\ a.date \in 1 .. served /\ a.list \in Maps
  BY <1>1, AskAssumption DEF IInv, TypeOK
<1>3. TypeOK'
  <2>1. 0 .. served \subseteq 0 .. served + 1 /\ 1 .. served \subseteq 1 .. served + 1 /\ served + 1 \in Nat
    BY <1>2
  <2>2. date \in [Pages -> 0 .. served + 1] /\ newest \in [Pages -> 0 .. served + 1]
    BY <1>2, <2>1
  <2>3. \A a \in answers : a.date \in 1 .. served + 1
    BY <1>2, <2>1
  <2> QED
    BY <1>1, <1>2, <2>1, <2>2, <2>3 DEF IInv, TypeOK
<1>4. WellAsked' /\ ServerFits'
  BY <1>1, <1>2 DEF IInv, WellAsked, ServerFits
<1>5. AnswersTrue' /\ TruthUntilTheNextRequest'
  BY <1>1, <1>2 DEF AnswersTrue, TruthUntilTheNextRequest
<1>6. InOrder'
  BY <1>1 DEF IInv, InOrder, Orderly
<1> QED
  BY <1>3, <1>4, <1>5, <1>6 DEF IInv

LEMMA StopKeeps ==
  ASSUME IInv, Stop
  PROVE  IInv'
<1>1. /\ serving' = FALSE /\ latest' = Nil /\ kin' = {}
      /\ UNCHANGED <<kind, stored, starts, served, list, date, asked, answers, count, dialog, stamps,
                     newest, crossed, lost>>
  BY DEF Stop, Server!Close, history
<1>2. TypeOK'
  BY <1>1 DEF IInv, TypeOK
<1>3. WellAsked' /\ ServerFits' /\ AnswersTrue' /\ TruthUntilTheNextRequest'
  BY <1>1 DEF IInv, WellAsked, ServerFits, AnswersTrue, TruthUntilTheNextRequest
<1>4. InOrder'
  BY <1>1 DEF IInv, InOrder, Orderly
<1> QED
  BY <1>2, <1>3, <1>4 DEF IInv
-----------------------------------------------------------------------------
(* The inductive invariant and the theorems *)

LEMMA StepKeeps == IInv /\ [Next]_vars => IInv'
<1> SUFFICES ASSUME IInv, [Next]_vars PROVE IInv'
  OBVIOUS
<1>1. CASE Start
  BY <1>1, StartKeeps
<1>2. CASE Stop
  BY <1>2, StopKeeps
<1>3. ASSUME NEW p \in Pages, Load(p) \/ Cancel(p) PROVE IInv'
  BY <1>3, LoadKeeps, CancelKeeps
<1>4. ASSUME NEW p \in Pages, NEW n \in Names, Deploy(p, n) PROVE IInv'
  BY <1>4, DeployKeeps
<1>5. ASSUME NEW p \in Pages, NEW n \in Names, NEW s \in Scheds, MakeGroup(p, n, s) \/ MakeRelease(p, n, s)
      PROVE  IInv'
  BY <1>5, MakeGroupKeeps, MakeReleaseKeeps
<1>6. ASSUME NEW p \in Pages, NEW D \in SUBSET Names, Delete(p, D) PROVE IInv'
  BY <1>6, DeleteKeeps
<1>7. ASSUME NEW r \in asked, Serve(r) \/ Refuse(r) PROVE IInv'
  BY <1>7, ServeKeeps, LoseKeeps DEF Refuse
<1>8. ASSUME NEW a \in answers, Deliver(a) PROVE IInv'
  BY <1>8, DeliverKeeps
<1>9. ASSUME NEW m \in asked \cup answers, Lose(m) PROVE IInv'
  BY <1>9, LoseKeeps
<1>10. CASE UNCHANGED vars
  BY <1>10 DEF vars, server, history, IInv, TypeOK, WellAsked, ServerFits, AnswersTrue,
               TruthUntilTheNextRequest, InOrder, Orderly
<1> QED
  BY <1>1, <1>2, <1>3, <1>4, <1>5, <1>6, <1>7, <1>8, <1>9, <1>10 DEF Next

\* The inductive invariant of the pages.
THEOREM PagesInvariant == Spec => []IInv
<1>1. Init => IInv
  BY InitKeeps
<1>2. IInv /\ [Next]_vars => IInv'
  BY StepKeeps
<1> QED
  BY <1>1, <1>2, PTL DEF Spec

\* Every variable keeps its shape: no answer is made for a window that is gone.
THEOREM PagesTypes == Spec => []TypeOK
<1>1. IInv => TypeOK
  BY DEF IInv
<1> QED
  BY <1>1, PagesInvariant, PTL

\* The callbacks of the pages show the truth about the files as long as nobody
\* asks anything and the server is not restarted, apart from kin.
THEOREM PagesShowTheTruth == Spec => []TruthUntilTheNextRequest
<1>1. IInv => TruthUntilTheNextRequest
  BY DEF IInv
<1> QED
  BY <1>1, PagesInvariant, PTL

\* A page whose requests neither crossed nor got lost shows, once it waits for
\* nothing, the last list that the server made for it.
THEOREM OldListsAreExplained == Spec => []OldListExplained
<1>1. IInv => OldListExplained
  <2> SUFFICES ASSUME IInv, NEW p \in Pages, ~Waiting(p), p \notin crossed \cup lost
               PROVE  date[p] = newest[p]
    BY DEF OldListExplained
  <2>1. Orderly(p)
    BY DEF IInv, InOrder
  <2>2. \A a \in answers : a.page # p
    BY DEF Waiting
  <2> QED
    BY <2>1, <2>2 DEF Orderly
<1> QED
  BY <1>1, PagesInvariant, PTL

\* Whatever windows, restarts and kin do, a group whose name no checkbox carries
\* stays: the only step that empties an entry is a delete, which names what the
\* checkboxes carry, and the kin are overwritten by an entry, never emptied.
THEOREM OddGroupsStay == Spec => OddNamesStay
<1> DEFINE Stays == kind = "group" => \A n \in Names : stored[n] # Nil /\ stored'[n] = Nil =>
                        \E m \in Names : Stripped[m] = n
<1>1. IInv /\ [Next]_vars => [Stays]_vars
  <2> SUFFICES ASSUME IInv, [Next]_vars, kind = "group", NEW n \in Names, stored[n] # Nil, stored'[n] = Nil
               PROVE  \E m \in Names : Stripped[m] = n
    OBVIOUS
  <2>1. stored' # stored
    OBVIOUS
  <2>2. PICK r \in asked : Serve(r)
    <3>1. \/ Start \/ Stop
          \/ \E p \in Pages : Load(p) \/ Cancel(p)
          \/ \E p \in Pages, l \in Names : Deploy(p, l)
          \/ \E p \in Pages, l \in Names, s \in Scheds : MakeGroup(p, l, s) \/ MakeRelease(p, l, s)
          \/ \E p \in Pages, D \in SUBSET Names : Delete(p, D)
          \/ \E m \in asked \cup answers : Lose(m)
          \/ \E a \in answers : Deliver(a)
          \/ UNCHANGED vars
          => UNCHANGED stored
      BY DEF Start, Stop, Load, Cancel, Deploy, MakeGroup, MakeRelease, Delete, Lose, Unanswered, Deliver,
             Server!Open, Server!Close, server, vars
    <3> QED
      BY <2>1, <3>1 DEF Next, Refuse
  <2>3. /\ stored \in Maps /\ kin \in SUBSET Names /\ r \in Requests
        /\ kin # {} => latest # Nil
    BY NilAssumption DEF IInv, TypeOK, ServerFits, Entries
  <2>4. CASE r.op = "make"
    <3>1. PICK l \in Names : r.names = {l} /\ r.sched \in Scheds
      BY <2>4 DEF IInv, WellAsked
    <3>2. stored' = [stored EXCEPT ![l] = Server!Entry(l, r.sched)]
      BY <2>2, <2>4, <3>1 DEF Serve, Server!Create
    <3>3. Server!Entry(l, r.sched) # Nil
      BY <3>1, NilAssumption DEF Server!Entry
    <3> QED
      BY <2>3, <3>2, <3>3 DEF Maps
  <2>5. CASE r.op = "delete"
    <3>1. stored' = [l \in Names |-> CASE l \in r.names -> Nil [] l \in kin \ r.names -> latest
                                       [] OTHER -> stored[l]]
      BY <2>2, <2>5 DEF Serve, Server!Remove
    <3>2. n \in r.names
      BY <2>3, <3>1
    <3> QED
      BY <2>5, <3>2 DEF IInv, WellAsked
  <2>6. CASE r.op = "list" \/ r.op = "deploy"
    <3>1. stored' = stored
      BY <2>2, <2>6 DEF Serve, Server!Reread, Server!Close, server
    <3> QED
      BY <2>1, <3>1
  <2> QED
    BY <2>3, <2>4, <2>5, <2>6 DEF Requests
<1> QED
  BY <1>1, PagesInvariant, PTL DEF Spec, OddNamesStay
=============================================================================
