--------------------------- MODULE DashboardProofs ---------------------------
(***************************************************************************)
(* Proofs about the dashboard, for any number of loads, servers and        *)
(* requests.                                                               *)
(***************************************************************************)
EXTENDS Dashboard, TLAPS

(* The button is what keeps loads apart: while it is disabled one load,    *)
(* the last begun, waits, and the notice says so.                          *)
OneLoad ==
  /\ loading = IF button = "disabled" THEN {loads} ELSE {}
  /\ page.notice = "loading" <=> button = "disabled"

Inv == TypeOK /\ OneLoad /\ ReadPageIsOneLoad /\ OperationalOnlyIfRead

PageType ==
  [badge : {"none", "ok", "degraded"}, counts : Loads \cup {NotDrawn},
   sources : Loads \cup {NotDrawn}, warnings : Drawings, layers : Drawings,
   notice : {"loading", "read", "failed"},
   note : {"initial", "current", "no substitute"}]

-----------------------------------------------------------------------------

LEMMA LoadNumbers ==
  ASSUME NEW l \in Loads
  PROVE  l \in Int /\ l \in Drawings /\ -l \in Drawings /\ NotDrawn \in Drawings
  BY DashboardAssumption DEF Loads, Drawings, NotDrawn

LEMMA FailurePageType ==
  ASSUME NEW drawn \in PageType, NEW l \in Loads
  PROVE  /\ FailurePage(drawn, l) \in PageType
         /\ FailurePage(drawn, l).notice = "failed"
         /\ FailurePage(drawn, l).badge = "degraded"
  <1>1. -l \in Drawings
    BY LoadNumbers
  <1> QED BY <1>1 DEF FailurePage, PageType

LEMMA InvInit == Init => Inv
  <1> SUFFICES ASSUME Init PROVE Inv
    OBVIOUS
  <1>1. 1 \in Loads /\ NotDrawn \in Drawings
    BY DashboardAssumption DEF Loads, Drawings, NotDrawn
  <1>2. TypeOK
    BY <1>1, DashboardAssumption DEF Init, TypeOK, Down, Pending, Failed
  <1>3. OneLoad /\ ReadPageIsOneLoad /\ OperationalOnlyIfRead
    BY DEF Init, OneLoad, ReadPageIsOneLoad, OperationalOnlyIfRead
  <1> QED BY <1>2, <1>3 DEF Inv

(* What changes only the server, or an answer still pending, leaves the    *)
(* page what it was.                                                       *)
LEMMA OutsideStep ==
  ASSUME Inv,
         \/ StartServer \/ StopServer
         \/ \E l \in Loads, r \in Requests : Answer(l, r) \/ FailRequest(l, r)
  PROVE  Inv'
  <1>1. UNCHANGED <<loads, loading, button, page>>
    BY DEF StartServer, StopServer, Answer, FailRequest
  <1>2. /\ server' \in 0..MaxServers /\ servers' \in 0..MaxServers
        /\ answers' \in [Loads -> [Requests -> Failed..MaxServers]]
    <2> DEFINE Servers == 0..MaxServers
    <2>0. /\ MaxServers \in Nat /\ server \in Servers /\ servers \in Servers
          /\ answers \in [Loads -> [Requests -> Failed..MaxServers]]
      BY DashboardAssumption DEF Inv, TypeOK
    <2>1. CASE StartServer \/ StopServer
      <3>1. UNCHANGED answers /\ server' \in Servers /\ servers' \in Servers
        BY <2>0, <2>1 DEF StartServer, StopServer, Down
      <3> QED BY <2>0, <3>1
    <2>2. ASSUME NEW l \in Loads, NEW r \in Requests, Answer(l, r)
          PROVE  /\ server' \in 0..MaxServers /\ servers' \in 0..MaxServers
                 /\ answers' \in [Loads -> [Requests -> Failed..MaxServers]]
      <3>1. server \in Failed..MaxServers
        BY <2>0 DEF Failed
      <3> QED BY <2>2, <3>1 DEF Inv, TypeOK, Answer, serving
    <2>3. ASSUME NEW l \in Loads, NEW r \in Requests, FailRequest(l, r)
          PROVE  /\ server' \in 0..MaxServers /\ servers' \in 0..MaxServers
                 /\ answers' \in [Loads -> [Requests -> Failed..MaxServers]]
      <3>1. Failed \in Failed..MaxServers
        BY DashboardAssumption DEF Failed
      <3> QED BY <2>3, <3>1 DEF Inv, TypeOK, FailRequest, serving
    <2> QED BY <2>1, <2>2, <2>3
  <1>3. \A l \in Loads, r \in Requests :
           answers[l][r] # Pending => answers'[l][r] = answers[l][r]
    <2>1. answers \in [Loads -> [Requests -> Failed..MaxServers]]
      BY DEF Inv, TypeOK
    <2>2. CASE StartServer \/ StopServer
      BY <2>2 DEF StartServer, StopServer
    <2>3. ASSUME NEW k \in Loads, NEW q \in Requests, answers[k][q] = Pending,
                 NEW a, answers' = [answers EXCEPT ![k][q] = a]
          PROVE  \A l \in Loads, r \in Requests :
                    answers[l][r] # Pending => answers'[l][r] = answers[l][r]
      BY <2>1, <2>3
    <2> QED BY <2>2, <2>3 DEF Answer, FailRequest
  <1>4. TypeOK'
    BY <1>1, <1>2 DEF Inv, TypeOK
  <1>5. OneLoad' /\ OperationalOnlyIfRead'
    BY <1>1 DEF Inv, OneLoad, OperationalOnlyIfRead
  <1>6. ReadPageIsOneLoad'
    <2>1. loads \in Loads /\ "status" \in Requests
      BY DashboardAssumption DEF Inv, TypeOK
    <2>2. page.notice = "read" =>
             \A r \in Requests : answers[loads][r] # Pending
      BY <2>1 DEF Inv, ReadPageIsOneLoad, Pending
    <2>3. page.notice = "read" =>
             \A r \in Requests : answers'[loads][r] = answers[loads][r]
      BY <1>3, <2>1, <2>2
    <2> QED BY <1>1, <2>1, <2>3 DEF Inv, ReadPageIsOneLoad
  <1> QED BY <1>4, <1>5, <1>6 DEF Inv

LEMMA BeginLoadStep ==
  ASSUME Inv, BeginLoad
  PROVE  Inv'
  <1>1. page' = [page EXCEPT !.notice = "loading"] /\ page \in PageType
    BY DEF BeginLoad, Inv, TypeOK, PageType
  <1>2. /\ page' \in PageType /\ page'.notice = "loading"
    BY <1>1 DEF PageType
  <1>3. loads' \in Loads /\ loads' = loads + 1
    <2>1. loads \in 1..MaxLoads /\ loads < MaxLoads /\ loads' = loads + 1
      BY DEF BeginLoad, Inv, TypeOK, Loads
    <2> QED BY <2>1, DashboardAssumption DEF Loads
  <1>4. loading' = {loads'} /\ button' = "disabled"
    BY DEF BeginLoad, Inv, OneLoad
  <1>5. TypeOK'
    BY <1>2, <1>3, <1>4 DEF Inv, TypeOK, PageType, BeginLoad, serving
  <1>6. OneLoad' /\ ReadPageIsOneLoad' /\ OperationalOnlyIfRead'
    BY <1>2, <1>4 DEF OneLoad, ReadPageIsOneLoad, OperationalOnlyIfRead
  <1> QED BY <1>5, <1>6 DEF Inv

(* A load that ends was the only one and the last begun. *)
LEMMA LoadOver ==
  ASSUME Inv, NEW l \in Loads, Render(l) \/ Reject(l)
  PROVE  /\ l = loads /\ loading' = {} /\ button' = "enabled"
         /\ UNCHANGED <<serving, loads, answers>>
         /\ page \in PageType
         /\ page' \in PageType /\ page'.notice # "loading" => TypeOK'
  <1>1. l \in loading /\ loading' = loading \ {l} /\ button' = "enabled"
    BY DEF Render, Reject
  <1>2. UNCHANGED <<serving, loads, answers>>
    BY DEF Render, Reject
  <1>3. l = loads /\ loading' = {}
    BY <1>1 DEF Inv, OneLoad
  <1>4. page \in PageType
    BY DEF Inv, TypeOK, PageType
  <1>5. page' \in PageType => TypeOK'
    BY <1>1, <1>2, <1>3 DEF Inv, TypeOK, PageType, serving
  <1> QED BY <1>1, <1>2, <1>3, <1>4, <1>5

LEMMA RejectStep ==
  ASSUME Inv, NEW l \in Loads, Reject(l)
  PROVE  Inv'
  <1>1. page' \in PageType /\ page'.notice = "failed" /\ page'.badge = "degraded"
    BY LoadOver, FailurePageType DEF Reject
  <1>2. TypeOK'
    BY <1>1, LoadOver
  <1>3. OneLoad' /\ ReadPageIsOneLoad' /\ OperationalOnlyIfRead'
    BY <1>1, LoadOver DEF OneLoad, ReadPageIsOneLoad, OperationalOnlyIfRead
  <1> QED BY <1>2, <1>3 DEF Inv

LEMMA RenderStep ==
  ASSUME Inv, NEW l \in Loads, Render(l)
  PROVE  Inv'
  <1> DEFINE drawn == [page EXCEPT !.badge = Badge(l), !.counts = l, !.warnings = l,
                                   !.sources = l, !.layers = l]
             part == [drawn EXCEPT !.layers = -l]
             read == [drawn EXCEPT !.notice = "read", !.note = "current"]
  <1>1. page \in PageType /\ l = loads /\ UNCHANGED <<loads, answers>>
    BY LoadOver
  <1>2. /\ Badge(l) \in {"ok", "degraded"}
        /\ Badge(l) = "ok" <=> answers[l]["status"] \in Healthy
    BY DEF Badge
  <1>3. drawn \in PageType
    BY <1>1, <1>2, LoadNumbers DEF PageType
  <1>4. CASE page' = FailurePage(part, l)
    <2>1. part \in PageType
      BY <1>3, LoadNumbers DEF PageType
    <2>2. page' \in PageType /\ page'.notice = "failed" /\ page'.badge = "degraded"
      BY <1>4, <2>1, FailurePageType
    <2>3. TypeOK'
      BY <2>2, LoadOver
    <2>4. OneLoad' /\ ReadPageIsOneLoad' /\ OperationalOnlyIfRead'
      BY <2>2, LoadOver DEF OneLoad, ReadPageIsOneLoad, OperationalOnlyIfRead
    <2> QED BY <2>3, <2>4 DEF Inv
  <1>5. CASE page' = read
    <2>1. page' \in PageType /\ page'.notice = "read"
      BY <1>3, <1>5 DEF PageType
    <2>2. /\ page'.counts = l /\ page'.sources = l /\ page'.warnings = l
          /\ page'.layers = l /\ page'.badge = Badge(l)
      BY <1>1, <1>5 DEF PageType
    <2>3. \A r \in Requests : answers[l][r] > 0
      BY DEF Render
    <2>4. TypeOK'
      BY <2>1, LoadOver
    <2>5. ReadPageIsOneLoad'
      BY <1>1, <1>2, <2>1, <2>2, <2>3 DEF ReadPageIsOneLoad
    <2>6. OneLoad' /\ OperationalOnlyIfRead'
      BY <2>1, LoadOver DEF OneLoad, OperationalOnlyIfRead
    <2> QED BY <2>4, <2>5, <2>6 DEF Inv
  <1> QED BY <1>4, <1>5 DEF Render

LEMMA Invariant == Spec => []Inv
  <1>1. Inv /\ UNCHANGED vars => Inv'
    BY DEF Inv, TypeOK, OneLoad, ReadPageIsOneLoad, OperationalOnlyIfRead, vars, serving
  <1>2. Inv /\ [Next]_vars => Inv'
    BY <1>1, OutsideStep, BeginLoadStep, RenderStep, RejectStep DEF Next
  <1> QED BY <1>2, InvInit, PTL DEF Spec

-----------------------------------------------------------------------------

(* Every variable keeps its type. *)
THEOREM TypeCorrect == Spec => []TypeOK
  <1>1. Inv => TypeOK
    BY DEF Inv
  <1> QED BY <1>1, Invariant, PTL

(* However many loads, servers and late answers: a page that says it has   *)
(* read the API state is drawn from one load, the last.                    *)
THEOREM ReadPageCorrect == Spec => []ReadPageIsOneLoad
  <1>1. Inv => ReadPageIsOneLoad
    BY DEF Inv
  <1> QED BY <1>1, Invariant, PTL

(* The badge says operational only on a page that was read. *)
THEOREM OperationalCorrect == Spec => []OperationalOnlyIfRead
  <1>1. Inv => OperationalOnlyIfRead
    BY DEF Inv
  <1> QED BY <1>1, Invariant, PTL

(* There is never more than one load waiting. *)
THEOREM LoadsDoNotOverlap == Spec => [](\A l, k \in loading : l = k)
  <1>1. Inv => \A l, k \in loading : l = k
    BY DEF Inv, OneLoad
  <1> QED BY <1>1, Invariant, PTL

(* A load with a failed request waits until its own end, with the failure  *)
(* at hand, and its end gives the button back beside the failure notice:   *)
(* no answer that comes later makes it a page that was read.               *)
FailureStaysUntilNoticed ==
  \A l \in loading : (\E r \in Requests : answers[l][r] = Failed) =>
    \/ l \in loading' /\ \E r \in Requests : answers'[l][r] = Failed
    \/ button' = "enabled" /\ page'.notice = "failed"

(* What FailureGivesButtonBack needs of every step, fairness aside.        *)
THEOREM FailureIsNoticed == Spec => [][FailureStaysUntilNoticed]_vars
  <1> DEFINE FailedAt(l) == \E r \in Requests : answers[l][r] = Failed
  <1>1. ASSUME Inv, Next, NEW l \in loading, FailedAt(l)
        PROVE  \/ l \in loading' /\ FailedAt(l)'
               \/ button' = "enabled" /\ page'.notice = "failed"
    <2>1. PICK r \in Requests : answers[l][r] = Failed
      BY <1>1
    <2>2. answers \in [Loads -> [Requests -> Failed..MaxServers]] /\ l \in Loads
          /\ loading \subseteq {l}
      BY <1>1 DEF Inv, TypeOK, OneLoad
    <2>3. CASE StartServer \/ StopServer \/ BeginLoad
      BY <1>1, <2>1, <2>3 DEF StartServer, StopServer, BeginLoad
    <2>4. ASSUME NEW k \in Loads, NEW q \in Requests, Answer(k, q) \/ FailRequest(k, q)
          PROVE  l \in loading' /\ FailedAt(l)'
      <3>1. loading' = loading /\ answers[k][q] = Pending
            /\ \E v : answers' = [answers EXCEPT ![k][q] = v]
        BY <2>4 DEF Answer, FailRequest
      <3>2. ~(k = l /\ q = r)
        BY <2>1, <3>1 DEF Pending, Failed
      <3>3. answers'[l][r] = Failed
        BY <2>1, <2>2, <3>1, <3>2
      <3> QED BY <1>1, <3>1, <3>3
    <2>5. ASSUME NEW k \in Loads, Render(k)
          PROVE  FALSE
      <3>1. k = l
        BY <2>2, <2>5 DEF Render
      <3>2. answers[l][r] > 0
        BY <2>5, <3>1 DEF Render
      <3> QED BY <2>1, <3>2 DEF Failed
    <2>6. ASSUME NEW k \in Loads, Reject(k)
          PROVE  button' = "enabled" /\ page'.notice = "failed"
      <3>1. page \in PageType
        BY <1>1 DEF Inv, TypeOK, PageType
      <3> QED BY <2>6, <3>1 DEF Reject, FailurePage, PageType
    <2> QED BY <1>1, <2>3, <2>4, <2>5, <2>6 DEF Next
  <1>2. Inv /\ [Next]_vars => [FailureStaysUntilNoticed]_vars
    BY <1>1 DEF FailureStaysUntilNoticed
  <1> QED BY <1>2, Invariant, PTL DEF Spec

=============================================================================
