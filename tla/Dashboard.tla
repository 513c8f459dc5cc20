------------------------------ MODULE Dashboard ------------------------------
(***************************************************************************)
(* The browser page (frontend/src/app.js): a load sends its requests at    *)
(* once, waits with Promise.all and draws the page or a failure notice;    *)
(* the first load runs when the script does, the others on the button.     *)
(* The server may stop, and start again with another state, between any    *)
(* two answers; an answer, or the failure of a request, comes at any time  *)
(* or never, also after its load is over.                                  *)
(*                                                                         *)
(* A server state is the number of the server that has it.  What a part of *)
(* the page shows is the number of the load it was drawn from.             *)
(***************************************************************************)
EXTENDS Integers, FiniteSets

CONSTANTS
  Requests,    \* the resources a load reads
  MaxLoads,    \* bound: loads
  MaxServers,  \* bound: servers, one after the other
  Healthy,     \* the servers whose health is ok
  Undrawable   \* those with a disruption whose geometry the map rejects

ASSUME DashboardAssumption ==
  /\ {"status", "disruptions"} \subseteq Requests
  /\ MaxLoads \in Nat \ {0} /\ MaxServers \in Nat
  /\ Healthy \subseteq 1..MaxServers /\ Undrawable \subseteq 1..MaxServers

VARIABLES
  server,   \* the server that is up, or Down
  servers,  \* servers started so far
  loads,    \* loads begun so far
  loading,  \* the loads that wait for their requests
  answers,  \* of each load and request: Pending, Failed or the server's state
  button,   \* "enabled" or "disabled"
  page

serving == <<server, servers>>
vars == <<serving, loads, loading, answers, button, page>>

Down == 0
Pending == 0
Failed == -1
Loads == 1..MaxLoads
NotDrawn == 0

Init ==
  /\ server = Down
  /\ servers = 0
  /\ loads = 1
  /\ loading = {1}
  /\ answers = [l \in Loads |-> [r \in Requests |-> Pending]]
  /\ button = "disabled"
  /\ page = [badge |-> "none", counts |-> NotDrawn, sources |-> NotDrawn,
             warnings |-> NotDrawn, layers |-> NotDrawn, notice |-> "loading",
             note |-> "initial"]

-----------------------------------------------------------------------------
(* The server and the network *)

StartServer ==
  /\ server = Down /\ servers < MaxServers
  /\ servers' = servers + 1
  /\ server' = servers + 1
  /\ UNCHANGED <<loads, loading, answers, button, page>>

StopServer ==
  /\ server # Down
  /\ server' = Down
  /\ UNCHANGED <<servers, loads, loading, answers, button, page>>

(* Only requests that were sent. *)
Sent(l) == l \in 1..loads

Answer(l, r) ==
  /\ Sent(l) /\ answers[l][r] = Pending /\ server # Down
  /\ answers' = [answers EXCEPT ![l][r] = server]
  /\ UNCHANGED <<serving, loads, loading, button, page>>

(* fetch rejects, the answer is not ok, or its body is no JSON. *)
FailRequest(l, r) ==
  /\ Sent(l) /\ answers[l][r] = Pending
  /\ answers' = [answers EXCEPT ![l][r] = Failed]
  /\ UNCHANGED <<serving, loads, loading, button, page>>

-----------------------------------------------------------------------------
(* The page *)

(* Mutant: the button is not disabled. *)
BeginLoad_ButtonStays ==
  /\ button = "enabled" /\ loads < MaxLoads
  /\ loads' = loads + 1
  /\ loading' = loading \cup {loads + 1}
  /\ page' = [page EXCEPT !.notice = "loading"]
  /\ UNCHANGED <<serving, answers, button>>

(* The button is clicked: load runs to its await. *)
BeginLoad ==
  /\ button = "enabled" /\ loads < MaxLoads
  /\ loads' = loads + 1
  /\ loading' = loading \cup {loads + 1}
  /\ button' = "disabled"
  /\ page' = [page EXCEPT !.notice = "loading"]
  /\ UNCHANGED <<serving, answers>>

Badge(l) == IF answers[l]["status"] \in Healthy THEN "ok" ELSE "degraded"

(* Mutant: the badge is left as it was drawn before the failure. *)
FailurePage_BadgeKept(drawn, l) ==
  [drawn EXCEPT !.warnings = -l, !.notice = "failed", !.note = "no substitute"]

(* The catch clause: the error of load l in place of the warnings; what is *)
(* drawn of counts, sources and layers stays.                              *)
FailurePage(drawn, l) ==
  [drawn EXCEPT !.badge = "degraded", !.warnings = -l, !.notice = "failed",
                !.note = "no substitute"]

(* All requests answered: badge, counts, warnings, sources and the layers  *)
(* are drawn in one go, unless a disruption of the answer cannot be drawn; *)
(* then the layers are in part of load l and the rest is the failure page. *)
Render(l) ==
  /\ l \in loading
  /\ \A r \in Requests : answers[l][r] > 0
  /\ LET drawn == [page EXCEPT !.badge = Badge(l), !.counts = l, !.warnings = l,
                               !.sources = l, !.layers = l] IN
     page' = IF answers[l]["disruptions"] \in Undrawable
             THEN FailurePage([drawn EXCEPT !.layers = -l], l)
             ELSE [drawn EXCEPT !.notice = "read", !.note = "current"]
  /\ loading' = loading \ {l}
  /\ button' = "enabled"
  /\ UNCHANGED <<serving, loads, answers>>

(* Mutant: Promise.allSettled in place of Promise.all. *)
Reject_WhenAllSettled(l) ==
  /\ l \in loading
  /\ \E r \in Requests : answers[l][r] = Failed
  /\ \A r \in Requests : answers[l][r] # Pending
  /\ page' = FailurePage(page, l)
  /\ loading' = loading \ {l}
  /\ button' = "enabled"
  /\ UNCHANGED <<serving, loads, answers>>

(* One request failed: the others are no longer waited for. *)
Reject(l) ==
  /\ l \in loading
  /\ \E r \in Requests : answers[l][r] = Failed
  /\ page' = FailurePage(page, l)
  /\ loading' = loading \ {l}
  /\ button' = "enabled"
  /\ UNCHANGED <<serving, loads, answers>>

-----------------------------------------------------------------------------

Next ==
  \/ StartServer \/ StopServer
  \/ \E l \in Loads, r \in Requests : Answer(l, r) \/ FailRequest(l, r)
  \/ BeginLoad
  \/ \E l \in Loads : Render(l) \/ Reject(l)

Spec == Init /\ [][Next]_vars

(* The continuation of an await runs; nothing obliges a server to answer,  *)
(* a request to fail (fetch has no timeout) or a reader to click.          *)
FairSpec == Spec /\ \A l \in Loads : WF_vars(Render(l) \/ Reject(l))

-----------------------------------------------------------------------------
(* Properties *)

Drawings == -MaxLoads..MaxLoads

TypeOK ==
  /\ server \in 0..MaxServers /\ servers \in 0..MaxServers
  /\ loads \in Loads /\ loading \subseteq Loads
  /\ answers \in [Loads -> [Requests -> Failed..MaxServers]]
  /\ button \in {"enabled", "disabled"}
  /\ page \in [badge : {"none", "ok", "degraded"}, counts : Loads \cup {NotDrawn},
               sources : Loads \cup {NotDrawn}, warnings : Drawings, layers : Drawings,
               notice : {"loading", "read", "failed"},
               note : {"initial", "current", "no substitute"}]

(* A page that says it has read the API state shows it throughout: every   *)
(* part is drawn, whole, from the load begun last, whose requests were all *)
(* answered, and the badge is the health one of the servers answered with. *)
ReadPageIsOneLoad ==
  page.notice = "read" =>
    /\ page.counts = loads /\ page.sources = loads
    /\ page.warnings = loads /\ page.layers = loads
    /\ \A r \in Requests : answers[loads][r] > 0
    /\ page.badge = "ok" <=> answers[loads]["status"] \in Healthy

(* The badge never says operational next to a failure, or on a page whose  *)
(* parts are of different loads: a page at rest with that badge is one     *)
(* that has read the API state.                                            *)
OperationalOnlyIfRead ==
  loading = {} /\ page.badge = "ok" => page.notice = "read"

(* A load that waits does not outlast the first failure of one of its      *)
(* requests, answered or not as the others may be: the button comes back.  *)
FailureGivesButtonBack ==
  \A l \in Loads :
     (\E r \in Requests : l \in loading /\ answers[l][r] = Failed) ~> button = "enabled"

=============================================================================
