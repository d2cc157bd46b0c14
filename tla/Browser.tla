-------------------------------- MODULE Browser --------------------------------
(***************************************************************************)
(* BrowserRenderer of app/retrieval/browser.py, under the requests of the  *)
(* retrieval service: one Chromium serves the renderings of all requests,  *)
(* each in a context of its own.  It is launched by the first that needs   *)
(* it, and again by the first that finds it disconnected.                  *)
(***************************************************************************)
EXTENDS Retrieval

CONSTANT NoReq

ASSUME NoReqAssumption == NoReq \notin Req

VARIABLES
  chromium, \* _browser: the generation of the browser, 0 for none or a disconnected one
  launcher, \* the request that holds _browser_lock, for a launch
  stage,    \* how far the rendering of a request is
  uses      \* the browser its context is open in, 0 for none

browserVars == <<chromium, launcher, stage, uses>>
renderVars == <<vars, browserVars>>

BrowserInit ==
  /\ Init
  /\ chromium = 0 /\ launcher = NoReq
  /\ stage = [r \in Req |-> "asks"]
  /\ uses = [r \in Req |-> 0]

Connected == chromium # 0

ToStage(r, next) == stage' = [stage EXCEPT ![r] = next]

\* The browser is there: the request opens its context in it.
OpenContext(r) ==
  /\ ToStage(r, "renders")
  /\ uses' = [uses EXCEPT ![r] = chromium]
  /\ UNCHANGED <<chromium, launcher>>

\* _ensure_browser, before the lock.
EnsureBrowser(r) ==
  /\ at[r] = "rendering" /\ stage[r] = "asks"
  /\ IF Connected THEN OpenContext(r)
     ELSE ToStage(r, "waits") /\ UNCHANGED <<chromium, launcher, uses>>
  /\ UNCHANGED vars

\* What is left of the browser before is closed, and the next one launched.
CloseRuntime(r) ==
  /\ chromium' = 0
  /\ launcher' = r
  /\ ToStage(r, "launches")
  /\ UNCHANGED uses

\* Mistake: a request that waited for the lock launches whatever it finds.
EnterUnchecked(r) ==
  /\ at[r] = "rendering" /\ stage[r] = "waits"
  /\ launcher = NoReq
  /\ CloseRuntime(r)
  /\ UNCHANGED vars

\* Behind the lock, the browser may be there by now.
EnterLaunch(r) ==
  /\ at[r] = "rendering" /\ stage[r] = "waits"
  /\ launcher = NoReq
  /\ IF Connected THEN OpenContext(r) ELSE CloseRuntime(r)
  /\ UNCHANGED vars

Launched(r) ==
  /\ at[r] = "rendering" /\ stage[r] = "launches"
  /\ chromium' = CHOOSE g \in Generation \ {0} : \A q \in Req \ {r} : uses[q] # g
  /\ launcher' = NoReq
  /\ ToStage(r, "renders")
  /\ uses' = [uses EXCEPT ![r] = chromium']
  /\ UNCHANGED vars

\* The rendering ends: its context is closed, and a launch under way stopped.
CloseContext(r) ==
  /\ ToStage(r, "asks")
  /\ uses' = [uses EXCEPT ![r] = 0]
  /\ launcher' = IF launcher = r THEN NoReq ELSE launcher
  /\ UNCHANGED chromium

\* The browser answers, the launch fails, or the time is over: a page is what a
\* browser that is still there may have given.
EndRendering(r) ==
  /\ Render(r)
  /\ at'[r] = "storing" => uses[r] # 0
  /\ CloseContext(r)

CancelRendering(r) ==
  /\ Cancel(r)
  /\ CloseContext(r)

\* Chromium crashes, with every context in it.
Disconnect ==
  /\ Connected
  /\ chromium' = 0
  /\ uses' = [r \in Req |-> IF uses[r] = chromium THEN 0 ELSE uses[r]]
  /\ UNCHANGED <<launcher, stage, vars>>

BrowserStep(r) ==
  \/ EnsureBrowser(r) \/ EnterLaunch(r) \/ Launched(r) \/ EndRendering(r)
  \/ ServiceStep(r) /\ UNCHANGED browserVars

BrowserNext == Disconnect \/ \E r \in Req : BrowserStep(r) \/ CancelRendering(r)

\* Fetches and renderings end, except those of slow domains, of whose requests
\* nothing is assumed; locks and semaphores serve their waiters in turn.
BrowserFairness ==
  \A r \in Req : Dom(r) \notin Slow =>
    /\ SF_renderVars(Acquire(r) /\ UNCHANGED browserVars)
    /\ WF_renderVars(Read(r) /\ UNCHANGED browserVars)
    /\ SF_renderVars(DomainSlot(r) /\ UNCHANGED browserVars)
    /\ SF_renderVars(GlobalSlot(r) /\ UNCHANGED browserVars)
    /\ WF_renderVars(Fetch(r) /\ UNCHANGED browserVars)
    /\ WF_renderVars(EndRendering(r))
    /\ WF_renderVars(Store(r) /\ UNCHANGED browserVars)
    /\ WF_renderVars(Leave(r) /\ UNCHANGED browserVars)

BrowserSpec == BrowserInit /\ [][BrowserNext]_renderVars /\ BrowserFairness

\* A browser that pages are being rendered in is never replaced: of the requests
\* that found none, or a dead one, and waited for each other, only the first
\* launches another, and every open context is in the browser at hand, whatever
\* crashes, times out or is cancelled meanwhile (_ensure_browser).
BrowserServesItsUsers == \A r \in Req : uses[r] # 0 => uses[r] = chromium
=============================================================================
