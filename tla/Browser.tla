------------------------------- MODULE Browser -------------------------------
(***************************************************************************)
(* The browser tool and closeBrowser (host/tools/browser.ts): calls share  *)
(* one handle, activeBrowser, across their awaits.  Browsers are numbered  *)
(* in the order they are launched in.                                      *)
(***************************************************************************)
EXTENDS Naturals, Sequences

CONSTANTS Visits, Closers      \* calls of the tool, and of closeBrowser

VARIABLES
  activeBrowser,  \* a browser, or 0 for null
  browsers,       \* up: it runs; overlapped: history, see Overlaps
  visits,         \* browser: the one it opened its page in
  closers         \* the browser each waits for, or 0

browserVars == <<activeBrowser, browsers, visits, closers>>

BrowserInit ==
  /\ activeBrowser = 0 /\ browsers = << >>
  /\ visits = [v \in Visits |-> [at |-> "idle", browser |-> 0, overlapped |-> FALSE, outcome |-> "none"]]
  /\ closers = [k \in Closers |-> 0]

InState(place) == {v \in Visits : visits[v].at = place}

Settle(v, outcome) ==
  visits' = [visits EXCEPT ![v].at = "settled", ![v].outcome = outcome]

\* Visit v launches while another does, or while one is being closed.
Overlaps(v) ==
  {w \in InState("launching") \cup {v} : \/ InState("launching") # {}
                                         \/ \E k \in Closers : closers[k] # 0}

Launch(v) ==
  visits' = [w \in Visits |-> [visits[w] EXCEPT !.overlapped = @ \/ w \in Overlaps(v),
                                                 !.at = IF w = v THEN "launching" ELSE @]]

\* Mutant: every visit launches.
VisitLaunching(v) ==
  /\ v \in InState("idle")
  /\ Launch(v)
  /\ UNCHANGED <<activeBrowser, browsers, closers>>

NoUrl(v) ==
  /\ v \in InState("idle")
  /\ Settle(v, "ERROR")
  /\ UNCHANGED <<activeBrowser, browsers, closers>>

\* The handler, up to its first await.
Visit(v) ==
  /\ v \in InState("idle")
  /\ IF activeBrowser = 0
       THEN Launch(v)
       ELSE visits' = [visits EXCEPT ![v].at = "opening", ![v].browser = activeBrowser]
  /\ UNCHANGED <<activeBrowser, browsers, closers>>

\* The assignment comes after the await, whatever the handle is by then.
Launched(v) ==
  /\ v \in InState("launching")
  /\ browsers' = Append(browsers, [up |-> TRUE, overlapped |-> visits[v].overlapped])
  /\ activeBrowser' = Len(browsers')
  /\ visits' = [visits EXCEPT ![v].at = "opening", ![v].browser = activeBrowser']
  /\ UNCHANGED closers

Up(v) == browsers[visits[v].browser].up

\* newPage, goto and evaluate, close.
Opened(v) ==
  /\ v \in InState("opening") /\ Up(v)
  /\ visits' = [visits EXCEPT ![v].at = "going"]
  /\ UNCHANGED <<activeBrowser, browsers, closers>>

Went(v) ==
  /\ v \in InState("going") /\ Up(v)
  /\ visits' = [visits EXCEPT ![v].at = "closing"]
  /\ UNCHANGED <<activeBrowser, browsers, closers>>

PageClosed(v) ==
  /\ v \in InState("closing") /\ Up(v)
  /\ Settle(v, "SUCCESS")
  /\ UNCHANGED <<activeBrowser, browsers, closers>>

\* The launch, the page or the navigation fails; an open page stays open.
VisitFails(v) ==
  /\ visits[v].at \in {"launching", "opening", "going", "closing"}
  /\ Settle(v, "ERROR")
  /\ UNCHANGED <<activeBrowser, browsers, closers>>

\* The process of a browser dies; the handle is not told.
Crash(b) ==
  /\ browsers[b].up
  /\ browsers' = [browsers EXCEPT ![b].up = FALSE]
  /\ UNCHANGED <<activeBrowser, visits, closers>>

closeBrowser(k) ==
  /\ closers[k] = 0 /\ activeBrowser # 0
  /\ closers' = [closers EXCEPT ![k] = activeBrowser]
  /\ UNCHANGED <<activeBrowser, browsers, visits>>

\* The handle is cleared after the await, whatever it is by then.
Closed(k) ==
  /\ closers[k] # 0
  /\ browsers' = [browsers EXCEPT ![closers[k]].up = FALSE]
  /\ activeBrowser' = 0
  /\ closers' = [closers EXCEPT ![k] = 0]
  /\ UNCHANGED visits

CloseFails(k) ==
  /\ closers[k] # 0
  /\ closers' = [closers EXCEPT ![k] = 0]
  /\ UNCHANGED <<activeBrowser, browsers, visits>>

BrowserGoesOn ==
  \/ \E v \in Visits : \/ Launched(v) \/ Opened(v) \/ Went(v) \/ PageClosed(v) \/ VisitFails(v)
  \/ \E b \in DOMAIN browsers : Crash(b)
  \/ \E k \in Closers : Closed(k) \/ CloseFails(k)

BrowserNext ==
  BrowserGoesOn \/ (\E v \in Visits : NoUrl(v) \/ Visit(v)) \/ (\E k \in Closers : closeBrowser(k))

BrowserSpec == BrowserInit /\ [][BrowserNext]_browserVars

-----------------------------------------------------------------------------
\* A browser that runs and that no handle leads to any more, so that nobody closes
\* it, comes only from launches that overlap, or from one while another is closed.
OrphansComeFromOverlap ==
  \A b \in DOMAIN browsers :
    browsers[b].up => b = activeBrowser \/ browsers[b].overlapped
=============================================================================
