------------------------------ MODULE ToolProofs ------------------------------
(***************************************************************************)
(* The tools of the host that await: commands and the browser.             *)
(*                                                                         *)
(* Commands.  Each step changes one call, so the invariant is one of its   *)
(* record.  It rests on three facts: only a timer that fired strikes; the  *)
(* output of a container is read when it has ended and no timer had fired, *)
(* so that a kill on its way finds nothing to strike any more; and only a  *)
(* call that never learnt of its container settles without removing it.    *)
(*                                                                         *)
(* Browser.  A launch that overlapped nothing so far runs alone: there is  *)
(* no handle, no other launch and no close; and the handle that another    *)
(* launch set meanwhile, or that is not the one a close is waiting for,    *)
(* came from a launch that overlapped.                                     *)
(***************************************************************************)
EXTENDS Sandbox, Browser, TLAPS

-----------------------------------------------------------------------------
(* Commands.                                                               *)

CallPlaces == {"idle", "creating", "starting", "waiting", "reading", "removing", "settled"}

CallRecords ==
  [at : CallPlaces, box : {"none", "created", "running", "ended", "removed"},
   timer : {"off", "armed", "fired"}, killing : BOOLEAN, struck : BOOLEAN, kept : BOOLEAN,
   lost : BOOLEAN, outcome : {"none", "SUCCESS", "ERROR"}]

CommandSound(c, r) ==
  /\ r \in CallRecords
  /\ r.at = "idle" => r.timer = "off" /\ r.box = "none" /\ ~r.lost
  /\ r.at = "creating" => r.box \in {"none", "created"} /\ ~r.lost
  /\ r.killing \/ r.struck => r.timer = "fired"
  /\ r.at = "reading" => r.box = "ended" /\ ~r.struck
  /\ r.at = "removing" => r.timer # "armed"
  /\ r.outcome = "SUCCESS" => /\ r.at \in {"removing", "settled"}
                              /\ r.box \in {"ended", "removed"}
                              /\ c \in Contained => ~r.struck
  /\ r.lost => r.at = "settled" /\ r.box \in {"none", "created"}
  /\ r.at = "settled" => /\ r.timer # "armed"
                         /\ r.box \in {"none", "removed"} \/ r.kept \/ r.lost

SInv ==
  /\ bash \in [Calls -> CallRecords]
  /\ \A c \in Calls : CommandSound(c, bash[c])

-----------------------------------------------------------------------------
\* A step that sets one call to a sound record keeps the invariant.
LEMMA SetKeepsCalls ==
  ASSUME SInv, NEW c \in Calls, NEW r, Set(c, r), CommandSound(c, r)
  PROVE  SInv'
  BY DEF SInv, Set, CommandSound

\* The end of the try block, for the records it is reached with.
LEMMA FinallyKeeps ==
  ASSUME SInv, NEW c \in Calls, NEW o \in {"SUCCESS", "ERROR"}, Finally(c, o),
         bash[c].outcome # "SUCCESS", ~bash[c].lost,
         o = "SUCCESS" => At(c, "reading")
  PROVE  SInv'
<1> DEFINE r == [bash[c] EXCEPT !.outcome = o, !.timer = IF @ = "armed" THEN "off" ELSE @,
                                !.lost = At(c, "creating"),
                                !.at = IF At(c, "creating") THEN "settled" ELSE "removing"]
<1>1. Set(c, r)
  BY DEF Finally
<1>2. CommandSound(c, bash[c])
  BY DEF SInv
<1>3. CommandSound(c, r)
  <2>1. r \in CallRecords
    BY <1>2 DEF CommandSound, CallRecords, CallPlaces, At
  <2>2. /\ r.at = (IF At(c, "creating") THEN "settled" ELSE "removing") /\ r.outcome = o
        /\ r.lost = At(c, "creating")
        /\ r.timer = (IF bash[c].timer = "armed" THEN "off" ELSE bash[c].timer)
        /\ \A f \in {"box", "killing", "struck", "kept"} : r[f] = bash[c][f]
    BY <1>2 DEF CommandSound, CallRecords, At
  <2> HIDE DEF r
  <2>3. QED
    BY <1>2, <2>1, <2>2, SMTT(60) DEF CommandSound, CallRecords, At
<1> QED
  BY <1>1, <1>3, SetKeepsCalls

\* A step of what goes on: the daemon, the event loop, the command, the timer.
LEMMA GoingOnKeeps ==
  ASSUME SInv, NEW c \in Calls,
         \/ GoesOn(c) \/ Ends(c) \/ TimerFires(c) \/ KillFails(c)
         \/ DaemonFails(c) \/ HappensLate(c) \/ NotRemoved(c)
  PROVE  SInv'
<1> USE DEF At, Goes
<1>0. CommandSound(c, bash[c]) /\ bash[c] \in CallRecords
  BY DEF SInv
<1>1. CASE Created(c)
  <2>1. CommandSound(c, Goes(c, "starting"))
    BY <1>0, <1>1 DEF Created, CommandSound, CallRecords, CallPlaces
  <2> QED BY <1>1, <2>1, SetKeepsCalls DEF Created
<1>2. CASE Starts(c)
  <2>1. CommandSound(c, [bash[c] EXCEPT !.box = "running"])
    BY <1>0, <1>2 DEF Starts, CommandSound, CallRecords, CallPlaces
  <2> QED BY <1>2, <2>1, SetKeepsCalls DEF Starts
<1>3. CASE Started(c)
  <2>1. CommandSound(c, Goes(c, "waiting"))
    BY <1>0, <1>3 DEF Started, CommandSound, CallRecords, CallPlaces
  <2> QED BY <1>3, <2>1, SetKeepsCalls DEF Started
<1>4. CASE KillLands(c)
  <2> DEFINE r == IF bash[c].box = "running"
                    THEN [bash[c] EXCEPT !.killing = FALSE, !.box = "ended", !.struck = TRUE]
                    ELSE [bash[c] EXCEPT !.killing = FALSE]
  <2>1. CommandSound(c, r)
    BY <1>0, <1>4 DEF KillLands, CommandSound, CallRecords, CallPlaces
  <2>2. Set(c, r)
    BY <1>4 DEF KillLands
  <2> QED BY <2>1, <2>2, SetKeepsCalls
<1>5. CASE Waited(c)
  <2>1. CASE bash[c].timer = "fired"
    BY <1>0, <1>5, <2>1, FinallyKeeps DEF Waited, CommandSound
  <2>2. CASE bash[c].timer # "fired"
    <3>1. CommandSound(c, Goes(c, "reading"))
      BY <1>0, <1>5, <2>2 DEF Waited, CommandSound, CallRecords, CallPlaces
    <3> QED BY <1>5, <2>2, <3>1, SetKeepsCalls DEF Waited
  <2> QED BY <2>1, <2>2
<1>6. CASE Read(c)
  BY <1>0, <1>6, FinallyKeeps DEF Read, CommandSound
<1>7. CASE Removed(c)
  <2>1. CommandSound(c, [Goes(c, "settled") EXCEPT !.box = "removed"])
    BY <1>0, <1>7 DEF Removed, CommandSound, CallRecords, CallPlaces
  <2> QED BY <1>7, <2>1, SetKeepsCalls DEF Removed
<1>8. CASE Exited(c)
  <2>1. PICK o \in {"SUCCESS", "ERROR"} :
          Set(c, [Goes(c, "settled") EXCEPT
                    !.outcome = o, !.timer = IF @ = "armed" THEN "off" ELSE @,
                    !.box = "removed"])
    BY <1>8 DEF Exited
  <2> DEFINE r == [Goes(c, "settled") EXCEPT
                     !.outcome = o, !.timer = IF @ = "armed" THEN "off" ELSE @,
                     !.box = "removed"]
  <2>2. r \in CallRecords
    BY <1>0, <2>1 DEF CommandSound, CallRecords, CallPlaces
  <2>3. /\ r.at = "settled" /\ r.outcome = o /\ r.box = "removed"
        /\ r.timer = (IF bash[c].timer = "armed" THEN "off" ELSE bash[c].timer)
        /\ \A f \in {"killing", "struck", "kept", "lost"} : r[f] = bash[c][f]
    BY <1>0 DEF CommandSound, CallRecords
  <2>4. c \notin Contained /\ bash[c].at = "waiting"
    BY <1>8 DEF Exited
  <2> HIDE DEF r
  <2>5. CommandSound(c, r)
    BY <1>0, <2>2, <2>3, <2>4, SMTT(60) DEF CommandSound, CallRecords
  <2> QED BY <2>1, <2>5, SetKeepsCalls DEF r
<1>9. CASE Ends(c)
  <2>1. CommandSound(c, [bash[c] EXCEPT !.box = "ended"])
    BY <1>0, <1>9 DEF Ends, CommandSound, CallRecords, CallPlaces
  <2> QED BY <1>9, <2>1, SetKeepsCalls DEF Ends
<1>10. CASE TimerFires(c)
  <2> DEFINE r == [bash[c] EXCEPT !.timer = "fired", !.killing = ~At(c, "creating")]
  <2>1. CommandSound(c, r)
    BY <1>0, <1>10 DEF TimerFires, CommandSound, CallRecords, CallPlaces
  <2>2. Set(c, r)
    BY <1>10 DEF TimerFires
  <2> QED BY <2>1, <2>2, SetKeepsCalls
<1>11. CASE DaemonFails(c)
  BY <1>0, <1>11, FinallyKeeps DEF DaemonFails, CommandSound
<1>12. CASE KillFails(c)
  <2>1. CommandSound(c, [bash[c] EXCEPT !.killing = FALSE])
    BY <1>0, <1>12 DEF KillFails, CommandSound, CallRecords, CallPlaces
  <2> QED BY <1>12, <2>1, SetKeepsCalls DEF KillFails
<1>13. CASE NotRemoved(c)
  <2>1. CommandSound(c, [Goes(c, "settled") EXCEPT !.kept = TRUE])
    BY <1>0, <1>13 DEF NotRemoved, CommandSound, CallRecords, CallPlaces
  <2> QED BY <1>13, <2>1, SetKeepsCalls DEF NotRemoved
<1>14. CASE Creates(c)
  <2>1. CommandSound(c, [bash[c] EXCEPT !.box = "created"])
    BY <1>0, <1>14 DEF Creates, CommandSound, CallRecords, CallPlaces
  <2> QED BY <1>14, <2>1, SetKeepsCalls DEF Creates
<1>15. CASE HappensLate(c)
  <2>1. CASE bash[c].lost /\ bash[c].box = "none" /\ Set(c, [bash[c] EXCEPT !.box = "created"])
    <3>1. CommandSound(c, [bash[c] EXCEPT !.box = "created"])
      BY <1>0, <2>1 DEF CommandSound, CallRecords, CallPlaces
    <3> QED BY <2>1, <3>1, SetKeepsCalls
  <2>2. CASE /\ bash[c].at \in {"removing", "settled"} /\ ~bash[c].lost /\ bash[c].box = "created"
             /\ Set(c, [bash[c] EXCEPT !.box = "running"])
    <3>1. CommandSound(c, [bash[c] EXCEPT !.box = "running"])
      BY <1>0, <2>2 DEF CommandSound, CallRecords, CallPlaces
    <3> QED BY <2>2, <3>1, SetKeepsCalls
  <2> QED BY <1>15, <2>1, <2>2 DEF HappensLate
<1> QED
  BY <1>1, <1>2, <1>3, <1>4, <1>5, <1>6, <1>7, <1>8, <1>9, <1>10, <1>11, <1>12, <1>13, <1>14,
     <1>15 DEF GoesOn

\* The calls that begin.
LEMMA BeginningKeeps ==
  ASSUME SInv, NEW c \in Calls, NoCommand(c) \/ Call(c) \/ GitCall(c)
  PROVE  SInv'
<1> USE DEF At, Goes
<1>0. CommandSound(c, bash[c]) /\ bash[c] \in CallRecords
  BY DEF SInv
<1>1. CASE NoCommand(c)
  <2>1. CommandSound(c, [Goes(c, "settled") EXCEPT !.outcome = "ERROR"])
    BY <1>0, <1>1 DEF NoCommand, CommandSound, CallRecords, CallPlaces
  <2> QED BY <1>1, <2>1, SetKeepsCalls DEF NoCommand
<1>2. CASE Call(c)
  <2>1. CASE c \in Contained
    <3>1. CommandSound(c, [Goes(c, "creating") EXCEPT !.timer = "armed"])
      BY <1>0, <1>2 DEF Call, CommandSound, CallRecords, CallPlaces
    <3> QED BY <1>2, <2>1, <3>1, SetKeepsCalls DEF Call
  <2>2. CASE c \notin Contained
    <3>1. CommandSound(c, [Goes(c, "waiting") EXCEPT !.box = "running", !.timer = "armed"])
      BY <1>0, <1>2 DEF Call, CommandSound, CallRecords, CallPlaces
    <3> QED BY <1>2, <2>2, <3>1, SetKeepsCalls DEF Call
  <2> QED BY <2>1, <2>2
<1>3. CASE GitCall(c)
  <2>1. CommandSound(c, [Goes(c, "waiting") EXCEPT !.box = "running"])
    BY <1>0, <1>3 DEF GitCall, CommandSound, CallRecords, CallPlaces
  <2> QED BY <1>3, <2>1, SetKeepsCalls DEF GitCall
<1> QED
  BY <1>1, <1>2, <1>3

-----------------------------------------------------------------------------
\* Any step of commands and of what goes on.
LEMMA SandboxKeeps ==
  ASSUME SInv, [SandboxNext]_bash
  PROVE  SInv'
<1>1. CASE SandboxNext
  BY <1>1, GoingOnKeeps, BeginningKeeps DEF SandboxNext, SandboxGoesOn
<1>2. CASE UNCHANGED bash
  BY <1>2 DEF SInv, CommandSound
<1> QED
  BY <1>1, <1>2

LEMMA SandboxBegins == SandboxInit => SInv
  BY DEF SandboxInit, Uncalled, SInv, CommandSound, CallRecords, CallPlaces

\* The invariant: every call has a sound record, whatever the daemon, the event
\* loop and the commands have done.
THEOREM SandboxInvariance == SandboxSpec => []SInv
<1>1. SInv /\ [SandboxNext]_bash => SInv'
  BY SandboxKeeps
<1> QED
  BY <1>1, SandboxBegins, PTL DEF SandboxSpec

\* For any calls in containers, natively or of git: the output of a command whose
\* container was killed is never given as a success; a container is left behind
\* only by a removal that failed, or by a creation whose answer was lost, and then
\* it never runs; and no settled call has an armed timer.
THEOREM SettledCallsStayClean == SandboxSpec => []SettledCallsAreClean
<1>1. SInv => SettledCallsAreClean
  BY DEF SInv, CommandSound, SettledCallsAreClean, At
<1> QED
  BY <1>1, SandboxInvariance, PTL
-----------------------------------------------------------------------------
(* The browser.                                                            *)

VisitPlaces == {"idle", "launching", "opening", "going", "closing", "settled"}

VisitRecords ==
  [at : VisitPlaces, browser : Nat, overlapped : BOOLEAN, outcome : {"none", "SUCCESS", "ERROR"}]

Processes == [up : BOOLEAN, overlapped : BOOLEAN]

BrowserTypeOK ==
  /\ browsers \in Seq(Processes)
  /\ activeBrowser \in 0..Len(browsers)
  /\ visits \in [Visits -> VisitRecords]
  /\ closers \in [Closers -> 0..Len(browsers)]

\* The handle is null, or that of a browser whose launch overlapped another.
HandleOverlapped == activeBrowser # 0 => browsers[activeBrowser].overlapped

LaunchesAlone ==
  \A v \in Visits :
    visits[v].at = "launching" /\ ~visits[v].overlapped =>
      /\ activeBrowser = 0
      /\ \A w \in Visits : visits[w].at = "launching" => w = v
      /\ \A k \in Closers : closers[k] = 0

LateHandles ==
  /\ (\E v \in Visits : visits[v].at = "launching") => HandleOverlapped
  /\ \A k \in Closers : closers[k] # 0 /\ activeBrowser # closers[k] => HandleOverlapped

BInv == BrowserTypeOK /\ LaunchesAlone /\ LateHandles /\ OrphansComeFromOverlap

-----------------------------------------------------------------------------
\* A step that only moves a visit, and not to a launch, keeps the invariant.
LEMMA MovesKeep ==
  ASSUME BInv, UNCHANGED <<activeBrowser, browsers, closers>>,
         visits' \in [Visits -> VisitRecords],
         \A v \in Visits : visits'[v].at = "launching" =>
                             visits[v].at = "launching" /\ visits'[v].overlapped = visits[v].overlapped
  PROVE  BInv'
<1>1. BrowserTypeOK'
  BY DEF BInv, BrowserTypeOK, VisitRecords
<1>2. LaunchesAlone'
  BY DEF BInv, LaunchesAlone
<1>3. LateHandles'
  BY DEF BInv, LateHandles, HandleOverlapped
<1>4. OrphansComeFromOverlap'
  BY DEF BInv, OrphansComeFromOverlap
<1> QED
  BY <1>1, <1>2, <1>3, <1>4 DEF BInv

\* A launch begins: there is no handle, and whatever overlaps is marked.
LEMMA LaunchKeeps ==
  ASSUME BInv, NEW v \in Visits, v \in InState("idle"), activeBrowser = 0, Launch(v),
         UNCHANGED <<activeBrowser, browsers, closers>>
  PROVE  BInv'
<1>1. \A w \in Visits :
        /\ visits'[w].at = IF w = v THEN "launching" ELSE visits[w].at
        /\ visits'[w].overlapped = (visits[w].overlapped \/ w \in Overlaps(v))
  BY DEF Launch, BInv, BrowserTypeOK, VisitRecords
<1>2. BrowserTypeOK'
  <2>1. visits' \in [Visits -> VisitRecords]
    BY DEF Launch, BInv, BrowserTypeOK, VisitRecords, VisitPlaces
  <2> QED BY <2>1 DEF BInv, BrowserTypeOK, VisitRecords
<1>3. LaunchesAlone'
  <2> SUFFICES ASSUME NEW x \in Visits, visits'[x].at = "launching", ~visits'[x].overlapped
               PROVE  /\ activeBrowser' = 0
                      /\ \A w \in Visits : visits'[w].at = "launching" => w = x
                      /\ \A k \in Closers : closers'[k] = 0
    BY DEF LaunchesAlone
  <2>1. x \notin Overlaps(v)
    BY <1>1
  <2>2. x = v
    BY <1>1, <2>1 DEF Overlaps, InState
  <2>3. InState("launching") = {} /\ \A k \in Closers : closers[k] = 0
    BY <2>1, <2>2 DEF Overlaps
  <2> QED BY <1>1, <2>2, <2>3 DEF InState
<1>4. LateHandles' /\ OrphansComeFromOverlap'
  BY DEF BInv, LateHandles, HandleOverlapped, OrphansComeFromOverlap
<1> QED
  BY <1>2, <1>3, <1>4 DEF BInv

\* A launch ends: the handle it replaces is null or overlapped.
LEMMA LaunchedKeeps ==
  ASSUME BInv, NEW v \in Visits, Launched(v)
  PROVE  BInv'
<1> DEFINE n == Len(browsers) + 1
<1>1. /\ browsers \in Seq(Processes)
      /\ visits[v].at = "launching" /\ visits[v].overlapped \in BOOLEAN
      /\ activeBrowser \in 0..Len(browsers)
  BY DEF BInv, BrowserTypeOK, VisitRecords, Launched, InState
<1>2. /\ Len(browsers') = n /\ activeBrowser' = n /\ n \in Nat
      /\ browsers' \in Seq(Processes)
      /\ browsers'[n] = [up |-> TRUE, overlapped |-> visits[v].overlapped]
      /\ \A b \in 1..Len(browsers) : browsers'[b] = browsers[b]
      /\ closers' = closers
  BY <1>1 DEF Launched, Processes
<1>3. /\ visits' = [visits EXCEPT ![v].at = "opening", ![v].browser = n]
      /\ visits' \in [Visits -> VisitRecords]
  <2>1. visits' = [visits EXCEPT ![v].at = "opening", ![v].browser = n]
    BY <1>2 DEF Launched
  <2>2. visits \in [Visits -> VisitRecords]
    BY DEF BInv, BrowserTypeOK
  <2>3. [visits[v] EXCEPT !.at = "opening", !.browser = n] \in VisitRecords
    BY <1>2, <2>2 DEF VisitRecords, VisitPlaces
  <2> QED BY <2>1, <2>2, <2>3
<1>4. \A w \in Visits : /\ visits'[w].overlapped = visits[w].overlapped
                        /\ visits'[w].at = IF w = v THEN "opening" ELSE visits[w].at
  BY <1>3 DEF BInv, BrowserTypeOK, VisitRecords
<1>5. BrowserTypeOK'
  BY <1>1, <1>2, <1>3 DEF BInv, BrowserTypeOK, VisitRecords
<1>6. LaunchesAlone'
  BY <1>1, <1>4 DEF BInv, LaunchesAlone
<1>7. LateHandles'
  <2>1. CASE visits[v].overlapped
    BY <1>2, <2>1 DEF LateHandles, HandleOverlapped
  <2>2. CASE ~visits[v].overlapped
    <3>1. /\ \A w \in Visits : visits[w].at = "launching" => w = v
          /\ \A k \in Closers : closers[k] = 0
      BY <1>1, <2>2 DEF BInv, LaunchesAlone
    <3> QED BY <1>2, <1>4, <3>1 DEF LateHandles
  <2> QED BY <1>1, <2>1, <2>2
<1>8. OrphansComeFromOverlap'
  <2> SUFFICES ASSUME NEW b \in 1..n, browsers'[b].up, b # n
               PROVE  browsers'[b].overlapped
    BY <1>2 DEF OrphansComeFromOverlap
  <2>1. b \in 1..Len(browsers) /\ browsers[b].up
    BY <1>1, <1>2
  <2>2. b = activeBrowser \/ browsers[b].overlapped
    BY <1>1, <2>1 DEF BInv, OrphansComeFromOverlap
  <2>3. HandleOverlapped
    BY <1>1 DEF BInv, LateHandles
  <2> QED BY <1>1, <1>2, <2>1, <2>2, <2>3 DEF HandleOverlapped
<1> QED
  BY <1>5, <1>6, <1>7, <1>8 DEF BInv

\* A browser goes down: by a crash, or as a close lands.
LEMMA DownKeeps ==
  ASSUME BInv, NEW b \in DOMAIN browsers, browsers' = [browsers EXCEPT ![b].up = FALSE],
         UNCHANGED visits,
         \/ UNCHANGED <<activeBrowser, closers>>
         \/ \E k \in Closers : /\ closers[k] = b /\ b # 0
                               /\ activeBrowser' = 0 /\ closers' = [closers EXCEPT ![k] = 0]
  PROVE  BInv'
<1>1. browsers \in Seq(Processes) /\ b \in 1..Len(browsers)
  BY DEF BInv, BrowserTypeOK, VisitRecords
<1>2. /\ Len(browsers') = Len(browsers)
      /\ browsers' \in Seq(Processes)
      /\ \A d \in 1..Len(browsers) : /\ browsers'[d].overlapped = browsers[d].overlapped
                                     /\ browsers'[d].up => browsers[d].up /\ d # b
  <2>1. \A d \in 1..Len(browsers) : browsers[d] \in Processes
    BY <1>1
  <2>2. [browsers[b] EXCEPT !.up = FALSE] \in Processes
    BY <1>1, <2>1 DEF Processes
  <2>3. /\ Len(browsers') = Len(browsers)
        /\ browsers' \in Seq(Processes)
    BY <1>1, <2>2
  <2>4. \A d \in 1..Len(browsers) :
          browsers'[d] = IF d = b THEN [browsers[b] EXCEPT !.up = FALSE] ELSE browsers[d]
    BY <1>1
  <2> QED BY <1>1, <2>1, <2>3, <2>4 DEF Processes
<1>3. DOMAIN browsers' = 1..Len(browsers) /\ DOMAIN browsers = 1..Len(browsers)
  BY <1>1, <1>2
<1>4. BrowserTypeOK'
  <2>1. closers' \in [Closers -> 0..Len(browsers)] /\ activeBrowser' \in 0..Len(browsers)
    BY <1>1 DEF BInv, BrowserTypeOK, VisitRecords
  <2> QED BY <1>2, <2>1 DEF BInv, BrowserTypeOK, VisitRecords
<1>5. LaunchesAlone'
  BY DEF BInv, BrowserTypeOK, LaunchesAlone
<1>6. LateHandles'
  <2>1. CASE UNCHANGED <<activeBrowser, closers>>
    BY <1>2, <2>1 DEF BInv, BrowserTypeOK, LateHandles, HandleOverlapped
  <2>2. CASE activeBrowser' = 0
    BY <2>2 DEF LateHandles, HandleOverlapped
  <2> QED BY <2>1, <2>2
<1>7. OrphansComeFromOverlap'
  <2> SUFFICES ASSUME NEW d \in 1..Len(browsers), browsers'[d].up
               PROVE  d = activeBrowser' \/ browsers'[d].overlapped
    BY <1>3 DEF OrphansComeFromOverlap
  <2>1. browsers[d].up /\ d # b /\ browsers'[d].overlapped = browsers[d].overlapped
    BY <1>2
  <2>2. d = activeBrowser \/ browsers[d].overlapped
    BY <1>3, <2>1 DEF BInv, OrphansComeFromOverlap
  <2>3. CASE UNCHANGED <<activeBrowser, closers>>
    BY <2>1, <2>2, <2>3
  <2>4. CASE \E k \in Closers : closers[k] = b /\ b # 0
    <3>1. d = activeBrowser => HandleOverlapped
      BY <2>1, <2>4 DEF BInv, LateHandles
    <3> QED BY <1>1, <2>1, <2>2, <3>1 DEF HandleOverlapped
  <2> QED BY <2>3, <2>4
<1> QED
  BY <1>4, <1>5, <1>6, <1>7 DEF BInv

\* Any step of visits, closes and crashes.
LEMMA BrowserKeeps ==
  ASSUME BInv, [BrowserNext]_browserVars
  PROVE  BInv'
<1> USE DEF InState
<1>1. ASSUME NEW v \in Visits, NoUrl(v) PROVE BInv'
  <2>1. visits' \in [Visits -> VisitRecords]
    <3>1. visits \in [Visits -> VisitRecords]
          /\ visits' = [visits EXCEPT ![v].at = "settled", ![v].outcome = "ERROR"]
      BY <1>1 DEF NoUrl, Settle, BInv, BrowserTypeOK
    <3>2. [visits[v] EXCEPT !.at = "settled", !.outcome = "ERROR"] \in VisitRecords
      BY <3>1 DEF VisitRecords, VisitPlaces
    <3> QED BY <3>1, <3>2
  <2>2. \A w \in Visits : visits'[w].at = "launching" =>
                             visits[w].at = "launching" /\ visits'[w].overlapped = visits[w].overlapped
    BY <1>1 DEF NoUrl, Settle, BInv, BrowserTypeOK, VisitRecords
  <2> QED BY <1>1, <2>1, <2>2, MovesKeep DEF NoUrl
<1>2. ASSUME NEW v \in Visits, Visit(v) PROVE BInv'
  <2>1. CASE activeBrowser = 0
    BY <1>2, <2>1, LaunchKeeps DEF Visit
  <2>2. CASE activeBrowser # 0
    <3>1. visits' = [visits EXCEPT ![v].at = "opening", ![v].browser = activeBrowser]
      BY <1>2, <2>2 DEF Visit
    <3>0. activeBrowser \in Nat
      BY DEF BInv, BrowserTypeOK
    <3>2. visits' \in [Visits -> VisitRecords]
      <4>1. visits \in [Visits -> VisitRecords]
        BY DEF BInv, BrowserTypeOK
      <4>2. [visits[v] EXCEPT !.at = "opening", !.browser = activeBrowser] \in VisitRecords
        BY <3>0, <4>1 DEF VisitRecords, VisitPlaces
      <4> QED BY <3>1, <4>1, <4>2
    <3>3. \A w \in Visits : visits'[w].at = "launching" =>
                               visits[w].at = "launching" /\ visits'[w].overlapped = visits[w].overlapped
      BY <3>1 DEF BInv, BrowserTypeOK, VisitRecords
    <3> QED BY <1>2, <3>2, <3>3, MovesKeep DEF Visit
  <2> QED BY <2>1, <2>2
<1>3. ASSUME NEW v \in Visits, Opened(v) \/ Went(v) \/ PageClosed(v) \/ VisitFails(v)
      PROVE  BInv'
  <2>1. visits' \in [Visits -> VisitRecords]
    BY <1>3 DEF Opened, Went, PageClosed, VisitFails, Settle, BInv, BrowserTypeOK, VisitRecords, VisitPlaces
  <2>2. \A w \in Visits : visits'[w].at = "launching" =>
                             visits[w].at = "launching" /\ visits'[w].overlapped = visits[w].overlapped
    BY <1>3 DEF Opened, Went, PageClosed, VisitFails, Settle, BInv, BrowserTypeOK, VisitRecords
  <2> QED BY <1>3, <2>1, <2>2, MovesKeep DEF Opened, Went, PageClosed, VisitFails
<1>4. ASSUME NEW v \in Visits, Launched(v) PROVE BInv'
  BY <1>4, LaunchedKeeps
<1>5. ASSUME NEW b \in DOMAIN browsers, Crash(b) PROVE BInv'
  BY <1>5, DownKeeps DEF Crash
<1>6. ASSUME NEW k \in Closers, Closed(k) PROVE BInv'
  <2>1. closers[k] \in DOMAIN browsers
    BY <1>6 DEF Closed, BInv, BrowserTypeOK
  <2> QED BY <1>6, <2>1, DownKeeps DEF Closed
<1>7. ASSUME NEW k \in Closers, closeBrowser(k) PROVE BInv'
  BY <1>7 DEF closeBrowser, BInv, BrowserTypeOK, LaunchesAlone, LateHandles, HandleOverlapped,
              OrphansComeFromOverlap
<1>8. ASSUME NEW k \in Closers, CloseFails(k) PROVE BInv'
  BY <1>8 DEF CloseFails, BInv, BrowserTypeOK, LaunchesAlone, LateHandles, HandleOverlapped,
              OrphansComeFromOverlap
<1>9. CASE UNCHANGED browserVars
  BY <1>9 DEF browserVars, BInv, BrowserTypeOK, LaunchesAlone, LateHandles, HandleOverlapped,
              OrphansComeFromOverlap
<1> QED
  BY <1>1, <1>2, <1>3, <1>4, <1>5, <1>6, <1>7, <1>8, <1>9 DEF BrowserNext, BrowserGoesOn

LEMMA BrowserBegins == BrowserInit => BInv
  BY DEF BrowserInit, BInv, BrowserTypeOK, VisitRecords, VisitPlaces, LaunchesAlone, LateHandles,
         HandleOverlapped, OrphansComeFromOverlap

\* The invariant: handles and launches as above.
THEOREM BrowserInvariance == BrowserSpec => []BInv
<1>1. BInv /\ [BrowserNext]_browserVars => BInv'
  BY BrowserKeeps
<1> QED
  BY <1>1, BrowserBegins, PTL DEF BrowserSpec

\* Of all browsers that run, at most the one of the handle was launched without
\* overlap: for any number of calls, closes, crashes and failures.
THEOREM OrphansAlwaysFromOverlap == BrowserSpec => []OrphansComeFromOverlap
<1>1. BInv => OrphansComeFromOverlap
  BY DEF BInv
<1> QED
  BY <1>1, BrowserInvariance, PTL
=============================================================================
