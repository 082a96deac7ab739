------------------------------ MODULE VulnSweep ------------------------------
(***************************************************************************)
(* The vulnerability sweep: src/core/VulnerabilityScanner.cpp, the calls   *)
(* of NetworkManager that start it, and the two pages that show its        *)
(* results, src/gui/VulnerabilityPage.cpp for all devices and              *)
(* src/gui/RouterPage.cpp for the gateway.                                 *)
(*                                                                         *)
(* A sweep runs on a pool of threads.  Each of them sends its result, then *)
(* counts itself out; the last one says that the sweep is over.  The       *)
(* scanner's own thread starts the pool, and then waits for it: whatever   *)
(* is posted to that thread in the meantime, progress included, comes      *)
(* after the end.                                                          *)
(***************************************************************************)
EXTENDS Naturals, Sequences, FiniteSets

CONSTANTS
    Target,     \* addresses of devices
    MaxThreads, \* threads of a pool (8 in the code)
    MaxBacklog, \* bound on the signals on their way when the router page asks
    RouterIp,   \* m_currentGatewayIp of the router page
    NoReport    \* a finished sweep is no device's report

ASSUME SweepAssumption ==
    /\ IsFiniteSet(Target) /\ RouterIp \in Target
    /\ MaxThreads \in Nat \ {0} /\ MaxBacklog \in Nat /\ NoReport \notin Target

VARIABLES
    sweepAsked,   \* the call of triggerVulnScanAll is on its way
    inbox,        \* events of the scanner's thread
    task,         \* the DeviceScanRunnable of each device
    pendingCount, \* m_pendingCount
    reports,      \* signals on their way to the pages
    sweeping,     \* the button of the page is disabled
    pageResults,  \* m_results of the page
    complete,     \* its label says "Scan complete"
    swept,        \* the devices of the last sweep
    routerScan    \* m_vulnScanRunning

poolVars == <<inbox, task, pendingCount, reports, swept>>
pageVars == <<sweeping, pageResults, complete, routerScan>>
sweepVars == <<sweepAsked, poolVars, pageVars>>

-----------------------------------------------------------------------------

\* What is posted to the scanner's thread: a call of scanMany or scan, the
\* closure that waits for the pool, or the progress of a task.
Sweep(ds) == [do |-> "scanMany", of |-> ds]
Scan(d) == [do |-> "scan", of |-> {d}]
Drain == [do |-> "drain", of |-> {}]
Progress(d) == [do |-> "progress", of |-> {d}]
Post == [do : {"scanMany", "scan", "drain", "progress"}, of : SUBSET Target]
Report == [is : {"result", "progress"}, of : Target] \cup [is : {"finished"}, of : {NoReport}]
Finished == [is |-> "finished", of |-> NoReport]

SweepTypeOK ==
    /\ sweepAsked \in BOOLEAN
    /\ inbox \in Seq(Post) /\ reports \in Seq(Report)
    /\ task \in [Target -> {"none", "queued", "running", "probed", "told"}]
    /\ pendingCount \in 0 .. Cardinality(Target)
    /\ sweeping \in BOOLEAN /\ complete \in BOOLEAN /\ routerScan \in BOOLEAN
    /\ pageResults \subseteq Target /\ swept \subseteq Target

SweepInit ==
    /\ sweepAsked = FALSE
    /\ inbox = << >> /\ task = [d \in Target |-> "none"] /\ pendingCount = 0
    /\ reports = << >> /\ swept = {}
    /\ sweeping = FALSE /\ pageResults = {} /\ complete = FALSE
    /\ routerScan = FALSE

-----------------------------------------------------------------------------
(* NetworkManager.                                                         *)

\* triggerVulnScanAll reads m_allDevices when it runs, whatever is in it then.
TriggerVulnScanAll ==
    /\ sweepAsked /\ sweepAsked' = FALSE
    /\ \E ds \in SUBSET Target : inbox' = Append(inbox, Sweep(ds))
    /\ UNCHANGED <<task, pendingCount, reports, swept, pageVars>>

-----------------------------------------------------------------------------
(* The scanner's thread and its pool.                                      *)

\* Mutant of Counted: the last but one takes itself for the last.
CountedShort ==
    /\ pendingCount' = pendingCount - 1
    /\ reports' = IF pendingCount - 1 <= 1 THEN Append(reports, Finished) ELSE reports

\* noteOneFinished, after the result.
Counted ==
    /\ pendingCount' = pendingCount - 1
    /\ reports' = IF pendingCount - 1 <= 0 THEN Append(reports, Finished) ELSE reports

\* scanMany: a sweep of nothing is over at once.
ScanMany ==
    /\ inbox # << >> /\ Head(inbox).do = "scanMany"
    /\ LET ds == Head(inbox).of
       IN  /\ swept' = ds
           /\ IF ds = {}
                THEN /\ reports' = Append(reports, Finished)
                     /\ inbox' = Tail(inbox)
                     /\ UNCHANGED <<task, pendingCount>>
                ELSE /\ pendingCount' = Cardinality(ds)
                     /\ task' = [d \in Target |-> IF d \in ds THEN "queued" ELSE task[d]]
                     /\ inbox' = Append(Tail(inbox), Drain)
                     /\ UNCHANGED reports
    /\ UNCHANGED <<sweepAsked, pageVars>>

\* scan of one device, which occupies the thread.
ScanOne ==
    /\ inbox # << >> /\ Head(inbox).do = "scan"
    /\ \E d \in Head(inbox).of : reports' = Append(reports, [is |-> "result", of |-> d])
    /\ inbox' = Tail(inbox)
    /\ UNCHANGED <<sweepAsked, task, pendingCount, swept, pageVars>>

\* The thread waits until all tasks are gone.
PoolDone ==
    /\ inbox # << >> /\ Head(inbox).do = "drain"
    /\ \A d \in Target : task[d] = "none"
    /\ inbox' = Tail(inbox)
    /\ UNCHANGED <<sweepAsked, task, pendingCount, reports, swept, pageVars>>

ForwardProgress ==
    /\ inbox # << >> /\ Head(inbox).do = "progress"
    /\ \E d \in Head(inbox).of : reports' = Append(reports, [is |-> "progress", of |-> d])
    /\ inbox' = Tail(inbox)
    /\ UNCHANGED <<sweepAsked, task, pendingCount, swept, pageVars>>

Running == {d \in Target : task[d] \in {"running", "probed", "told"}}

StartTask(d) ==
    /\ task[d] = "queued" /\ Cardinality(Running) < MaxThreads
    /\ task' = [task EXCEPT ![d] = "running"]
    /\ UNCHANGED <<sweepAsked, inbox, pendingCount, reports, swept, pageVars>>

\* runScan: the probes, of which only the progress matters here.
RunScan(d) ==
    /\ task[d] = "running" /\ task' = [task EXCEPT ![d] = "probed"]
    /\ inbox' = Append(inbox, Progress(d))
    /\ UNCHANGED <<sweepAsked, pendingCount, reports, swept, pageVars>>

Tell(d) ==
    /\ task[d] = "probed" /\ task' = [task EXCEPT ![d] = "told"]
    /\ reports' = Append(reports, [is |-> "result", of |-> d])
    /\ UNCHANGED <<sweepAsked, inbox, pendingCount, swept, pageVars>>

NoteOneFinished(d) ==
    /\ task[d] = "told" /\ task' = [task EXCEPT ![d] = "none"]
    /\ Counted
    /\ UNCHANGED <<sweepAsked, inbox, swept, pageVars>>

-----------------------------------------------------------------------------
(* The pages.                                                              *)

\* onScanAllClicked.
ScanAllClicked ==
    /\ ~sweeping
    /\ sweeping' = TRUE /\ pageResults' = {} /\ complete' = FALSE /\ sweepAsked' = TRUE
    /\ UNCHANGED <<poolVars, routerScan>>

\* onVulnScanClicked of the router page.
RouterScanClicked ==
    /\ ~routerScan /\ routerScan' = TRUE
    /\ Len(inbox) + Len(reports) < MaxBacklog
    /\ inbox' = Append(inbox, Scan(RouterIp))
    /\ UNCHANGED <<sweepAsked, task, pendingCount, reports, swept,
                   sweeping, pageResults, complete>>

\* onVulnScanResult of both pages, onVulnScanProgress, onScanAllFinished.  A
\* result of a sweep ends the router page's own scan, and a progress that comes
\* after the end takes its place in the label.
PageHears ==
    /\ reports # << >> /\ reports' = Tail(reports)
    /\ LET report == Head(reports)
       IN  /\ pageResults' = IF report.is = "result" THEN pageResults \cup {report.of} ELSE pageResults
           /\ routerScan' = (routerScan /\ ~(report.is = "result" /\ report.of = RouterIp))
           /\ sweeping' = (sweeping /\ report.is # "finished")
           /\ complete' = (report.is = "finished" \/ (complete /\ report.is # "progress"))
    /\ UNCHANGED <<sweepAsked, inbox, task, pendingCount, swept>>

SweepStep ==
    \/ TriggerVulnScanAll
    \/ ScanMany \/ ScanOne \/ PoolDone \/ ForwardProgress
    \/ \E d \in Target : StartTask(d) \/ RunScan(d) \/ Tell(d) \/ NoteOneFinished(d)
    \/ ScanAllClicked \/ RouterScanClicked \/ PageHears

SweepSpec == SweepInit /\ [][SweepStep]_sweepVars

-----------------------------------------------------------------------------

\* When the button of the page is enabled again, the page has a result of each
\* device that the sweep was given, although the results come from the threads
\* of a pool, in any order, mixed with those of scans that the router page
\* asks for ("allFinished() fires once every device is done",
\* VulnerabilityScanner.h; DeviceScanRunnable, noteOneFinished).
CompleteMeansAll == ~sweeping => swept \subseteq pageResults
=============================================================================
