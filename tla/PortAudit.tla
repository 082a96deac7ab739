------------------------------ MODULE PortAudit ------------------------------
(***************************************************************************)
(* The service audit of one device: src/core/PortScanner.cpp tries the     *)
(* ports of a list one after the other on a single socket, and             *)
(* src/gui/PortScanDialog.cpp shows the open ones.                         *)
(*                                                                         *)
(* Every attempt starts a timer of its own, none is ever cancelled, and    *)
(* its handler does not look at the port that it was started for: what it  *)
(* aborts is the attempt that runs when it fires.                          *)
(***************************************************************************)
EXTENDS Naturals, Sequences

CONSTANT Ports   \* ports on the dialog's list

ASSUME AuditAssumption == Ports \in Nat \ {0}

VARIABLES
    dialog,      \* the dialog, and with it the scanner, exists
    index,       \* m_currentIndex
    attempt,     \* the state of m_socket
    timers,      \* attempts whose 200 ms are still running, the oldest first
    rows,        \* the ports in the table
    verdict      \* the label says how many services were found

auditVars == <<dialog, index, attempt, timers, rows, verdict>>

-----------------------------------------------------------------------------

AuditTypeOK ==
    /\ dialog \in BOOLEAN /\ verdict \in BOOLEAN
    /\ index \in 1 .. Ports + 2
    /\ attempt \in {"closed", "connecting", "connected"}
    /\ timers \in Seq(1 .. Ports) /\ rows \in Seq(1 .. Ports)

AuditInit ==
    /\ dialog = FALSE /\ index = 1 /\ attempt = "closed"
    /\ timers = << >> /\ rows = << >> /\ verdict = FALSE

\* scanNext: what the socket was doing is aborted without a signal.
ScanNext(i, running) ==
    /\ index' = i
    /\ IF i > Ports
         THEN verdict' = TRUE /\ timers' = running
         ELSE /\ attempt' = "connecting" /\ timers' = Append(running, i)
              /\ UNCHANGED verdict

\* The constructor of the dialog starts the scanner.
OpenAudit ==
    /\ ~dialog /\ dialog' = TRUE
    /\ ScanNext(1, << >>)
    /\ rows' = << >>

\* The dialog deletes itself, and its scanner with the timers.
CloseAudit ==
    /\ dialog /\ dialog' = FALSE
    /\ index' = 1 /\ attempt' = "closed"
    /\ timers' = << >> /\ rows' = << >> /\ verdict' = FALSE

\* onConnected; the socket stays connected until the next attempt.
OnConnected ==
    /\ attempt = "connecting"
    /\ rows' = Append(rows, index)
    /\ \/ index < Ports /\ ScanNext(index + 1, timers)
       \/ index = Ports /\ ScanNext(index + 1, timers) /\ attempt' = "connected"
    /\ UNCHANGED dialog

\* onError, for what the socket was doing and after it has failed.
OnError(running) ==
    /\ ScanNext(index + 1, running)
    /\ index < Ports \/ attempt' = "closed"
    /\ UNCHANGED <<dialog, rows>>

\* The port refuses, or the last one, which was open, is closed by the device
\* after the end of the scan.
Refused == attempt # "closed" /\ OnError(timers)

\* Mutant of TimedOut: the handler only aborts.
TimedOutSilently ==
    /\ timers # << >> /\ attempt = "connecting"
    /\ attempt' = "closed" /\ timers' = Tail(timers)
    /\ UNCHANGED <<dialog, index, rows, verdict>>

\* The oldest timer fires in the middle of an attempt, whose port counts as
\* closed, although the timer may be that of an earlier port.
TimedOut ==
    /\ timers # << >> /\ attempt = "connecting"
    /\ OnError(Tail(timers))

\* It fires when nothing is being tried.
TimerLapses ==
    /\ timers # << >> /\ attempt # "connecting" /\ timers' = Tail(timers)
    /\ UNCHANGED <<dialog, index, attempt, rows, verdict>>

AuditStep ==
    OpenAudit \/ CloseAudit \/ OnConnected \/ Refused \/ TimedOut \/ TimerLapses

AuditSpec == AuditInit /\ [][AuditStep]_auditVars

-----------------------------------------------------------------------------

\* Until the verdict the audit goes on: a port is being tried, and its own
\* timer still runs, so that a silent port cannot hold it up, although timers
\* of earlier ports abort later attempts and the socket is shared (scanNext,
\* onError, the timer's handler).  The verdict comes after the last port, and
\* the table names each open port once.
AuditNeverStalls ==
    /\ dialog /\ index <= Ports =>
          /\ attempt = "connecting"
          /\ \E n \in DOMAIN timers : timers[n] = index
    /\ verdict <=> index > Ports
    /\ \A m, n \in DOMAIN rows : m < n => rows[m] < rows[n]
=============================================================================
