----------------------------- MODULE IntelLookup -----------------------------
(***************************************************************************)
(* The intelligence look-up: src/core/IntelLookupService.cpp gathers what  *)
(* is known of a domain or an address, in a thread of its own, and         *)
(* src/gui/IntelLookupPage.cpp shows it in cards.                          *)
(*                                                                         *)
(* Reverse DNS, the threat list and the ports are asked in the thread, one *)
(* after the other; crt.sh and ip-api.com are asked in the background.     *)
(* The button of the page is disabled until the end of a look-up, but the  *)
(* Return key in the input field is not: look-ups may overlap, and no      *)
(* signal says which look-up it belongs to.                                *)
(***************************************************************************)
EXTENDS Naturals, Sequences

CONSTANTS
    Domain,      \* domain names
    Address,     \* addresses in dotted form
    Empty,       \* a card without content
    MaxLookups,  \* bound on the look-ups that wait for the thread
    MaxReplies,  \* bound on the replies of one kind that are waited for
    MaxSignals   \* bound on the signals on their way when another is sent

ASSUME IntelAssumption ==
    /\ Domain \cap Address = {} /\ Empty \notin Domain \cup Address
    /\ MaxLookups \in Nat \ {0} /\ MaxReplies \in Nat \ {0} /\ MaxSignals \in Nat \ {0}

VARIABLES
    wanted,      \* calls of lookup on their way to the thread
    subject,     \* the target of the running lookup
    step,        \* how far it is
    replies,     \* what is expected of each service, by the target
    signals,     \* signals on their way to the page
    cards,       \* whose answer each card shows
    button,      \* the button is enabled
    latest,      \* the target that the user asked for last
    failed       \* the last look-up that ended could not be done

intelVars == <<wanted, subject, step, replies, signals, cards, button, latest, failed>>

-----------------------------------------------------------------------------

Query == Domain \cup Address
Local == {"ips", "rdns", "threat", "ports"}   \* the cards filled by the thread
Card == Local \cup {"geo", "subdomains"}
Service == {"crt", "geo"}
Note == [of : Card \cup {"finished", "failed"}, for : Query]
About(what, q) == [of |-> what, for |-> q]
NoCards == [c \in Card |-> Empty]

IntelTypeOK ==
    /\ wanted \in Seq(Query) /\ Len(wanted) <= MaxLookups
    /\ subject \in Query \cup {Empty}
    /\ step \in {"idle", "rdns", "threat", "ports", "geo"}
    /\ replies \in [Service \X Query -> 0 .. MaxReplies]
    /\ signals \in Seq(Note)
    /\ cards \in [Card -> Query \cup {Empty}] /\ button \in BOOLEAN
    /\ latest \in Query \cup {Empty} /\ failed \in BOOLEAN

IntelInit ==
    /\ wanted = << >> /\ subject = Empty /\ step = "idle"
    /\ replies = [r \in Service \X Query |-> 0]
    /\ signals = << >> /\ cards = NoCards
    /\ button = TRUE /\ latest = Empty /\ failed = FALSE

-----------------------------------------------------------------------------
(* The service.                                                            *)

Emits(notes) == Len(signals) < MaxSignals /\ signals' = signals \o notes

Expect(service) == replies' = [replies EXCEPT ![<<service, subject'>>] = @ + 1]

\* The start of lookup: an address has no subdomains, a domain that cannot be
\* resolved ends the look-up, and crt.sh is asked about any other.
BeginLookup ==
    /\ step = "idle" /\ wanted # << >>
    /\ \A service \in Service : replies[service, Head(wanted)] < MaxReplies
    /\ wanted' = Tail(wanted) /\ subject' = Head(wanted)
    /\ \/ /\ subject' \in Address /\ step' = "rdns"
          /\ Emits(<<About("ips", subject'), About("subdomains", subject')>>)
          /\ UNCHANGED replies
       \/ /\ subject' \in Domain /\ step' = "idle"
          /\ Emits(<<About("failed", subject')>>)
          /\ UNCHANGED replies
       \/ /\ subject' \in Domain /\ step' = "rdns"
          /\ Emits(<<About("ips", subject')>>)
          /\ Expect("crt")
    /\ UNCHANGED <<cards, button, latest, failed>>

ReverseDnsLookup ==
    /\ step = "rdns" /\ step' = "threat" /\ Emits(<<About("rdns", subject)>>)
    /\ UNCHANGED <<wanted, subject, replies, cards, button, latest, failed>>

\* isKnownMalicious.
ThreatStatus ==
    /\ step = "threat" /\ step' = "ports" /\ Emits(<<About("threat", subject)>>)
    /\ UNCHANGED <<wanted, subject, replies, cards, button, latest, failed>>

\* Mutant of PortsFound: only open ports are worth a signal.
PortsFoundIfAny ==
    \/ Emits(<<About("ports", subject)>>)
    \/ UNCHANGED signals

\* The ports that are open, none included.
PortsFound == Emits(<<About("ports", subject)>>)

ScanCommonPorts ==
    /\ step = "ports" /\ step' = "geo" /\ PortsFound
    /\ UNCHANGED <<wanted, subject, replies, cards, button, latest, failed>>

\* The end of lookup: that of an address says so now, without its geolocation.
AskGeo ==
    /\ step = "geo" /\ step' = "idle" /\ UNCHANGED subject /\ Expect("geo")
    /\ Emits(IF subject \in Address THEN <<About("finished", subject)>> ELSE << >>)
    /\ UNCHANGED <<wanted, cards, button, latest, failed>>

Answered(service, q) ==
    /\ step = "idle" /\ replies[service, q] > 0
    /\ replies' = [replies EXCEPT ![<<service, q>>] = @ - 1]
    /\ UNCHANGED <<wanted, subject, step, cards, button, latest, failed>>

\* onGeoReplyFinished, which also fills its card when there is no answer.
OnGeoReplyFinished(q) == Answered("geo", q) /\ Emits(<<About("geo", q)>>)

\* onCrtShReplyFinished: an error or a time-out is an answer without names.
OnCrtShReplyFinished(q) ==
    Answered("crt", q) /\ Emits(<<About("subdomains", q), About("finished", q)>>)

-----------------------------------------------------------------------------
(* The page.                                                               *)

\* onLookupClicked, by the button or by the Return key, with the call of
\* triggerIntelLookup that it posts.
OnLookupClicked(q) ==
    /\ Len(wanted) < MaxLookups
    /\ wanted' = Append(wanted, q) /\ latest' = q
    /\ cards' = NoCards /\ button' = FALSE /\ failed' = FALSE
    /\ UNCHANGED <<subject, step, replies, signals>>

\* The slots of the page.
IntelPageHears ==
    /\ signals # << >> /\ signals' = Tail(signals)
    /\ LET note == Head(signals)
       IN  /\ button' = (button \/ note.of \in {"finished", "failed"})
           /\ failed' = (failed \/ note.of = "failed")
           /\ cards' = IF note.of \in Card THEN [cards EXCEPT ![note.of] = note.for] ELSE cards
    /\ UNCHANGED <<wanted, subject, step, replies, latest>>

IntelStep ==
    \/ BeginLookup \/ ReverseDnsLookup \/ ThreatStatus \/ ScanCommonPorts \/ AskGeo
    \/ \E q \in Query : OnGeoReplyFinished(q) \/ OnCrtShReplyFinished(q) \/ OnLookupClicked(q)
    \/ IntelPageHears

IntelSpec == IntelInit /\ [][IntelStep]_intelVars

-----------------------------------------------------------------------------

\* When the thread has nothing more to do and the page has heard it all, what
\* the thread itself found out is that of the last target, although the page
\* does not see which look-up a signal belongs to, the cards of an earlier
\* look-up go on filling after the user has asked for the next one, and the
\* look-ups run one after the other only because the thread is busy (lookup,
\* onLookupClicked).  A look-up that fails leaves the cards as they are.
LastTargetIsShown ==
    /\ step = "idle" /\ wanted = << >> /\ signals = << >>
    /\ latest # Empty /\ ~failed
    => \A c \in Local : cards[c] = latest
=============================================================================
