----------------------------- MODULE AddressCalc -----------------------------
(***************************************************************************)
(* The IP calculator: the IPv4 arithmetic of src/core/IPCalculator.cpp and *)
(* what src/gui/IPCalculatorPage.cpp does with it.  The code works on 32   *)
(* bits; here the width is a parameter, and all sums wrap around at it.    *)
(* Texts that are no address are an input like any other; classes, the     *)
(* binary form and IPv6 are left out.                                      *)
(***************************************************************************)
EXTENDS Integers

CONSTANTS
    Width,     \* bits of an address (32 in the code)
    MaxAudit,  \* usable hosts of the largest network that can be listed
    MaxCount,  \* the most parts a network can be divided into (256 in the code)
    NoAddress, \* a text that is no address
    InputLists \* lists of lines, in any order, typed to be combined

ASSUME CalcAssumption ==
    /\ Width \in Nat \ {0} /\ MaxAudit \in Nat /\ MaxCount \in Nat \ {0, 1}
    /\ MaxCount <= 2 ^ Width
    /\ NoAddress \notin Nat

VARIABLES
    tab,       \* the tab in use: they share nothing, so a behaviour uses one
    question,  \* the address and the prefix of the last calculation
    answer,    \* m_lastResult
    generable, \* m_generateBtn is enabled
    visible,   \* so is the card that it is on
    audit,     \* the addresses in the dialog
    division,  \* the base, the prefix and the count of the last division
    subnets,   \* its rows
    routes,    \* the lines of the last aggregation
    route      \* its result

calcVars == <<tab, question, answer, generable, visible, audit, division, subnets, routes, route>>

-----------------------------------------------------------------------------

Space == 2 ^ Width
Ip == 0 .. Space - 1
Prefix == 0 .. Width

\* addr & mask for a mask of that many bits, and ~mask.
HostBits(prefix) == 2 ^ (Width - prefix) - 1
Masked(a, prefix) == a - (a % (HostBits(prefix) + 1))

Cidr == [base : Ip, prefix : Prefix]
Line == [base : Ip \cup {NoAddress}, prefix : Prefix]
ASSUME ListAssumption == InputLists \subseteq SUBSET Line

NothingYet == [valid |-> FALSE, first |-> 0, last |-> 0, usable |-> 0]
NoDivision == [base |-> NoAddress, prefix |-> 0, count |-> 0]
NoRoute == [base |-> NoAddress, prefix |-> 0]

CalcTypeOK ==
    /\ tab \in {"none", "forensic", "subnets", "aggregation"}
    /\ question \in (Ip \cup {NoAddress}) \X Prefix
    /\ answer \in [valid : BOOLEAN, first : Ip, last : Ip, usable : 0 .. Space]
    /\ generable \in BOOLEAN /\ visible \in BOOLEAN /\ audit \subseteq Ip
    /\ division \in [base : Ip \cup {NoAddress}, prefix : Prefix, count : 0 .. MaxCount]
    /\ subnets \subseteq Cidr /\ routes \subseteq Line
    /\ route \in Cidr \cup {NoRoute}

CalcInit ==
    /\ tab = "none"
    /\ question = <<NoAddress, 0>> /\ answer = NothingYet
    /\ generable = FALSE /\ visible = FALSE /\ audit = {}
    /\ division = NoDivision /\ subnets = {}
    /\ routes = {} /\ route = NoRoute

-----------------------------------------------------------------------------
(* The calculator.                                                         *)

\* calculate: the hosts are next to the two ends of the network.
Calculate(a, prefix) ==
    LET network == Masked(a, prefix)
        total == HostBits(prefix) + 1
    IN  [valid |-> TRUE,
         first |-> (network + 1) % Space,
         last |-> (network + HostBits(prefix) - 1) % Space,
         usable |-> IF total > 2 THEN total - 2 ELSE 0]

\* The shortest number of bits that count values fit in: ceil(log2(count)).
Bits(count) ==
    CHOOSE bits \in Prefix :
        2 ^ bits >= count /\ \A fewer \in Prefix : 2 ^ fewer >= count => bits <= fewer

\* createSubnets: the parts follow each other from the address as it was typed.
CreateSubnets(a, prefix, count) ==
    LET longer == prefix + Bits(count)
    IN  IF longer > Width THEN {}
        ELSE {[base |-> (a + i * (HostBits(longer) + 1)) % Space, prefix |-> longer] :
                 i \in 0 .. count - 1}

Least(S) == CHOOSE a \in S : \A b \in S : a <= b
Most(S) == CHOOSE a \in S : \A b \in S : b <= a

\* The bits before the highest one in which two addresses differ.
CommonPrefix(a, b) ==
    CHOOSE p \in Prefix :
        /\ Masked(a, p) = Masked(b, p)
        /\ \A longer \in Prefix : longer > p => Masked(a, longer) # Masked(b, longer)

\* aggregate looks only at the addresses in front of the slashes.  Its bounds
\* start at the ends of the address space and stay there when no line has one.
Addresses(S) == {line.base : line \in S} \ {NoAddress}
MinAddr(S) == Least(Addresses(S) \cup {Space - 1})
MaxAddr(S) == Most(Addresses(S) \cup {0})

Aggregate(S) ==
    LET prefix == CommonPrefix(MinAddr(S), MaxAddr(S))
    IN  [base |-> Masked(MinAddr(S), prefix), prefix |-> prefix]

\* generateRange.
GenerateRange(first, last) ==
    IF first > last THEN {}
    ELSE {a \in first .. last : a - first < MaxAudit}

-----------------------------------------------------------------------------
(* The page.                                                               *)

\* Mutant of Audible: the hosts themselves are not looked at.
AudibleAnyway(usable) == usable <= MaxAudit

\* Whether the button is enabled.
Audible(usable) == usable > 0 /\ usable <= MaxAudit

\* onCalculateForensic: what is no address hides the cards, and leaves the
\* button as it is.
OnCalculateForensic(a, prefix) ==
    /\ question' = <<a, prefix>> /\ audit' = {}
    /\ IF a = NoAddress
         THEN answer' = NothingYet /\ visible' = FALSE /\ UNCHANGED generable
         ELSE /\ answer' = Calculate(a, prefix) /\ visible' = TRUE
              /\ generable' = Audible(answer'.usable)
    /\ UNCHANGED <<division, subnets, routes, route>>

\* The Clear button of the tab hides the cards.
ClearForensic ==
    /\ visible' = FALSE /\ audit' = {}
    /\ UNCHANGED <<question, answer, generable, division, subnets, routes, route>>

\* The list, in a dialog that has to be closed before anything else.
GenerateClicked ==
    /\ generable /\ visible /\ answer.valid
    /\ audit' = GenerateRange(answer.first, answer.last)
    /\ UNCHANGED <<question, answer, generable, visible, division, subnets, routes, route>>

OnCalculateSubnets(a, prefix, count) ==
    /\ division' = [base |-> a, prefix |-> prefix, count |-> count]
    /\ subnets' = IF a = NoAddress THEN {} ELSE CreateSubnets(a, prefix, count)
    /\ UNCHANGED <<question, answer, generable, visible, audit, routes, route>>

\* Only a list without a single line is reported as invalid.
OnAggregateCIDR(S) ==
    /\ routes' = S
    /\ route' = IF S = {} THEN NoRoute ELSE Aggregate(S)
    /\ UNCHANGED <<question, answer, generable, visible, audit, division, subnets>>

InTab(name) == tab \in {"none", name} /\ tab' = name

CalcStep ==
    \/ /\ InTab("forensic")
       /\ \/ \E a \in Ip \cup {NoAddress}, prefix \in Prefix : OnCalculateForensic(a, prefix)
          \/ ClearForensic \/ GenerateClicked
    \/ /\ InTab("subnets")
       /\ \E a \in Ip \cup {NoAddress}, prefix \in Prefix, count \in 2 .. MaxCount :
             OnCalculateSubnets(a, prefix, count)
    \/ InTab("aggregation") /\ \E S \in InputLists : OnAggregateCIDR(S)

CalcSpec == CalcInit /\ [][CalcStep]_calcVars

-----------------------------------------------------------------------------

\* What a block means: the addresses that begin like its base.
Block(cidr) == {a \in Ip : a \div 2 ^ (Width - cidr.prefix) = cidr.base \div 2 ^ (Width - cidr.prefix)}

\* The list has every address of the network but its two ends.
AuditListsHosts ==
    audit # {} =>
        LET network == Block([base |-> question[1], prefix |-> question[2]])
        IN  audit = network \ {Least(network), Most(network)}

\* A network divided from its own address, into parts that use up the bits,
\* is covered by blocks that do not overlap.
SubnetsTile ==
    LET network == [base |-> division.base, prefix |-> division.prefix]
    IN  subnets # {} /\ division.base = Masked(division.base, division.prefix)
        /\ 2 ^ Bits(division.count) = division.count
        => /\ UNION {Block(s) : s \in subnets} = Block(network)
           /\ \A s, t \in subnets : s # t => Block(s) \cap Block(t) = {}

\* The route is the smallest block that has the address of every line.  It
\* need not cover the networks behind these addresses, whose prefixes are
\* cut off, and without any address it is the whole space.
RouteIsTight ==
    LET listed == Addresses(routes)
    IN  listed # {} =>
        /\ listed \subseteq Block(route)
        /\ \A longer \in Prefix :
              longer > route.prefix =>
                  ~(listed \subseteq Block([base |-> Least(listed), prefix |-> longer]))

\* What the page shows: the list of a network is that of its hosts, with the
\* edges of the address space and the prefixes without hosts; the parts of a
\* network tile it; the combined route is the tightest around the addresses
\* listed (calculate, generateRange, createSubnets, aggregate).
AnswersAreRight == AuditListsHosts /\ SubnetsTile /\ RouteIsTight
=============================================================================
