--------------------------- MODULE MCInstallation ---------------------------
(***************************************************************************)
(* An installation for TLC: its monitors, its settings and its deliveries.   *)
(* They share no state, so that each behaviour lets one of them go on; and    *)
(* the channels of different monitors share none, so that one monitor at a    *)
(* time has the other reporter beside it.                                    *)
(***************************************************************************)
EXTENDS MonitorLifecycle, TLC

CONSTANTS Properties, Values, MaxSets,
          Filters, Behavior, MaxReports, MaxSends, MaxAdds,
          s1, s2, v1, v2

VARIABLES count, fields, pointer, classes, classCount, setter, sets, last, report,
          prefilters, added, store, written, queue, sends,
          part          \* "settings", "delivery", or the monitor that is switched

Kinds == {[version |-> 3, error |-> TRUE], [version |-> 3, error |-> FALSE],
          [version |-> 2, error |-> FALSE]}

Settings == INSTANCE CrashSettings
Delivery == INSTANCE ReportDelivery

ASSUME NamesAssumption == {"user", "classes"} \cap Properties = {}

settingsVars == <<count, fields, pointer, classes, classCount, setter, sets, last, report>>
deliveryVars == <<prefilters, added, store, written, queue, sends>>

TwoSignals == <<s1, s2>>
TwoValues == {v1, v2}

Switched == wanted \subseteq {part, "user"}
                /\ \A c \in Channels : MonitorAt(c) # part => other[c] = "none"

MCInit == Init /\ Settings!Init /\ Delivery!Init
            /\ part \in DebuggerUnsafe \cup {"settings", "delivery"}

MCNext ==
    /\ UNCHANGED part
    /\ \/ part \in DebuggerUnsafe /\ Next /\ Switched' /\ UNCHANGED <<settingsVars, deliveryVars>>
       \/ part = "settings" /\ Settings!Next /\ UNCHANGED <<vars, deliveryVars>>
       \/ part = "delivery" /\ Delivery!Next /\ UNCHANGED <<vars, settingsVars>>

MCSpec == MCInit /\ [][MCNext]_<<vars, settingsVars, deliveryVars, part>> /\ Delivery!Fairness

OthersAreExact == Settings!OthersAreExact
\* Of two deliveries at once, through filters that are added meanwhile, it is
\* known which filters each of them runs, and of which report each part of what it
\* delivers is.
DeliveriesAreExact == Delivery!FiltersInTurn /\ Delivery!EntriesMatch
EverySendAnswered == Delivery!EverySendAnswered
=============================================================================
