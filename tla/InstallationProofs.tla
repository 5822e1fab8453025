----------------------- MODULE InstallationProofs -----------------------
(***************************************************************************)
(* Proofs about an installation: its monitors, its settings, its deliveries,  *)
(* for any values of the constants.                                         *)
(*                                                                         *)
(* No reporter is lost on a channel whose handlers came and went in turn,     *)
(* with installations that fail and the other reporter on any channel; and    *)
(* the exception threads are reserved as long as the table has had room.  Of  *)
(* a channel that is not spoiled there are five states (ChannelInv): each of  *)
(* the two reporters is there or not, and when both are, either may have      *)
(* come last.  For that it must be known which monitors hold their channels:  *)
(* those enabled whose installation did not fail, and the Mach monitor        *)
(* exactly while it keeps ports (HeldInv).                                   *)
(*                                                                         *)
(* A report has every item that no setter was at work on as it was last set:  *)
(* such an item's pointers lead to what was set (PointersInv), and they stay  *)
(* while the report reads them, since a setter that starts marks its item     *)
(* (ReportInv).  A delivery has run the first of the filters it began with,   *)
(* or, if one was added meanwhile, as many (FiltersInv); what they left are   *)
(* the first of the reports it loaded (FilteredInv), which have numbers of     *)
(* their own (Numbered), so that a text that moved up is of another report.    *)
(***************************************************************************)
EXTENDS MCInstallation, SequenceTheorems, FiniteSetTheorems, WellFoundedInduction, TLAPS

MonitorSet == {"mach", "signal", "ns", "cpp", "user"}
ExceptionThreads == {"primary", "secondary"} \X Nat

TypeInv ==
    /\ step \in 0 .. 6 /\ wanted \subseteq MonitorSet
    /\ DOMAIN handler = Channels /\ DOMAIN previous = Channels /\ DOMAIN other = Channels
    /\ kept \in {0, 1} /\ installs \in Nat
    /\ reserved \in Seq(ExceptionThreads)

HeldInv ==
    /\ enabled \subseteq MonitorSet /\ failed \subseteq enabled \cap {"mach", "signal"}
    /\ kept = 1 <=> "mach" \in enabled \ failed

ChannelInv(c) ==
    \/ c \in spoiled
    \/ /\ ~Installed(c)
       /\ \/ other[c] = "none" /\ handler[c] = "default"
          \/ other[c] = "default" /\ handler[c] = "other"
    \/ /\ Installed(c)
       /\ \/ other[c] = "none" /\ handler[c] = "ours" /\ previous[c] = "default"
          \/ other[c] = "default" /\ handler[c] = "ours" /\ previous[c] = "other"
          \/ other[c] = "ours" /\ handler[c] = "other" /\ previous[c] = "default"

ReservedInv == Len(reserved) <= 2 * installs

ChannelsInv == \A c \in Channels : ChannelInv(c)

Inv == TypeInv /\ HeldInv /\ ChannelsInv /\ ReservedInv /\ ExceptionThreadsReserved

-----------------------------------------------------------------------------
(***************************************************************************)
(* The monitors and their channels.                                        *)
(***************************************************************************)
LEMMA MonitorOfChannel ==
    ASSUME NEW c \in Channels
    PROVE  /\ MonitorAt(c) \in {"mach", "signal", "ns", "cpp"}
           /\ c \in SignalSet <=> MonitorAt(c) = "signal"
           /\ \A m \in {"mach", "ns", "cpp"} : c \in {m} <=> MonitorAt(c) = m
BY LifecycleAssumption DEF Channels, MonitorAt

LEMMA MonitorOfStep ==
    ASSUME step \in DOMAIN Monitors
    PROVE  step \in 1 .. 5 /\ Monitors[step] \in MonitorSet
BY DEF Monitors, MonitorSet

LEMMA Taken ==
    ASSUME NEW channels, Take(channels), NEW c \in Channels
    PROVE  /\ c \in channels => handler'[c] = "ours" /\ previous'[c] = handler[c]
           /\ c \notin channels => handler'[c] = handler[c] /\ previous'[c] = previous[c]
           /\ DOMAIN handler' = Channels /\ DOMAIN previous' = Channels
BY DEF Take

LEMMA GivenBack ==
    ASSUME NEW channels, GiveBack(channels), NEW c \in Channels
    PROVE  /\ c \in channels => handler'[c] = previous[c]
           /\ c \notin channels => handler'[c] = handler[c]
           /\ previous' = previous /\ DOMAIN handler' = Channels
BY DEF GiveBack

LEMMA Channelless == Channels # {}
BY DEF Channels

\* What an installation does to the channels and to what is known of them.
LEMMA InstallEffect ==
    ASSUME TypeInv, HeldInv, NEW m \in MonitorSet, m \notin enabled, Install(m)
    PROVE  /\ failed' \in {failed, failed \cup ({m} \cap {"mach", "signal"})}
           /\ \A c \in Channels :
                /\ MonitorAt(c) = m /\ m \notin failed' =>
                     handler'[c] = "ours" /\ previous'[c] = handler[c]
                /\ MonitorAt(c) = m /\ m \in failed' => handler'[c] = handler[c]
                /\ MonitorAt(c) # m => handler'[c] = handler[c] /\ previous'[c] = previous[c]
           /\ DOMAIN handler' = Channels /\ DOMAIN previous' = Channels
           /\ m = "mach" => kept' \in {0, 1} /\ (kept' = 1 <=> "mach" \notin failed')
           /\ m # "mach" => UNCHANGED machVars
  <1> USE DEF handlerVars, machVars
  <1>1. m \notin failed
    BY DEF HeldInv
  <1>2. CASE m = "mach" /\ InstallExceptionHandler
    <2>1. CASE Take({"mach"}) /\ kept' = 1 /\ UNCHANGED failed
      BY <1>1, <1>2, <2>1, Taken, MonitorOfChannel, Channelless
    <2>2. CASE kept' = 0 /\ UNCHANGED handlerVars /\ failed' = failed \cup {"mach"}
      BY <1>2, <2>2 DEF TypeInv
    <2> QED
      BY <1>2, <2>1, <2>2 DEF InstallExceptionHandler
  <1>3. CASE m = "signal" /\ InstallSignalHandler /\ UNCHANGED machVars
    <2>1. CASE Take(SignalSet) /\ UNCHANGED failed
      BY <1>1, <1>3, <2>1, Taken, MonitorOfChannel, Channelless
    <2>2. ASSUME NEW n \in 0 .. Len(Signals) - 1, RollBack(n), failed' = failed \cup {"signal"}
          PROVE  /\ UNCHANGED handler /\ DOMAIN previous' = Channels
                 /\ \A c \in Channels : MonitorAt(c) # m => previous'[c] = previous[c]
      <3>1. \A i \in 1 .. n : Signals[i] \in SignalSet
        BY LifecycleAssumption DEF SignalSet
      <3> QED
        BY <1>3, <2>2, <3>1, MonitorOfChannel DEF RollBack
    <2> QED
      BY <1>3, <2>1, <2>2 DEF InstallSignalHandler, TypeInv
  <1>4. CASE m \in {"ns", "cpp"} /\ Take({m}) /\ UNCHANGED <<machVars, failed>>
    BY <1>1, <1>4, Taken, MonitorOfChannel, Channelless
  <1>5. CASE m = "user" /\ UNCHANGED <<handlerVars, machVars, failed>>
    BY <1>1, <1>5, MonitorOfChannel DEF TypeInv
  <1> QED
    BY <1>2, <1>3, <1>4, <1>5 DEF Install

\* What its end does to them.
LEMMA UninstallEffect ==
    ASSUME TypeInv, HeldInv, NEW m \in MonitorSet, m \in enabled, Uninstall(m)
    PROVE  /\ \A c \in Channels :
                /\ MonitorAt(c) = m /\ m \notin failed => handler'[c] = previous[c]
                /\ MonitorAt(c) = m /\ m \in failed /\ m = "mach" => handler'[c] = handler[c]
                /\ MonitorAt(c) # m => handler'[c] = handler[c]
           /\ previous' = previous /\ DOMAIN handler' = Channels
           /\ UNCHANGED reserved
           /\ m = "mach" => kept' = 0 /\ threads' = {}
           /\ m # "mach" => UNCHANGED machVars
  <1> USE DEF handlerVars, machVars
  <1>1. CASE m = "mach" /\ UninstallExceptionHandler
    <2>1. CASE kept > 0 /\ GiveBack({"mach"})
      BY <1>1, <2>1, GivenBack, MonitorOfChannel, Channelless DEF UninstallExceptionHandler, HeldInv, TypeInv
    <2>2. CASE ~(kept > 0) /\ UNCHANGED handlerVars
      BY <1>1, <2>2 DEF UninstallExceptionHandler, HeldInv, TypeInv
    <2> QED
      BY <1>1, <2>1, <2>2 DEF UninstallExceptionHandler
  <1>2. CASE m = "signal" /\ GiveBack(SignalSet) /\ UNCHANGED machVars
    BY <1>2, GivenBack, MonitorOfChannel, Channelless
  <1>3. CASE m \in {"ns", "cpp"} /\ GiveBack({m}) /\ UNCHANGED machVars
    BY <1>3, GivenBack, MonitorOfChannel, Channelless
  <1>4. CASE m = "user" /\ UNCHANGED <<handlerVars, machVars>>
    BY <1>4, MonitorOfChannel DEF TypeInv
  <1> QED
    BY <1>1, <1>2, <1>3, <1>4 DEF Uninstall

-----------------------------------------------------------------------------
(***************************************************************************)
(* The three steps of setEnabled.                                          *)
(***************************************************************************)
Enables(m) ==
    /\ m \in wanted /\ m \notin enabled /\ Install(m) /\ enabled' = enabled \cup {m}
    /\ installs' = IF m = "mach" THEN installs + 1 ELSE installs
    /\ UNCHANGED <<spoiled, other>>

Disables(m) ==
    /\ m \notin wanted /\ m \in enabled /\ Uninstall(m) /\ enabled' = enabled \ {m}
    /\ failed' = failed \ {m} /\ spoiled' = spoiled \cup OutOfTurn(m)
    /\ UNCHANGED <<installs, other>>

Keeps == UNCHANGED <<enabled, handlerVars, machVars, failed, spoiled, installs, other>>

LEMMA StepsOfSetEnabled ==
    ASSUME SetEnabled
    PROVE  /\ step \in DOMAIN Monitors /\ step' = step + 1 /\ UNCHANGED <<wanted, other>>
           /\ Enables(Monitors[step]) \/ Disables(Monitors[step]) \/ Keeps
BY DEF SetEnabled, Enables, Disables, Keeps, handlerVars, machVars

LEMMA HeldEnables ==
    ASSUME TypeInv, HeldInv, NEW m \in MonitorSet, Enables(m)
    PROVE  HeldInv'
  <1>1. m \notin enabled /\ Install(m) /\ enabled' = enabled \cup {m}
    BY DEF Enables
  <1>2. /\ failed' \in {failed, failed \cup ({m} \cap {"mach", "signal"})}
        /\ m = "mach" => kept' \in {0, 1} /\ (kept' = 1 <=> "mach" \notin failed')
        /\ m # "mach" => UNCHANGED machVars
    BY <1>1, InstallEffect
  <1>3. enabled' \subseteq MonitorSet /\ failed' \subseteq enabled' \cap {"mach", "signal"}
    BY <1>1, <1>2 DEF HeldInv
  <1>4. kept' = 1 <=> "mach" \in enabled' \ failed'
    BY <1>1, <1>2 DEF HeldInv, machVars
  <1> QED
    BY <1>3, <1>4 DEF HeldInv

LEMMA HeldDisables ==
    ASSUME TypeInv, HeldInv, NEW m \in MonitorSet, Disables(m)
    PROVE  HeldInv'
  <1>1. m \in enabled /\ Uninstall(m) /\ enabled' = enabled \ {m} /\ failed' = failed \ {m}
    BY DEF Disables
  <1>2. (m = "mach" => kept' = 0) /\ (m # "mach" => UNCHANGED machVars)
    BY <1>1, UninstallEffect
  <1>3. kept' = 1 <=> "mach" \in enabled' \ failed'
    BY <1>1, <1>2 DEF HeldInv, machVars
  <1> QED
    BY <1>1, <1>3 DEF HeldInv

\* A step that leaves a channel, and what is known of its monitor, alone.
LEMMA ChannelStays ==
    ASSUME NEW c, ChannelInv(c), Installed(c)' <=> Installed(c), spoiled \subseteq spoiled',
           handler'[c] = handler[c], previous'[c] = previous[c], other'[c] = other[c]
    PROVE  ChannelInv(c)'
BY DEF ChannelInv

LEMMA ChannelEnables ==
    ASSUME TypeInv, HeldInv, NEW m \in MonitorSet, Enables(m),
           NEW c \in Channels, ChannelInv(c)
    PROVE  ChannelInv(c)'
  <1>1. /\ m \notin enabled /\ Install(m) /\ enabled' = enabled \cup {m}
        /\ UNCHANGED <<spoiled, other>>
    BY DEF Enables
  <1>2. /\ failed' \in {failed, failed \cup ({m} \cap {"mach", "signal"})}
        /\ MonitorAt(c) = m /\ m \notin failed' =>
             handler'[c] = "ours" /\ previous'[c] = handler[c]
        /\ MonitorAt(c) = m /\ m \in failed' => handler'[c] = handler[c]
        /\ MonitorAt(c) # m => handler'[c] = handler[c] /\ previous'[c] = previous[c]
    BY <1>1, InstallEffect
  <1>3. CASE MonitorAt(c) # m
    <2>1. Installed(c)' <=> Installed(c)
      BY <1>1, <1>2, <1>3 DEF Installed
    <2> QED
      BY <1>1, <1>2, <1>3, <2>1, ChannelStays
  <1>4. CASE MonitorAt(c) = m
    <2>1. ~Installed(c) /\ (Installed(c)' <=> m \notin failed')
      BY <1>1, <1>4 DEF Installed
    <2> QED
      BY <1>1, <1>2, <1>4, <2>1 DEF ChannelInv
  <1> QED
    BY <1>3, <1>4

LEMMA ChannelDisables ==
    ASSUME TypeInv, HeldInv, NEW m \in MonitorSet, Disables(m),
           NEW c \in Channels, ChannelInv(c)
    PROVE  ChannelInv(c)'
  <1>1. /\ m \in enabled /\ Uninstall(m) /\ enabled' = enabled \ {m} /\ failed' = failed \ {m}
        /\ spoiled' = spoiled \cup OutOfTurn(m) /\ UNCHANGED other
    BY DEF Disables
  <1>2. /\ MonitorAt(c) = m /\ m \notin failed => handler'[c] = previous[c]
        /\ MonitorAt(c) = m /\ m \in failed /\ m = "mach" => handler'[c] = handler[c]
        /\ MonitorAt(c) # m => handler'[c] = handler[c]
        /\ previous' = previous
    BY <1>1, UninstallEffect
  <1>3. CASE MonitorAt(c) # m
    <2>1. Installed(c)' <=> Installed(c)
      BY <1>1, <1>3 DEF Installed
    <2> QED
      BY <1>1, <1>2, <1>3, <2>1, ChannelStays
  <1>4. CASE MonitorAt(c) = m
    <2>1. ~Installed(c)' /\ (Installed(c) <=> m \notin failed)
      BY <1>1, <1>4 DEF Installed
    <2>2. CASE m \in failed
      <3>1. m = "mach" \/ c \in spoiled \/ c \in OutOfTurn(m)
        BY <1>4, <2>1, <2>2 DEF ChannelInv, OutOfTurn
      <3> QED
        BY <1>1, <1>2, <1>4, <2>1, <2>2, <3>1 DEF ChannelInv
    <2>3. CASE m \notin failed
      <3>1. handler[c] # "ours" => c \in OutOfTurn(m)
        BY <1>1, <1>4, <2>3 DEF OutOfTurn, HeldInv
      <3> QED
        BY <1>1, <1>2, <1>4, <2>1, <2>3, <3>1 DEF ChannelInv
    <2> QED
      BY <2>2, <2>3
  <1> QED
    BY <1>3, <1>4

-----------------------------------------------------------------------------
(***************************************************************************)
(* The table of reserved threads.                                          *)
(***************************************************************************)
AreReserved == \A t \in threads : \E i \in DOMAIN reserved : reserved[i] = t

LEMMA AddedReserved ==
    ASSUME NEW list \in Seq(ExceptionThreads), NEW t \in ExceptionThreads
    PROVE  /\ AddReserved(list, t) \in Seq(ExceptionThreads)
           /\ Len(AddReserved(list, t)) <= Len(list) + 1
           /\ Len(list) < MaxReserved =>
                \E i \in DOMAIN AddReserved(list, t) : AddReserved(list, t)[i] = t
           /\ \A s : (\E i \in DOMAIN list : list[i] = s) =>
                      \E i \in DOMAIN AddReserved(list, t) : AddReserved(list, t)[i] = s
  <1> DEFINE longer == Append(list, t)
  <1>1. /\ longer \in Seq(ExceptionThreads) /\ Len(longer) = Len(list) + 1
        /\ \A i \in DOMAIN list : i \in DOMAIN longer /\ longer[i] = list[i]
        /\ Len(longer) \in DOMAIN longer /\ longer[Len(longer)] = t
    OBVIOUS
  <1>2. Len(list) \in Nat
    OBVIOUS
  <1> HIDE DEF longer
  <1>3. CASE Len(list) < MaxReserved
    <2>1. AddReserved(list, t) = longer
      BY <1>3 DEF AddReserved, longer
    <2>2. \A s : (\E i \in DOMAIN list : list[i] = s) => \E i \in DOMAIN longer : longer[i] = s
      BY <1>1
    <2> QED
      BY <1>1, <1>2, <2>1, <2>2
  <1>4. CASE ~(Len(list) < MaxReserved)
    <2>1. AddReserved(list, t) = list
      BY <1>4 DEF AddReserved
    <2> QED
      BY <1>2, <1>4, <2>1
  <1> QED
    BY <1>3, <1>4

LEMMA MachInstallReserves ==
    ASSUME TypeInv, ReservedInv, ExceptionThreadsReserved, InstallExceptionHandler,
           installs' = installs + 1
    PROVE  /\ reserved' \in Seq(ExceptionThreads) /\ Len(reserved') <= 2 * installs'
           /\ ExceptionThreadsReserved'
  <1> DEFINE first == AddReserved(reserved, Secondary)  both == AddReserved(first, Primary)
  <1>1. /\ reserved \in Seq(ExceptionThreads) /\ Len(reserved) \in Nat /\ installs \in Nat
        /\ Len(reserved) <= 2 * installs /\ MaxReserved \in Nat
    BY LifecycleAssumption DEF TypeInv, ReservedInv
  <1>2. Primary \in ExceptionThreads /\ Secondary \in ExceptionThreads
    BY <1>1 DEF Primary, Secondary, ExceptionThreads
  <1>3. /\ first \in Seq(ExceptionThreads) /\ Len(first) <= Len(reserved) + 1
        /\ Len(reserved) < MaxReserved => \E i \in DOMAIN first : first[i] = Secondary
        /\ \A s : (\E i \in DOMAIN reserved : reserved[i] = s) => \E i \in DOMAIN first : first[i] = s
    BY <1>1, <1>2, AddedReserved
  <1>4. Len(first) \in Nat
    BY <1>3
  <1> HIDE DEF first
  <1>5. /\ both \in Seq(ExceptionThreads) /\ Len(both) <= Len(first) + 1
        /\ Len(first) < MaxReserved => \E i \in DOMAIN both : both[i] = Primary
        /\ \A s : (\E i \in DOMAIN first : first[i] = s) => \E i \in DOMAIN both : both[i] = s
    BY <1>2, <1>3, AddedReserved
  <1>6. Len(both) \in Nat
    BY <1>5
  <1> HIDE DEF both
  <1>7. CASE threads' = {Secondary, Primary} /\ reserved' = both
    <2>1. reserved' \in Seq(ExceptionThreads) /\ Len(reserved') <= 2 * installs'
      BY <1>1, <1>3, <1>4, <1>5, <1>6, <1>7
    <2>2. ASSUME 2 * installs' <= MaxReserved PROVE AreReserved'
      <3>1. Len(reserved) < MaxReserved /\ Len(first) < MaxReserved
        BY <1>1, <1>3, <1>4, <2>2
      <3>2. /\ \E i \in DOMAIN both : both[i] = Primary
            /\ \E i \in DOMAIN both : both[i] = Secondary
        BY <1>3, <1>5, <3>1
      <3> QED
        BY <1>7, <3>2 DEF AreReserved
    <2> QED
      BY <2>1, <2>2 DEF ExceptionThreadsReserved, AreReserved
  <1>8. CASE threads' = threads /\ reserved' \in {reserved, first}
    <2>1. reserved' \in Seq(ExceptionThreads) /\ Len(reserved') <= 2 * installs'
      BY <1>1, <1>3, <1>4, <1>8
    <2>2. ASSUME 2 * installs' <= MaxReserved PROVE AreReserved'
      <3>1. AreReserved
        BY <1>1, <2>2 DEF ExceptionThreadsReserved, AreReserved
      <3>2. \A s : (\E i \in DOMAIN reserved : reserved[i] = s) =>
                     \E i \in DOMAIN reserved' : reserved'[i] = s
        BY <1>3, <1>8
      <3> QED
        BY <1>8, <3>1, <3>2 DEF AreReserved
    <2> QED
      BY <2>1, <2>2 DEF ExceptionThreadsReserved, AreReserved
  <1> QED
    BY <1>7, <1>8 DEF InstallExceptionHandler, first, both

\* A step that installs nothing of Mach, and starts no thread.
LEMMA ReservedStays ==
    ASSUME ReservedInv, ExceptionThreadsReserved, UNCHANGED <<reserved, installs>>,
           threads' \subseteq threads
    PROVE  ReservedInv' /\ ExceptionThreadsReserved'
BY DEF ReservedInv, ExceptionThreadsReserved

-----------------------------------------------------------------------------
(***************************************************************************)
(* The steps.                                                              *)
(***************************************************************************)
LEMMA InvInit == Init => Inv
  <1> SUFFICES ASSUME Init PROVE Inv
    OBVIOUS
  <1>1. TypeInv
    BY DEF Init, TypeInv, MonitorSet
  <1>2. HeldInv
    BY DEF Init, HeldInv
  <1>3. ChannelsInv
    BY DEF Init, ChannelsInv, ChannelInv, Installed
  <1>4. ReservedInv /\ ExceptionThreadsReserved
    BY DEF Init, ReservedInv, ExceptionThreadsReserved
  <1> QED
    BY <1>1, <1>2, <1>3, <1>4 DEF Inv

LEMMA InvEnables ==
    ASSUME Inv, step \in 1 .. 5, step' = step + 1, wanted' = wanted,
           NEW m \in MonitorSet, Enables(m)
    PROVE  Inv'
  <1>1. m \notin enabled /\ Install(m) /\ UNCHANGED <<spoiled, other>>
    BY DEF Enables
  <1>2. /\ DOMAIN handler' = Channels /\ DOMAIN previous' = Channels
        /\ m = "mach" => kept' \in {0, 1}
        /\ m # "mach" => UNCHANGED machVars
    BY <1>1, InstallEffect DEF Inv
  <1>3. installs' \in Nat
    BY DEF Enables, Inv, TypeInv
  <1>4. /\ reserved' \in Seq(ExceptionThreads) /\ ReservedInv' /\ ExceptionThreadsReserved'
    <2>1. CASE m = "mach"
      <3>1. InstallExceptionHandler /\ installs' = installs + 1
        BY <2>1 DEF Enables, Install
      <3> QED
        BY <3>1, MachInstallReserves DEF Inv, ReservedInv
    <2>2. CASE m # "mach"
      <3>1. UNCHANGED <<kept, threads, reserved, installs>>
        BY <1>2, <2>2 DEF Enables, machVars
      <3> QED
        BY <3>1, ReservedStays DEF Inv, TypeInv
    <2> QED
      BY <2>1, <2>2
  <1>5. TypeInv'
    BY <1>1, <1>2, <1>3, <1>4 DEF Inv, TypeInv, machVars
  <1> QED
    BY <1>4, <1>5, HeldEnables, ChannelEnables DEF Inv, ChannelsInv

LEMMA InvDisables ==
    ASSUME Inv, step \in 1 .. 5, step' = step + 1, wanted' = wanted,
           NEW m \in MonitorSet, Disables(m)
    PROVE  Inv'
  <1>1. m \in enabled /\ Uninstall(m) /\ UNCHANGED <<installs, other>>
    BY DEF Disables
  <1>2. /\ previous' = previous /\ DOMAIN handler' = Channels
        /\ UNCHANGED reserved
        /\ m = "mach" => kept' = 0 /\ threads' = {}
        /\ m # "mach" => UNCHANGED machVars
    BY <1>1, UninstallEffect DEF Inv
  <1>3. kept' \in {0, 1} /\ threads' \subseteq threads
    BY <1>2 DEF Inv, TypeInv, machVars
  <1>4. TypeInv'
    BY <1>1, <1>2, <1>3 DEF Inv, TypeInv
  <1>5. ReservedInv' /\ ExceptionThreadsReserved'
    BY <1>1, <1>2, <1>3, ReservedStays DEF Inv
  <1> QED
    BY <1>4, <1>5, HeldDisables, ChannelDisables DEF Inv, ChannelsInv

\* A step that changes no channel and no monitor.
LEMMA InvKept ==
    ASSUME Inv, UNCHANGED <<enabled, machVars, handlerVars, failed, spoiled, installs, other>>,
           step' \in 0 .. 6, wanted' \subseteq MonitorSet
    PROVE  Inv'
  <1> USE DEF machVars, handlerVars
  <1>1. TypeInv' /\ HeldInv'
    BY DEF Inv, TypeInv, HeldInv
  <1>2. ASSUME NEW c \in Channels PROVE ChannelInv(c)'
    <2>1. Installed(c)' <=> Installed(c)
      BY DEF Installed
    <2> QED
      BY <2>1, ChannelStays DEF Inv, ChannelsInv
  <1>3. ReservedInv' /\ ExceptionThreadsReserved'
    BY ReservedStays DEF Inv
  <1> QED
    BY <1>1, <1>2, <1>3 DEF Inv, ChannelsInv

\* The other reporter comes or goes on one channel.
LEMMA InvOther ==
    ASSUME Inv, NEW c \in Channels, OtherInstalls(c) \/ OtherUninstalls(c)
    PROVE  Inv'
  <1>1. /\ UNCHANGED <<wanted, step, enabled, kept, threads, reserved, previous, installs, failed>>
        /\ DOMAIN handler' = Channels /\ DOMAIN other' = Channels
        /\ \A d \in Channels : d # c => handler'[d] = handler[d] /\ other'[d] = other[d]
        /\ spoiled \subseteq spoiled'
    BY DEF OtherInstalls, OtherUninstalls, Inv, TypeInv, callVars, machVars
  <1>2. TypeInv' /\ HeldInv'
    BY <1>1 DEF Inv, TypeInv, HeldInv
  <1>3. ASSUME NEW d \in Channels PROVE ChannelInv(d)'
    <2>1. ChannelInv(d) /\ (Installed(d)' <=> Installed(d))
      BY <1>1 DEF Installed, Inv, ChannelsInv
    <2>2. CASE d # c
      BY <1>1, <2>1, <2>2, ChannelStays
    <2>3. CASE d = c /\ OtherInstalls(c)
      <3>1. other[c] = "none" /\ other'[c] = handler[c] /\ handler'[c] = "other"
        BY <2>3 DEF OtherInstalls, Inv, TypeInv
      <3> QED
        BY <1>1, <2>1, <2>3, <3>1 DEF ChannelInv
    <2>4. CASE d = c /\ OtherUninstalls(c)
      <3>1. /\ other[c] # "none" /\ other'[c] = "none" /\ handler'[c] = other[c]
            /\ handler[c] # "other" => c \in spoiled'
        BY <2>4 DEF OtherUninstalls, Inv, TypeInv
      <3> QED
        BY <1>1, <2>1, <2>4, <3>1 DEF ChannelInv
    <2> QED
      BY <2>2, <2>3, <2>4
  <1>4. ReservedInv' /\ ExceptionThreadsReserved'
    BY <1>1, ReservedStays DEF Inv
  <1> QED
    BY <1>2, <1>3, <1>4 DEF Inv, ChannelsInv

LEMMA InvStep == Inv /\ [Next]_vars => Inv'
  <1> SUFFICES ASSUME Inv, [Next]_vars PROVE Inv'
    OBVIOUS
  <1>1. ASSUME NEW monitors \in SUBSET DebuggerUnsafe, NEW traced \in BOOLEAN,
               SetActiveMonitors(monitors \cup {"user"}, traced)
        PROVE  Inv'
    <2>1. wanted' \subseteq MonitorSet /\ step' = 1
      BY <1>1 DEF SetActiveMonitors, DebuggerUnsafe, MonitorSet
    <2>2. UNCHANGED <<enabled, machVars, handlerVars, failed, spoiled, installs, other>>
      BY <1>1 DEF SetActiveMonitors
    <2> QED
      BY <2>1, <2>2, InvKept
  <1>2. ASSUME SetEnabled PROVE Inv'
    <2>1. /\ step \in 1 .. 5 /\ Monitors[step] \in MonitorSet
          /\ step' = step + 1 /\ UNCHANGED <<wanted, other>>
      BY <1>2, MonitorOfStep, StepsOfSetEnabled
    <2>2. CASE Enables(Monitors[step])
      BY <2>1, <2>2, InvEnables
    <2>3. CASE Disables(Monitors[step])
      BY <2>1, <2>3, InvDisables
    <2>4. CASE Keeps
      <3>1. step' \in 0 .. 6 /\ wanted' \subseteq MonitorSet
        BY <2>1 DEF Inv, TypeInv
      <3> QED
        BY <2>4, <3>1, InvKept DEF Keeps
    <2> QED
      BY <1>2, <2>2, <2>3, <2>4, StepsOfSetEnabled
  <1>3. ASSUME Activated PROVE Inv'
    BY <1>3, InvKept DEF Activated, Inv, TypeInv
  <1>4. ASSUME NEW c \in Channels, OtherInstalls(c) \/ OtherUninstalls(c) PROVE Inv'
    BY <1>4, InvOther
  <1>5. ASSUME UNCHANGED vars PROVE Inv'
    BY <1>5, InvKept DEF vars, callVars, Inv, TypeInv
  <1> QED
    BY <1>1, <1>2, <1>3, <1>4, <1>5 DEF Next

\* On every channel where handlers came and went in turn, an event reaches each reporter that
\* is installed and at last the default, whichever installations failed and were rolled back
\* (installExceptionHandler, installSignalHandler and what undoes them).
THEOREM AllReportersHear == Spec => []EveryoneHears
  <1>1. Inv => EveryoneHears
    <2> SUFFICES ASSUME Inv, NEW c \in Channels \ spoiled
                 PROVE  LET h1 == handler[c]  h2 == After(c, h1)  h3 == After(c, h2)
                        IN /\ h3 = "default"
                           /\ {h1, h2, h3} = {"default"}
                                \cup (IF Installed(c) THEN {"ours"} ELSE {})
                                \cup (IF other[c] # "none" THEN {"other"} ELSE {})
      BY DEF EveryoneHears
    <2>1. ChannelInv(c) /\ c \notin spoiled
      BY DEF Inv, ChannelsInv
    <2>2. /\ After(c, "default") = "default" /\ After(c, "ours") = previous[c]
          /\ After(c, "other") = other[c]
      BY DEF After
    <2> QED
      BY <2>1, <2>2 DEF ChannelInv
  <1> QED
    BY <1>1, InvInit, InvStep, PTL DEF Spec

\* The Mach exception threads that run are in the table of threads a report does not stop, as
\* long as every installation so far has found room in it (addReservedThread).
THEOREM MachThreadsReserved == Spec => []ExceptionThreadsReserved
  <1>1. Inv => ExceptionThreadsReserved
    BY DEF Inv
  <1> QED
    BY <1>1, InvInit, InvStep, PTL DEF Spec

-----------------------------------------------------------------------------
(* What the application sets, beside a report (CrashSettings).              *)

Names == Properties \cup {"user", "classes"}
FieldSteps == {"field", "store field", "free", "store"}

ReportShape ==
    /\ report = [kind |-> report.kind, next |-> report.next, held |-> report.held,
                 fault |-> report.fault, wrote |-> report.wrote, touched |-> report.touched]
    /\ report.wrote = [i \in Names |-> report.wrote[i]]
    /\ report.next \in Nat /\ report.fault \in BOOLEAN
    /\ report.held = [n \in DOMAIN report.held |-> <<report.held[n][1], report.held[n][2]>>]

SettingsShape ==
    /\ pointer = [i \in Settings!Pointers |-> pointer[i]]
    /\ last = [i \in Settings!Pointers \cup {Settings!Classes} |-> last[i]]
    /\ last[Settings!Classes] \in Seq(Values)
    /\ fields \in Seq(Properties) /\ IsInjective(fields)
    /\ setter = [item |-> setter.item, to |-> setter.to, at |-> setter.at]
    /\ ReportShape

\* The setter that runs, and the steps it takes.
SetterInv ==
    \/ setter = Settings!Idle
    \/ setter.item = Settings!User /\ setter.at \in {"free", "store"}
    \/ /\ setter.item = Settings!Classes /\ setter.at \in {"free", "store"}
       /\ setter.to \in Settings!Lists
    \/ /\ \E p \in Properties : setter.item \in {Settings!Key(p), Settings!Value(p)}
       /\ setter.at \in FieldSteps

\* A pointer leads to what was set last; a value set to nil is freed and kept.
Agrees(i) ==
    pointer[i] = last[i] \/ (i[1] = "value" /\ last[i] = "null" /\ pointer[i] = "freed")

PointersInv == \A i \in Settings!Pointers : setter.item # i \/ setter.at # "store" => Agrees(i)

ClassesInv ==
    IF setter.item = Settings!Classes /\ setter.at = "store" THEN classes = setter.to
    ELSE classes = last[Settings!Classes] /\ classCount = Len(classes)

\* The field of a property is in the list.
Listed(p) == \E k \in DOMAIN fields : fields[k] = p

FieldsInv ==
    /\ count = (IF setter.at = "store field" THEN Len(fields) + 1 ELSE Len(fields))
    /\ \A p \in Properties :
        /\ setter.item \in {Settings!Key(p), Settings!Value(p)} =>
            /\ setter.at = "store field" => ~Listed(p)
            /\ setter.at \in {"free", "store"} => Listed(p)
        /\ ~Listed(p) =>
            last[Settings!Key(p)] = "null" /\ last[Settings!Value(p)] = "null"

\* The field of a property is behind the report.
Passed(p) == \E k \in DOMAIN fields : k < report.next - 2 /\ fields[k] = p

\* The pointers that were read are those of the element that is next, as they are still.
HeldUser ==
    /\ report.next = 2 /\ report.held = <<<<Settings!User, report.held[1][2]>>>>
    /\ "user" \notin report.touched => report.held[1][2] = pointer[Settings!User]

HeldField ==
    /\ report.next - 2 \in DOMAIN fields
    /\ LET p == fields[report.next - 2]
       IN /\ report.held = <<<<Settings!Key(p), report.held[1][2]>>,
                             <<Settings!Value(p), report.held[2][2]>>>>
          /\ p \notin report.touched =>
                /\ report.held[1][2] = pointer[Settings!Key(p)]
                /\ report.held[2][2] = pointer[Settings!Value(p)]

WroteInv ==
    /\ "classes" \notin report.touched /\ report.next > 1 =>
            report.wrote["classes"] = Settings!Expected("classes")
    /\ "user" \notin report.touched /\ report.next > 2 =>
            report.wrote["user"] = Settings!Expected("user")
    /\ \A p \in Properties \ report.touched :
            IF Passed(p) THEN report.wrote[p] = Settings!Expected(p)
            ELSE report.wrote[p] = <<>>

ReportInv ==
    /\ report.next > 0
    /\ setter # Settings!Idle => setter.item[2] \in report.touched
    /\ report.held = <<>> \/ HeldUser \/ HeldField
    /\ report.fault => report.next > 2 /\ report.held = <<>>
                       /\ report.touched \cap Properties # {}
    /\ WroteInv

SettingsInv ==
    /\ SettingsShape /\ SetterInv /\ PointersInv /\ ClassesInv /\ FieldsInv
    /\ IF report.kind = "none" THEN report = Settings!NoReport ELSE ReportInv

-----------------------------------------------------------------------------
LEMMA Items ==
    /\ \A p, q : /\ Settings!Key(p) = Settings!Key(q) => p = q
                 /\ Settings!Value(p) = Settings!Value(q) => p = q
                 /\ Settings!Key(p) # Settings!Value(q)
    /\ \A p : /\ Settings!Key(p)[2] = p /\ Settings!Value(p)[2] = p
              /\ Settings!Key(p)[1] = "key" /\ Settings!Value(p)[1] = "value"
              /\ {Settings!Key(p), Settings!Value(p)} \cap
                    {Settings!User, Settings!Classes, Settings!Idle.item} = {}
    /\ Settings!User[1] = "user" /\ Settings!Classes[1] = "classes"
    /\ Settings!User[2] = "user" /\ Settings!Classes[2] = "classes"
    /\ Settings!User # Settings!Classes
    /\ Settings!Idle.item \notin {Settings!User, Settings!Classes}
BY DEF Settings!Key, Settings!Value, Settings!User, Settings!Classes, Settings!Idle

LEMMA PointersAre ==
    /\ Settings!User \in Settings!Pointers /\ Settings!Classes \notin Settings!Pointers
    /\ \A p \in Properties :
            Settings!Key(p) \in Settings!Pointers /\ Settings!Value(p) \in Settings!Pointers
    /\ \A i \in Settings!Pointers :
            i = Settings!User \/ \E p \in Properties : i \in {Settings!Key(p), Settings!Value(p)}
BY Items DEF Settings!Pointers

\* What an item is of.
LEMMA ItemNames ==
    ASSUME NEW i \in Settings!Pointers \cup {Settings!Classes}
    PROVE  /\ i[2] = "user" <=> i = Settings!User
           /\ i[2] = "classes" <=> i = Settings!Classes
           /\ \A p \in Properties : i[2] = p <=> i \in {Settings!Key(p), Settings!Value(p)}
<1>1. CASE i = Settings!User \/ i = Settings!Classes
  BY <1>1, Items, NamesAssumption
<1>2. ASSUME NEW q \in Properties, i \in {Settings!Key(q), Settings!Value(q)}
      PROVE  /\ i[2] = "user" <=> i = Settings!User
             /\ i[2] = "classes" <=> i = Settings!Classes
             /\ \A p \in Properties : i[2] = p <=> i \in {Settings!Key(p), Settings!Value(p)}
  BY <1>2, Items, NamesAssumption
<1> QED
  BY <1>1, <1>2, PointersAre

\* What a setter leaves of a report that is being written.
Beside(i) ==
    /\ report'.kind = report.kind /\ report'.next = report.next
    /\ report'.fault = report.fault /\ report'.wrote = report.wrote
    /\ report'.touched = (IF report.kind = "none" THEN {} ELSE report.touched \cup {i[2]})
    /\ report'.held = [n \in DOMAIN report.held |->
                          IF report.held[n][1] = i THEN <<i, report'.held[n][2]>>
                          ELSE report.held[n]]

\* What a setter does to what a report reads.
Disturbs(i) ==
    /\ Beside(i)
    /\ \A j \in Settings!Pointers \ {i} : pointer'[j] = pointer[j] /\ last'[j] = last[j]
    /\ i # Settings!Classes => last'[Settings!Classes] = last[Settings!Classes]
    /\ \/ fields' = fields
       \/ i[2] \in Properties /\ fields' = Append(fields, i[2])
    /\ setter' = Settings!Idle \/ setter'.item = i

\* What a report has copied, and has read, it keeps while a setter works on
\* something else.
LEMMA BesideReport ==
    ASSUME NEW i \in Settings!Pointers \cup {Settings!Classes},
           SettingsInv, SettingsShape', Disturbs(i), report.kind # "none"
    PROVE  ReportInv'
<1> DEFINE Off(x) == x \notin report'.touched
<1>0. /\ ReportInv /\ SettingsShape /\ report'.next = report.next
      /\ report'.fault = report.fault /\ report'.wrote = report.wrote
      /\ report'.touched = report.touched \cup {i[2]}
  BY DEF SettingsInv, Disturbs, Beside
<1>1. /\ Off("user") => i # Settings!User /\ "user" \notin report.touched
      /\ Off("classes") => i # Settings!Classes /\ "classes" \notin report.touched
      /\ \A p \in Properties : Off(p) =>
            i \notin {Settings!Key(p), Settings!Value(p)} /\ p \notin report.touched
  BY <1>0, ItemNames
<1>2. /\ \A j \in Settings!Pointers \ {i} : pointer'[j] = pointer[j] /\ last'[j] = last[j]
      /\ i # Settings!Classes => last'[Settings!Classes] = last[Settings!Classes]
      /\ \/ fields' = fields
         \/ i[2] \in Properties /\ fields' = Append(fields, i[2])
      /\ fields \in Seq(Properties)
  BY <1>0 DEF Disturbs, SettingsShape
<1>3. /\ DOMAIN fields \subseteq DOMAIN fields'
      /\ \A k \in DOMAIN fields : fields'[k] = fields[k]
      /\ \A k \in DOMAIN fields' \ DOMAIN fields : fields'[k] = i[2]
  BY <1>2
<1>4. /\ report'.held = [n \in DOMAIN report.held |->
                          IF report.held[n][1] = i THEN <<i, report'.held[n][2]>>
                          ELSE report.held[n]]
  BY DEF Disturbs, Beside
<1>5. report.held = <<>> => report'.held = <<>>
  BY <1>4
<1>6. report.held = <<>> \/ HeldUser \/ HeldField
  BY <1>0 DEF ReportInv
<1>7. ASSUME HeldUser
      PROVE  HeldUser'
  <2>1. report.next = 2 /\ DOMAIN report.held = {1} /\ report.held[1][1] = Settings!User
    BY <1>7 DEF HeldUser
  <2>2. report'.held[1][1] = Settings!User /\ DOMAIN report'.held = {1}
        /\ report'.held[1] = <<Settings!User, report'.held[1][2]>>
    BY <2>1, <1>4, <1>7 DEF HeldUser
  <2>3. report'.held = <<report'.held[1]>>
    BY <2>2, <1>4
  <2>4. report'.held = <<<<Settings!User, report'.held[1][2]>>>>
    BY <2>3, <2>2
  <2>5. Off("user") => report'.held[1][2] = pointer'[Settings!User]
    BY <2>1, <1>1, <1>2, <1>4, <1>7, PointersAre DEF HeldUser
  <2> QED
    BY <2>1, <2>4, <2>5, <1>0 DEF HeldUser
<1>8. ASSUME HeldField
      PROVE  HeldField'
  <2> DEFINE p == fields[report.next - 2]
  <2>1. /\ report.next - 2 \in DOMAIN fields /\ p \in Properties
        /\ report'.next - 2 \in DOMAIN fields' /\ fields'[report'.next - 2] = p
    BY <1>8, <1>0, <1>2, <1>3 DEF HeldField
  <2>2. report.held = <<<<Settings!Key(p), report.held[1][2]>>,
                        <<Settings!Value(p), report.held[2][2]>>>>
        /\ (p \notin report.touched =>
                /\ report.held[1][2] = pointer[Settings!Key(p)]
                /\ report.held[2][2] = pointer[Settings!Value(p)])
    BY <1>8 DEF HeldField
  <2> HIDE DEF p
  <2>3. DOMAIN report.held = {1, 2} /\ report.held[1][1] = Settings!Key(p)
        /\ report.held[2][1] = Settings!Value(p)
    BY <2>2
  <2>4. /\ DOMAIN report'.held = 1 .. 2
        /\ report'.held[1] = <<Settings!Key(p), report'.held[1][2]>>
        /\ report'.held[2] = <<Settings!Value(p), report'.held[2][2]>>
    BY <2>2, <2>3, <1>4
  <2>5. report'.held = <<report'.held[1], report'.held[2]>>
    BY <2>4, <1>4
  <2>6. report'.held = <<<<Settings!Key(p), report'.held[1][2]>>,
                        <<Settings!Value(p), report'.held[2][2]>>>>
    BY <2>5, <2>4
  <2>7. Off(p) => /\ report'.held[1][2] = pointer'[Settings!Key(p)]
                  /\ report'.held[2][2] = pointer'[Settings!Value(p)]
    <3>1. Off(p) => /\ report'.held[1] = report.held[1] /\ report'.held[2] = report.held[2]
      BY <2>1, <2>3, <1>1, <1>4
    <3> QED
      BY <3>1, <2>1, <2>2, <1>1, <1>2, PointersAre
  <2> QED
    BY <2>1, <2>6, <2>7 DEF HeldField
<1>9. WroteInv'
  <2>1. WroteInv
    BY <1>0 DEF ReportInv
  <2>2. Off("classes") => Settings!Expected("classes")' = Settings!Expected("classes")
    BY <1>1, <1>2 DEF Settings!Expected
  <2>3. Off("user") => Settings!Expected("user")' = Settings!Expected("user")
    BY <1>1, <1>2, PointersAre DEF Settings!Expected
  <2>4. ASSUME NEW p \in Properties, Off(p)
        PROVE  /\ Passed(p)' <=> Passed(p)
               /\ Settings!Expected(p)' = Settings!Expected(p)
    <3>1. i \notin {Settings!Key(p), Settings!Value(p)} /\ i[2] # p
      BY <1>1, <2>4, ItemNames
    <3>2. Passed(p)' <=> Passed(p)
      BY <3>1, <1>0, <1>3 DEF Passed
    <3>3. /\ last'[Settings!Key(p)] = last[Settings!Key(p)]
          /\ last'[Settings!Value(p)] = last[Settings!Value(p)]
          /\ pointer'[Settings!Value(p)] = pointer[Settings!Value(p)]
      BY <3>1, <1>2, PointersAre
    <3>4. Settings!Expected(p)' = Settings!Expected(p)
      BY <3>3, NamesAssumption DEF Settings!Expected, Settings!Dangles
    <3> QED
      BY <3>2, <3>4
  <2>5. /\ Off("classes") /\ report'.next > 1 =>
            report'.wrote["classes"] = Settings!Expected("classes")'
        /\ Off("user") /\ report'.next > 2 =>
            report'.wrote["user"] = Settings!Expected("user")'
    BY <2>1, <2>2, <2>3, <1>0, <1>1 DEF WroteInv
  <2>6. \A p \in Properties \ report'.touched :
            IF Passed(p)'
            THEN report'.wrote[p] = Settings!Expected(p)'
            ELSE report'.wrote[p] = <<>>
    BY <2>1, <2>4, <1>0, <1>1 DEF WroteInv
  <2> QED
    BY <2>5, <2>6 DEF WroteInv
<1>10. setter' # Settings!Idle => setter'.item[2] \in report'.touched
  BY <1>0 DEF Disturbs
<1>11. report'.fault => report'.next > 2 /\ report'.held = <<>>
                       /\ report'.touched \cap Properties # {}
  BY <1>0, <1>5 DEF ReportInv
<1> QED
  BY <1>0, <1>5, <1>6, <1>7, <1>8, <1>9, <1>10, <1>11 DEF ReportInv

LEMMA TouchBeside ==
    ASSUME NEW i, ReportShape, Settings!Touch(i)
    PROVE  Beside(i) /\ ReportShape'
<1>1. /\ report'.kind = report.kind /\ report'.next = report.next
      /\ report'.fault = report.fault /\ report'.wrote = report.wrote
      /\ report'.touched = (IF report.kind = "none" THEN {} ELSE report.touched \cup {i[2]})
      /\ report'.held = report.held
      /\ report' = [kind |-> report'.kind, next |-> report'.next, held |-> report'.held,
                 fault |-> report'.fault, wrote |-> report'.wrote, touched |-> report'.touched]
  BY DEF ReportShape, Settings!Touch
<1>2. report.held = [n \in DOMAIN report.held |->
                          IF report.held[n][1] = i THEN <<i, report.held[n][2]>>
                          ELSE report.held[n]]
  BY DEF ReportShape
<1> QED
  BY <1>1, <1>2 DEF Beside, ReportShape

LEMMA FreeBeside ==
    ASSUME NEW i, ReportShape, Settings!FreeBlock(i)
    PROVE  Beside(i) /\ ReportShape'
<1> DEFINE held == [n \in DOMAIN report.held |->
                IF report.held[n][1] = i /\ report.held[n][2] # "null"
                THEN <<i, "freed">> ELSE report.held[n]]
<1>1. /\ report'.kind = report.kind /\ report'.next = report.next
      /\ report'.fault = report.fault /\ report'.wrote = report.wrote
      /\ report'.touched = (IF report.kind = "none" THEN {} ELSE report.touched \cup {i[2]})
      /\ report'.held = held
      /\ report' = [kind |-> report'.kind, next |-> report'.next, held |-> report'.held,
                 fault |-> report'.fault, wrote |-> report'.wrote, touched |-> report'.touched]
  BY DEF ReportShape, Settings!FreeBlock
<1>2. held = [n \in DOMAIN report.held |->
                          IF report.held[n][1] = i THEN <<i, held[n][2]>>
                          ELSE report.held[n]]
  BY DEF ReportShape
<1>3. held = [n \in DOMAIN held |-> <<held[n][1], held[n][2]>>]
  BY DEF ReportShape
<1> QED
  BY <1>1, <1>2, <1>3 DEF Beside, ReportShape

\* A setter's step keeps the invariant when it keeps what is of the settings alone.
LEMMA SetterKeeps ==
    ASSUME NEW i \in Settings!Pointers \cup {Settings!Classes},
           SettingsInv, SettingsShape', Disturbs(i),
           SetterInv', PointersInv', ClassesInv', FieldsInv'
    PROVE  SettingsInv'
<1>1. CASE report.kind # "none"
  <2>1. ReportInv' /\ report'.kind # "none"
    BY <1>1, BesideReport DEF Disturbs, Beside
  <2> QED
    BY <2>1 DEF SettingsInv
<1>2. CASE report.kind = "none"
  <2>1. report = Settings!NoReport
    BY <1>2 DEF SettingsInv
  <2>2. /\ report'.kind = "none" /\ report'.next = 0 /\ report'.fault = FALSE
        /\ report'.wrote = Settings!NoReport.wrote /\ report'.touched = {}
        /\ report'.held = <<>>
    BY <1>2, <2>1 DEF Disturbs, Beside, Settings!NoReport
  <2>3. report' = Settings!NoReport
    BY <2>2 DEF SettingsShape, ReportShape, Settings!NoReport
  <2> QED
    BY <2>2, <2>3 DEF SettingsInv
<1> QED
  BY <1>1, <1>2

LEMMA CallKeeps ==
    ASSUME NEW i \in Settings!Pointers \cup {Settings!Classes}, NEW to,
           i = Settings!Classes => to \in Settings!Lists,
           SettingsInv, Settings!Call(i, to)
    PROVE  SettingsInv'
<1> DEFINE first == IF i[1] \in {"key", "value"} THEN "field" ELSE "free"
<1>1. /\ setter = Settings!Idle /\ setter' = [item |-> i, to |-> to, at |-> first]
      /\ Settings!Touch(i) /\ count' = count /\ fields' = fields /\ pointer' = pointer
      /\ classes' = classes /\ classCount' = classCount /\ last' = last
      /\ SettingsShape /\ SetterInv /\ PointersInv /\ ClassesInv /\ FieldsInv
  BY DEF Settings!Call, SettingsInv, Settings!fieldVars, Settings!ruleVars
<1>2. Beside(i) /\ ReportShape'
  BY <1>1, TouchBeside DEF SettingsShape
<1>3. /\ setter'.item = i /\ setter'.to = to /\ setter'.at = first
      /\ setter.at = "idle" /\ setter.item = Settings!Idle.item
      /\ \A j \in Settings!Pointers \cup {Settings!Classes} : setter.item # j
  BY <1>1, Items, PointersAre DEF Settings!Idle
<1>4. SettingsShape'
  BY <1>1, <1>2 DEF SettingsShape
<1>5. Disturbs(i)
  BY <1>1, <1>2, <1>3 DEF Disturbs
<1>6. SetterInv'
  <2>1. CASE i \in {Settings!User, Settings!Classes}
    BY <2>1, <1>3, Items DEF SetterInv
  <2>2. CASE \E p \in Properties : i \in {Settings!Key(p), Settings!Value(p)}
    BY <2>2, <1>3, Items DEF SetterInv, FieldSteps
  <2> QED
    BY <2>1, <2>2, PointersAre
<1>7. first # "store" /\ first # "store field"
      /\ \A p \in Properties : i \in {Settings!Key(p), Settings!Value(p)} => first = "field"
  BY Items
<1>8. PointersInv'
  BY <1>1, <1>3, <1>7 DEF PointersInv, Agrees
<1>9. ClassesInv'
  BY <1>1, <1>3, <1>7 DEF ClassesInv
<1>10. FieldsInv'
  BY <1>1, <1>3, <1>7 DEF FieldsInv, Listed
<1> QED
  BY <1>4, <1>5, <1>6, <1>8, <1>9, <1>10, SetterKeeps

\* reportFieldForProperty keeps the list of fields, and counts ahead of it.
LEMMA FieldKeeps ==
    ASSUME NEW p \in Properties, NEW i \in {Settings!Key(p), Settings!Value(p)},
           SettingsInv, Settings!ReportFieldForProperty(p, i), Settings!Touch(i),
           UNCHANGED <<pointer, classes, classCount>>
    PROVE  SettingsInv'
<1>0. /\ SettingsShape /\ SetterInv /\ PointersInv /\ ClassesInv /\ FieldsInv
      /\ fields \in Seq(Properties) /\ IsInjective(fields)
      /\ setter = [item |-> setter.item, to |-> setter.to, at |-> setter.at]
      /\ pointer' = pointer /\ classes' = classes /\ classCount' = classCount
  BY DEF SettingsInv, SettingsShape
<1>a. /\ i \in Settings!Pointers /\ i # Settings!Classes /\ i # Settings!User /\ i[2] = p
      /\ i # Settings!Idle.item
  BY Items, PointersAre
<1>b. p \in Settings!ToSet(fields) <=> Listed(p)
  BY <1>0 DEF Settings!ToSet, Listed
<1>c. \/ /\ setter.item = i /\ setter.at = "field" /\ ~Listed(p) /\ count' = Len(fields) + 1
         /\ fields' = fields /\ last' = last /\ setter' = [setter EXCEPT !.at = "store field"]
      \/ /\ setter.item = i /\ setter.at = "field" /\ Listed(p) /\ count' = count
         /\ fields' = fields /\ last' = last /\ setter' = [setter EXCEPT !.at = "free"]
      \/ /\ setter.item = i /\ setter.at = "store field" /\ count' = count
         /\ fields' = Append(fields, p) /\ last' = last /\ setter' = [setter EXCEPT !.at = "free"]
  BY <1>b DEF Settings!ReportFieldForProperty, Settings!Setting, Settings!Goto, Settings!fieldVars
<1>1. /\ setter.item = i /\ setter'.item = i
      /\ setter' = [item |-> setter'.item, to |-> setter'.to, at |-> setter'.at]
      /\ last' = last /\ setter' # Settings!Idle
  BY <1>0, <1>a, <1>c
<1>2. \/ /\ setter.at = "field" /\ ~Listed(p) /\ count' = Len(fields) + 1 /\ fields' = fields
         /\ setter'.at = "store field"
      \/ /\ setter.at = "field" /\ Listed(p) /\ count' = count /\ fields' = fields
         /\ setter'.at = "free"
      \/ /\ setter.at = "store field" /\ count' = count /\ fields' = Append(fields, p)
         /\ setter'.at = "free" /\ ~Listed(p)
  <2>1. setter.at = "store field" => ~Listed(p)
    BY <1>1 DEF FieldsInv, SettingsInv
  <2> QED
    BY <1>0, <1>c, <2>1
<1>d. ASSUME fields' = Append(fields, p)
      PROVE  /\ DOMAIN fields' = DOMAIN fields \cup {Len(fields) + 1}
             /\ Len(fields') = Len(fields) + 1 /\ fields' \in Seq(Properties)
             /\ \A k \in DOMAIN fields : fields'[k] = fields[k]
             /\ fields'[Len(fields) + 1] = p /\ Len(fields) + 1 \notin DOMAIN fields
  BY <1>0, <1>d
<1>3. Beside(i) /\ ReportShape'
  BY <1>0, TouchBeside DEF SettingsShape
<1>4. fields' \in Seq(Properties) /\ IsInjective(fields)'
  <2>1. CASE fields' = fields
    BY <1>0, <2>1
  <2>2. CASE fields' = Append(fields, p) /\ ~Listed(p)
    BY <1>0, <1>d, <2>2 DEF Listed, IsInjective
  <2> QED
    BY <1>2, <2>1, <2>2
<1>5. SettingsShape'
  BY <1>0, <1>1, <1>3, <1>4 DEF SettingsShape
<1>6. Disturbs(i)
  BY <1>0, <1>a, <1>1, <1>2, <1>3 DEF Disturbs
<1>7. SetterInv'
  BY <1>0, <1>1, <1>2 DEF SetterInv, FieldSteps
<1>8. PointersInv'
  BY <1>0, <1>1, <1>2 DEF PointersInv, Agrees
<1>9. ClassesInv'
  BY <1>0, <1>a, <1>1 DEF ClassesInv
<1>10. FieldsInv'
  <2>1. \A q \in Properties : /\ Listed(q) => Listed(q)'
                              /\ q # p /\ Listed(q)' => Listed(q)
    BY <1>2, <1>d DEF Listed
  <2>2. setter'.at = "free" => Listed(p)'
    BY <1>2, <1>d DEF Listed
  <2>3. \A q \in Properties : i \in {Settings!Key(q), Settings!Value(q)} => q = p
    BY Items
  <2>4. count' = IF setter'.at = "store field" THEN Len(fields') + 1 ELSE Len(fields')
    <3>1. count = IF setter.at = "store field" THEN Len(fields) + 1 ELSE Len(fields)
      BY <1>0 DEF FieldsInv
    <3> QED
      BY <3>1, <1>2, <1>d
  <2>5. setter'.at = "store field" => ~Listed(p)'
    BY <1>1, <1>2 DEF Listed
  <2> QED
    BY <2>1, <2>2, <2>3, <2>4, <2>5, <1>0, <1>1, <1>2 DEF FieldsInv
<1> QED
  BY <1>a, <1>5, <1>6, <1>7, <1>8, <1>9, <1>10, SetterKeeps

\* The setter of a pointer is past the list of fields when it frees and stores.
LEMMA FreeKeeps ==
    ASSUME NEW i \in Settings!Pointers, SettingsInv, Settings!FreeBlock(i),
           \/ Settings!Goto("store")
           \/ i[1] = "value" /\ setter.to = "null" /\ Settings!Return,
           UNCHANGED <<count, fields, classes, classCount>>
    PROVE  SettingsInv'
<1>1. /\ setter.item = i /\ setter.at = "free"
      /\ count' = count /\ fields' = fields /\ classes' = classes /\ classCount' = classCount
      /\ SettingsShape /\ SetterInv /\ PointersInv /\ ClassesInv /\ FieldsInv
      /\ pointer' = [pointer EXCEPT ![i] = IF @ = "null" THEN @ ELSE "freed"]
      /\ i # Settings!Classes /\ i # Settings!Idle.item
  BY Items, PointersAre DEF Settings!FreeBlock, SettingsInv, Settings!Setting
<1>2. \/ /\ setter' = [setter EXCEPT !.at = "store"] /\ last' = last
         /\ setter'.item = i /\ setter'.at = "store"
      \/ /\ i[1] = "value" /\ setter.to = "null" /\ setter' = Settings!Idle
         /\ last' = [last EXCEPT ![i] = "null"]
         /\ setter'.item = Settings!Idle.item /\ setter'.at = "idle"
  <2>1. setter = [item |-> setter.item, to |-> setter.to, at |-> setter.at]
    BY <1>1 DEF SettingsShape
  <2>2. CASE Settings!Goto("store")
    BY <1>1, <2>1, <2>2 DEF Settings!Goto
  <2>3. CASE i[1] = "value" /\ setter.to = "null" /\ Settings!Return
    BY <1>1, <2>3 DEF Settings!Return, Settings!Idle
  <2> QED
    BY <2>2, <2>3
<1>3. Beside(i) /\ ReportShape'
  BY <1>1, FreeBeside DEF SettingsShape
<1>4. SettingsShape'
  BY <1>1, <1>2, <1>3 DEF SettingsShape, Settings!Idle
<1>5. Disturbs(i)
  BY <1>1, <1>2, <1>3 DEF Disturbs, SettingsShape
<1>6. SetterInv'
  BY <1>1, <1>2 DEF SetterInv, FieldSteps
<1>7. PointersInv'
  <2>1. ASSUME NEW j \in Settings!Pointers, setter'.item # j \/ setter'.at # "store"
        PROVE  Agrees(j)'
    <3>1. CASE j = i
      BY <1>1, <1>2, <2>1, <3>1 DEF Agrees, SettingsShape
    <3>2. CASE j # i
      <4>1. Agrees(j)
        BY <1>1, <3>2 DEF PointersInv
      <4> QED
        BY <1>1, <1>2, <3>2, <4>1 DEF Agrees, SettingsShape
    <3> QED
      BY <3>1, <3>2
  <2> QED
    BY <2>1 DEF PointersInv
<1>8. ClassesInv'
  BY <1>1, <1>2, Items DEF ClassesInv, SettingsShape
<1>9. FieldsInv'
  <2>1. \A p \in Properties :
           ~Listed(p) => last'[Settings!Key(p)] = "null" /\ last'[Settings!Value(p)] = "null"
    BY <1>1, <1>2, PointersAre DEF FieldsInv, SettingsShape
  <2>2. \A p \in Properties :
           setter'.item \in {Settings!Key(p), Settings!Value(p)} =>
              setter'.at = "store" /\ Listed(p)
    BY <1>1, <1>2, Items DEF FieldsInv
  <2>3. \A p \in Properties : Listed(p)' <=> Listed(p)
    BY <1>1 DEF Listed
  <2>4. count' = Len(fields') /\ setter'.at # "store field"
    BY <1>1, <1>2 DEF FieldsInv
  <2> QED
    BY <2>1, <2>2, <2>3, <2>4 DEF FieldsInv
<1> QED
  BY <1>4, <1>5, <1>6, <1>7, <1>8, <1>9, SetterKeeps

LEMMA PutKeeps ==
    ASSUME NEW i \in Settings!Pointers, SettingsInv, Settings!PutBlock(i),
           UNCHANGED <<count, fields, classes, classCount>>
    PROVE  SettingsInv'
<1>1. /\ setter.item = i /\ setter.at = "store" /\ Settings!Touch(i)
      /\ count' = count /\ fields' = fields /\ classes' = classes /\ classCount' = classCount
      /\ SettingsShape /\ SetterInv /\ PointersInv /\ ClassesInv /\ FieldsInv
      /\ pointer' = [pointer EXCEPT ![i] = setter.to]
      /\ last' = [last EXCEPT ![i] = setter.to]
      /\ setter' = Settings!Idle /\ setter'.item = Settings!Idle.item /\ setter'.at = "idle"
      /\ i # Settings!Classes /\ i # Settings!Idle.item
  BY Items, PointersAre DEF Settings!PutBlock, SettingsInv, Settings!Setting, Settings!Return,
     Settings!Idle
<1>3. Beside(i) /\ ReportShape'
  BY <1>1, TouchBeside DEF SettingsShape
<1>4. SettingsShape'
  BY <1>1, <1>3 DEF SettingsShape, Settings!Idle
<1>5. Disturbs(i)
  BY <1>1, <1>3 DEF Disturbs, SettingsShape
<1>6. SetterInv'
  BY <1>1 DEF SetterInv
<1>7. PointersInv'
  BY <1>1 DEF PointersInv, Agrees, SettingsShape
<1>8. ClassesInv'
  BY <1>1, Items DEF ClassesInv, SettingsShape
<1>9. FieldsInv'
  <2>1. ASSUME NEW p \in Properties, ~Listed(p)
        PROVE  last'[Settings!Key(p)] = "null" /\ last'[Settings!Value(p)] = "null"
    <3>1. i \notin {Settings!Key(p), Settings!Value(p)}
      BY <1>1, <2>1 DEF FieldsInv
    <3> QED
      BY <1>1, <2>1, <3>1, PointersAre DEF FieldsInv, SettingsShape
  <2>2. \A p \in Properties : setter'.item \notin {Settings!Key(p), Settings!Value(p)}
    BY <1>1, Items
  <2>3. \A p \in Properties : Listed(p)' <=> Listed(p)
    BY <1>1 DEF Listed
  <2>4. count' = Len(fields') /\ setter'.at # "store field"
    BY <1>1 DEF FieldsInv
  <2> QED
    BY <2>1, <2>2, <2>3, <2>4 DEF FieldsInv
<1> QED
  BY <1>4, <1>5, <1>6, <1>7, <1>8, <1>9, SetterKeeps

LEMMA GiveKeeps ==
    ASSUME NEW i \in Settings!Pointers, SettingsInv, Settings!Setting(i, "free"),
           Settings!Give, Settings!Touch(i),
           UNCHANGED <<pointer, count, fields, classes, classCount>>
    PROVE  SettingsInv'
<1>1. /\ setter.item = i /\ setter.at = "free"
      /\ count' = count /\ fields' = fields /\ classes' = classes /\ classCount' = classCount
      /\ pointer' = pointer /\ last' = last
      /\ SettingsShape /\ SetterInv /\ PointersInv /\ ClassesInv /\ FieldsInv
      /\ setter' = Settings!Idle /\ setter'.item = Settings!Idle.item /\ setter'.at = "idle"
      /\ i # Settings!Classes
  BY Items, PointersAre DEF SettingsInv, Settings!Setting, Settings!Give, Settings!Idle
<1>2. Beside(i) /\ ReportShape'
  BY <1>1, TouchBeside DEF SettingsShape
<1>3. SettingsShape'
  BY <1>1, <1>2 DEF SettingsShape, Settings!Idle
<1>4. Disturbs(i)
  BY <1>1, <1>2 DEF Disturbs
<1>5. SetterInv'
  BY <1>1 DEF SetterInv
<1>6. PointersInv'
  BY <1>1 DEF PointersInv, Agrees
<1>7. ClassesInv'
  BY <1>1, Items DEF ClassesInv
<1>8. FieldsInv'
  <2>1. \A p \in Properties : setter'.item \notin {Settings!Key(p), Settings!Value(p)}
    BY <1>1, Items
  <2> QED
    BY <2>1, <1>1 DEF FieldsInv, Listed
<1> QED
  BY <1>3, <1>4, <1>5, <1>6, <1>7, <1>8, SetterKeeps

LEMMA ClassesKeep ==
    ASSUME SettingsInv, Settings!SetDoNotIntrospectClasses
    PROVE  SettingsInv'
<1> DEFINE i == Settings!Classes
<1>1. /\ Settings!Touch(i) /\ count' = count /\ fields' = fields /\ pointer' = pointer
      /\ SettingsShape /\ SetterInv /\ PointersInv /\ ClassesInv /\ FieldsInv
      /\ setter.item = i /\ i # Settings!Idle.item /\ i \notin Settings!Pointers
  BY Items, PointersAre DEF Settings!SetDoNotIntrospectClasses, SettingsInv, Settings!Setting,
     Settings!fieldVars
<1>2. \/ /\ setter.at = "free" /\ setter' = [setter EXCEPT !.at = "store"] /\ last' = last
         /\ classes' = setter.to /\ classCount' = classCount
      \/ /\ setter.at = "store" /\ setter' = Settings!Idle
         /\ last' = [last EXCEPT ![i] = setter.to]
         /\ classCount' = Len(setter.to) /\ classes' = classes
  BY <1>1 DEF Settings!SetDoNotIntrospectClasses, Settings!Setting, Settings!Goto,
     Settings!Return
<1>3. Beside(i) /\ ReportShape'
  BY <1>1, TouchBeside DEF SettingsShape
<1>4. setter.to \in Settings!Lists /\ setter.to \in Seq(Values)
  <2>1. setter # Settings!Idle
    BY <1>1
  <2>2. setter.to \in Settings!Lists
    BY <2>1, <1>1, Items DEF SetterInv
  <2>3. ASSUME NEW l \in Settings!Lists
        PROVE  l \in Seq(Values)
    <3>1. CASE l = <<>>
      BY <3>1
    <3>2. ASSUME NEW v \in Values
          PROVE  <<v>> \in Seq(Values) /\ <<v, v>> \in Seq(Values)
      OBVIOUS
    <3> QED
      BY <3>1, <3>2 DEF Settings!Lists
  <2> QED
    BY <2>2, <2>3
<1>5. \/ /\ setter' = [item |-> i, to |-> setter.to, at |-> "store"] /\ last' = last
         /\ setter'.item = i /\ setter'.at = "store" /\ setter'.to = setter.to
      \/ /\ setter' = Settings!Idle /\ setter'.item = Settings!Idle.item /\ setter'.at = "idle"
         /\ last' = [last EXCEPT ![i] = setter.to]
  <2>1. setter = [item |-> setter.item, to |-> setter.to, at |-> setter.at]
    BY <1>1 DEF SettingsShape
  <2> QED
    BY <2>1, <1>1, <1>2 DEF Settings!Idle
<1>6. /\ last' = [j \in Settings!Pointers \cup {i} |-> last'[j]] /\ last'[i] \in Seq(Values)
      /\ \A j \in Settings!Pointers : last'[j] = last[j]
  BY <1>1, <1>4, <1>5 DEF SettingsShape
<1>7. SettingsShape'
  BY <1>1, <1>3, <1>5, <1>6 DEF SettingsShape, Settings!Idle
<1>8. Disturbs(i)
  BY <1>1, <1>3, <1>5, <1>6 DEF Disturbs
<1>9. SetterInv'
  BY <1>4, <1>5 DEF SetterInv
<1>10. PointersInv'
  BY <1>1, <1>5, <1>6 DEF PointersInv, Agrees
<1>11. ClassesInv'
  BY <1>1, <1>2, <1>4, <1>5 DEF ClassesInv, SettingsShape
<1>12. FieldsInv'
  <2>1. \A p \in Properties : setter'.item \notin {Settings!Key(p), Settings!Value(p)}
    BY <1>5, Items
  <2>2. setter.at # "store field" /\ setter'.at # "store field"
    BY <1>2, <1>5
  <2> QED
    BY <2>1, <2>2, <1>1, <1>6, PointersAre DEF FieldsInv, Listed
<1> QED
  BY <1>7, <1>8, <1>9, <1>10, <1>11, <1>12, SetterKeeps

\* Every step of a setter.
LEMMA SetterStep ==
    ASSUME SettingsInv,
           \/ \E p \in Properties :
                 \/ Settings!SetKey(p) \/ Settings!SetValue(p)
                 \/ \E v \in Values \cup {"null"} : Settings!Call(Settings!Key(p), v)
                 \/ \E v \in Values \cup {"null", "bad"} : Settings!Call(Settings!Value(p), v)
           \/ Settings!SetUserInfoJSON \/ Settings!SetDoNotIntrospectClasses
           \/ \E v \in Values \cup {"null"} : Settings!Call(Settings!User, v)
           \/ \E l \in Settings!Lists : Settings!Call(Settings!Classes, l)
    PROVE  SettingsInv'
<1>1. ASSUME NEW p \in Properties, Settings!SetKey(p)
      PROVE  SettingsInv'
  <2> DEFINE i == Settings!Key(p)
  <2>0. i \in Settings!Pointers /\ i \in {Settings!Key(p), Settings!Value(p)}
        /\ UNCHANGED <<classes, classCount>>
    BY <1>1, PointersAre DEF Settings!SetKey, Settings!ruleVars
  <2>1. CASE Settings!ReportFieldForProperty(p, i) /\ Settings!Touch(i) /\ UNCHANGED pointer
    BY <2>0, <2>1, FieldKeeps
  <2>2. CASE Settings!FreeBlock(i) /\ Settings!Goto("store") /\ UNCHANGED Settings!fieldVars
    BY <2>0, <2>2, FreeKeeps DEF Settings!fieldVars
  <2>3. CASE Settings!PutBlock(i) /\ UNCHANGED Settings!fieldVars
    BY <2>0, <2>3, PutKeeps DEF Settings!fieldVars
  <2> QED
    BY <1>1, <2>1, <2>2, <2>3 DEF Settings!SetKey
<1>2. ASSUME NEW p \in Properties, Settings!SetValue(p)
      PROVE  SettingsInv'
  <2> DEFINE i == Settings!Value(p)
  <2>0. i \in Settings!Pointers /\ i \in {Settings!Key(p), Settings!Value(p)}
        /\ UNCHANGED <<classes, classCount>> /\ i[1] = "value"
    BY <1>2, PointersAre, Items DEF Settings!SetValue, Settings!ruleVars
  <2>1. CASE Settings!ReportFieldForProperty(p, i) /\ Settings!Touch(i) /\ UNCHANGED pointer
    BY <2>0, <2>1, FieldKeeps
  <2>2. CASE Settings!Encode(p) /\ UNCHANGED Settings!fieldVars
    <3>1. CASE Settings!Setting(i, "free") /\ Settings!Give /\ Settings!Touch(i) /\ UNCHANGED pointer
      BY <2>0, <2>2, <3>1, GiveKeeps DEF Settings!fieldVars
    <3>2. CASE Settings!FreeBlock(i) /\ setter.to = "null" /\ Settings!Return
      BY <2>0, <2>2, <3>2, FreeKeeps DEF Settings!fieldVars
    <3>3. CASE Settings!FreeBlock(i) /\ Settings!Goto("store")
      BY <2>0, <2>2, <3>3, FreeKeeps DEF Settings!fieldVars
    <3> QED
      BY <2>2, <3>1, <3>2, <3>3 DEF Settings!Encode
  <2>3. CASE Settings!PutBlock(i) /\ UNCHANGED Settings!fieldVars
    BY <2>0, <2>3, PutKeeps DEF Settings!fieldVars
  <2> QED
    BY <1>2, <2>1, <2>2, <2>3 DEF Settings!SetValue
<1>3. CASE Settings!SetUserInfoJSON
  <2>0. UNCHANGED <<count, fields, classes, classCount>>
    BY <1>3 DEF Settings!SetUserInfoJSON, Settings!fieldVars, Settings!ruleVars
  <2>1. CASE Settings!FreeBlock(Settings!User) /\ Settings!Goto("store")
    BY <2>0, <2>1, PointersAre, FreeKeeps
  <2>2. CASE Settings!PutBlock(Settings!User)
    BY <2>0, <2>2, PointersAre, PutKeeps
  <2> QED
    BY <1>3, <2>1, <2>2 DEF Settings!SetUserInfoJSON
<1>4. ASSUME NEW p \in Properties, NEW v,
             Settings!Call(Settings!Key(p), v) \/ Settings!Call(Settings!Value(p), v)
      PROVE  SettingsInv'
  <2>1. CASE Settings!Call(Settings!Key(p), v)
    BY <2>1, Items, PointersAre, CallKeeps
  <2>2. CASE Settings!Call(Settings!Value(p), v)
    BY <2>2, Items, PointersAre, CallKeeps
  <2> QED
    BY <1>4, <2>1, <2>2
<1>5. ASSUME NEW v, Settings!Call(Settings!User, v)
      PROVE  SettingsInv'
  BY <1>5, Items, PointersAre, CallKeeps
<1>6. ASSUME NEW l \in Settings!Lists, Settings!Call(Settings!Classes, l)
      PROVE  SettingsInv'
  BY <1>6, CallKeeps
<1> QED
  BY <1>1, <1>2, <1>3, <1>4, <1>5, <1>6, ClassesKeep

-----------------------------------------------------------------------------
(* A report beside settings that rest.                                       *)

LEMMA ReportKeeps ==
    ASSUME SettingsInv, Settings!Still, ReportShape', ReportInv', report'.kind # "none"
    PROVE  SettingsInv'
<1>1. /\ SettingsShape /\ SetterInv /\ PointersInv /\ ClassesInv /\ FieldsInv
      /\ count' = count /\ fields' = fields /\ pointer' = pointer /\ classes' = classes
      /\ classCount' = classCount /\ setter' = setter /\ last' = last
  BY DEF SettingsInv, Settings!Still, Settings!fieldVars, Settings!ruleVars
<1>2. SettingsShape'
  BY <1>1 DEF SettingsShape
<1>3. SetterInv' /\ PointersInv' /\ ClassesInv' /\ FieldsInv'
  BY <1>1 DEF SetterInv, PointersInv, Agrees, ClassesInv, FieldsInv, Listed
<1> QED
  BY <1>2, <1>3 DEF SettingsInv

LEMMA StartKeeps ==
    ASSUME NEW kind \in {"crash", "snapshot", "user"}, SettingsInv, Settings!StartReport(kind)
    PROVE  SettingsInv'
<1>1. /\ report = Settings!NoReport /\ Settings!Still /\ kind # "none"
      /\ setter' = setter /\ fields' = fields /\ last' = last /\ pointer' = pointer
  BY DEF SettingsInv, Settings!StartReport, Settings!Still, Settings!fieldVars, Settings!NoReport
<1>2. report' = [kind |-> kind, next |-> 1, held |-> <<>>, fault |-> FALSE,
                 wrote |-> [i \in Names |-> <<>>],
                 touched |-> IF setter = Settings!Idle THEN {} ELSE {setter.item[2]}]
  BY DEF Settings!StartReport, Settings!NoReport, Names
<1>3. report'.kind = kind /\ report'.next = 1 /\ report'.held = <<>> /\ report'.fault = FALSE
      /\ report'.wrote = [i \in Names |-> <<>>]
      /\ report'.touched = (IF setter = Settings!Idle THEN {} ELSE {setter.item[2]})
  BY <1>2
<1>4. ReportShape'
  BY <1>2, <1>3 DEF ReportShape
<1>5. \A p \in Properties : ~Passed(p)' /\ report'.wrote[p] = <<>>
  BY <1>1, <1>3 DEF Passed, SettingsInv, SettingsShape, Names
<1>6. WroteInv'
  BY <1>3, <1>5 DEF WroteInv
<1>7. ReportInv'
  BY <1>1, <1>3, <1>6 DEF ReportInv
<1> QED
  BY <1>1, <1>3, <1>4, <1>7, ReportKeeps

\* What holds of a report that goes on.
LEMMA Going ==
    ASSUME SettingsInv, report.next # 0, Settings!Still
    PROVE  /\ report.kind # "none" /\ ReportInv /\ SettingsShape /\ WroteInv
           /\ PointersInv /\ ClassesInv /\ FieldsInv /\ SetterInv
           /\ count' = count /\ fields' = fields /\ pointer' = pointer /\ classes' = classes
           /\ classCount' = classCount /\ setter' = setter /\ last' = last
<1>1. report # Settings!NoReport
  BY DEF Settings!NoReport
<1> QED
  BY <1>1 DEF SettingsInv, Settings!Still, Settings!fieldVars, Settings!ruleVars, ReportInv

LEMMA RestrictedKeeps ==
    ASSUME SettingsInv, Settings!IsRestrictedClass
    PROVE  SettingsInv'
<1> DEFINE names == IF classes = <<>> THEN <<>>
                    ELSE [n \in 1 .. classCount |->
                            IF n <= Len(classes) THEN classes[n] ELSE "freed"]
<1>1. /\ report.next = 1 /\ Settings!Still
      /\ report' = [report EXCEPT !.next = 2, !.wrote["classes"] = names]
  BY DEF Settings!IsRestrictedClass
<1>2. /\ report.kind # "none" /\ ReportInv /\ SettingsShape /\ WroteInv /\ ClassesInv
      /\ SetterInv
      /\ fields' = fields /\ pointer' = pointer /\ setter' = setter /\ last' = last
  BY <1>1, Going
<1> HIDE DEF names
<1>3. /\ report'.kind = report.kind /\ report'.next = 2 /\ report'.held = report.held
      /\ report'.fault = report.fault /\ report'.touched = report.touched
      /\ report'.wrote = [report.wrote EXCEPT !["classes"] = names]
      /\ report' = [kind |-> report'.kind, next |-> report'.next, held |-> report'.held,
                 fault |-> report'.fault, wrote |-> report'.wrote, touched |-> report'.touched]
  BY <1>1, <1>2 DEF SettingsShape, ReportShape
<1>4. report'.wrote = [i \in Names |-> report'.wrote[i]] /\ report'.wrote["classes"] = names
      /\ \A i \in Names \ {"classes"} : report'.wrote[i] = report.wrote[i]
  BY <1>2, <1>3 DEF SettingsShape, ReportShape, Names
<1>5. ReportShape'
  BY <1>2, <1>3, <1>4 DEF SettingsShape, ReportShape
<1>6. report.held = <<>> /\ ~report.fault
  BY <1>1, <1>2 DEF ReportInv, HeldUser, HeldField, SettingsShape
<1>7. "classes" \notin report.touched => names = Settings!Expected("classes")
  <2>1. ASSUME "classes" \notin report.touched
        PROVE  setter.item # Settings!Classes
    <3>1. setter # Settings!Idle => setter.item[2] # "classes"
      BY <1>2, <2>1 DEF ReportInv
    <3> QED
      BY <3>1, Items
  <2>2. ASSUME "classes" \notin report.touched
        PROVE  names = classes
    <3>1. classCount = Len(classes) /\ classes \in Seq(Values)
      BY <2>1, <2>2, <1>2 DEF ClassesInv, SettingsShape
    <3> QED
      BY <3>1 DEF names
  <2>3. "classes" \notin report.touched => classes = last[Settings!Classes]
    BY <2>1, <1>2 DEF ClassesInv
  <2> QED
    BY <2>2, <2>3 DEF Settings!Expected
<1>8. \A p \in Properties : ~Passed(p) /\ ~Passed(p)'
  BY <1>1, <1>2, <1>3 DEF Passed, SettingsShape
<1>9. WroteInv'
  BY <1>1, <1>2, <1>3, <1>4, <1>7, <1>8, NamesAssumption
  DEF WroteInv, Settings!Expected, Settings!Dangles, Names
<1>10. ReportInv'
  BY <1>2, <1>3, <1>6, <1>9 DEF ReportInv
<1> QED
  BY <1>1, <1>2, <1>3, <1>5, <1>10, ReportKeeps

\* The pointers of the next element are read.
LEMMA HoldKeeps ==
    ASSUME NEW pointers, SettingsInv, report.next > 1, ~report.fault,
           Settings!Hold(pointers), Settings!Still,
           \/ DOMAIN pointers = 1 .. 1 /\ report.next = 2 /\ pointers[1] = Settings!User
           \/ /\ DOMAIN pointers = 1 .. 2 /\ report.next - 2 \in DOMAIN fields
              /\ pointers[1] = Settings!Key(fields[report.next - 2])
              /\ pointers[2] = Settings!Value(fields[report.next - 2])
    PROVE  SettingsInv'
<1>1. /\ report.kind # "none" /\ ReportInv /\ SettingsShape /\ WroteInv
      /\ fields' = fields /\ pointer' = pointer /\ setter' = setter /\ last' = last
  BY Going
<1>2. report' = [report EXCEPT
          !.held = [k \in DOMAIN pointers |-> <<pointers[k], pointer[pointers[k]]>>]]
  BY DEF Settings!Hold
<1>3. /\ report'.kind = report.kind /\ report'.next = report.next /\ report'.fault = report.fault
      /\ report'.touched = report.touched /\ report'.wrote = report.wrote
      /\ report'.held = [k \in DOMAIN pointers |-> <<pointers[k], pointer[pointers[k]]>>]
      /\ report' = [kind |-> report'.kind, next |-> report'.next, held |-> report'.held,
                 fault |-> report'.fault, wrote |-> report'.wrote, touched |-> report'.touched]
  BY <1>1, <1>2 DEF SettingsShape, ReportShape
<1>4. report'.held = [k \in DOMAIN report'.held |-> <<report'.held[k][1], report'.held[k][2]>>]
  BY <1>3
<1>5. ReportShape'
  BY <1>1, <1>3, <1>4 DEF SettingsShape, ReportShape
<1>6. HeldUser' \/ HeldField'
  <2>1. CASE DOMAIN pointers = 1 .. 1 /\ report.next = 2 /\ pointers[1] = Settings!User
    <3>1. report'.held = <<<<Settings!User, pointer[Settings!User]>>>>
      BY <1>3, <2>1
    <3> QED
      BY <3>1, <1>1, <1>3, <2>1 DEF HeldUser
  <2>2. CASE /\ DOMAIN pointers = 1 .. 2 /\ report.next - 2 \in DOMAIN fields
             /\ pointers[1] = Settings!Key(fields[report.next - 2])
             /\ pointers[2] = Settings!Value(fields[report.next - 2])
    <3> DEFINE p == fields[report.next - 2]
    <3>1. report'.held = <<<<Settings!Key(p), pointer[Settings!Key(p)]>>,
                           <<Settings!Value(p), pointer[Settings!Value(p)]>>>>
      BY <1>3, <2>2
    <3> QED
      BY <3>1, <1>1, <1>3, <2>2 DEF HeldField
  <2> QED
    BY <2>1, <2>2
<1>7. WroteInv'
  BY <1>1, <1>3 DEF WroteInv, Settings!Expected, Settings!Dangles, Passed
<1>8. ReportInv'
  BY <1>1, <1>3, <1>6, <1>7 DEF ReportInv
<1> QED
  BY <1>1, <1>3, <1>5, <1>8, ReportKeeps

LEMMA UserInfoKeeps ==
    ASSUME SettingsInv, Settings!WriteUserInfo
    PROVE  SettingsInv'
<1>1. report.next = 2 /\ Settings!Still /\ Settings!Hold(<<Settings!User>>)
  BY DEF Settings!WriteUserInfo
<1>2. ReportInv
  BY <1>1, Going
<1>3. ~report.fault
  BY <1>1, <1>2 DEF ReportInv
<1> DEFINE one == <<Settings!User>>
<1>4. Settings!Hold(one) /\ DOMAIN one = 1 .. 1 /\ one[1] = Settings!User
  BY <1>1
<1> HIDE DEF one
<1> QED
  BY <1>1, <1>3, <1>4, HoldKeeps

\* The one field that is counted and not there is being added.
LEMMA CallbackKeeps ==
    ASSUME SettingsInv, Settings!CrashCallback
    PROVE  SettingsInv'
<1>1. /\ report.next \in Nat /\ report.next > 2 /\ report.next - 2 <= Settings!Fields
      /\ report.held = <<>> /\ ~report.fault /\ Settings!Still
  <2>1. report.next \in 3 .. Settings!Fields + 2 /\ report.held = <<>> /\ ~report.fault
        /\ Settings!Still
    BY DEF Settings!CrashCallback
  <2>2. report.next \in Nat /\ Len(fields) \in Nat
    BY DEF SettingsInv, SettingsShape, ReportShape
  <2>3. count \in Nat
    <3>1. count = Len(fields) + 1 \/ count = Len(fields)
      BY DEF SettingsInv, FieldsInv
    <3> QED
      BY <2>2, <3>1
  <2>4. Settings!Fields \in Nat
    BY <2>3 DEF Settings!Fields
  <2> QED
    BY <2>1, <2>2, <2>4
<1>2. /\ report.kind # "none" /\ ReportInv /\ SettingsShape /\ WroteInv /\ FieldsInv /\ SetterInv
      /\ fields' = fields /\ pointer' = pointer /\ setter' = setter /\ last' = last
  BY <1>1, Going
<1>3. CASE report.next - 2 \in DOMAIN fields
  <2> DEFINE p == fields[report.next - 2]
             both == <<Settings!Key(p), Settings!Value(p)>>
  <2>1. Settings!Hold(both)
    BY <1>3 DEF Settings!CrashCallback
  <2>2. DOMAIN both = 1 .. 2 /\ both[1] = Settings!Key(p) /\ both[2] = Settings!Value(p)
    OBVIOUS
  <2> HIDE DEF both
  <2> QED
    BY <1>1, <1>3, <2>1, <2>2, HoldKeeps
<1>4. CASE report.next - 2 \notin DOMAIN fields
  <2>1. report' = [report EXCEPT !.fault = TRUE]
    BY <1>4 DEF Settings!CrashCallback
  <2>2. /\ report'.kind = report.kind /\ report'.next = report.next /\ report'.fault = TRUE
        /\ report'.touched = report.touched /\ report'.wrote = report.wrote
        /\ report'.held = report.held
        /\ report' = [kind |-> report'.kind, next |-> report'.next, held |-> report'.held,
                 fault |-> report'.fault, wrote |-> report'.wrote, touched |-> report'.touched]
    BY <1>2, <2>1 DEF SettingsShape, ReportShape
  <2>3. ReportShape'
    BY <1>2, <2>2 DEF SettingsShape, ReportShape
  <2>4. setter.at = "store field"
    <3>1. DOMAIN fields = 1 .. Len(fields) /\ Len(fields) \in Nat
      BY <1>2 DEF SettingsShape
    <3>2. report.next - 2 <= count
      BY <1>1 DEF Settings!Fields
    <3>3. report.next - 2 > Len(fields)
      BY <3>1, <1>1, <1>4
    <3>4. setter.at # "store field" => count = Len(fields)
      BY <1>2 DEF FieldsInv
    <3>5. count # Len(fields)
      BY <3>1, <3>2, <3>3, <1>1
    <3> QED
      BY <3>4, <3>5
  <2>5. PICK p \in Properties : setter.item \in {Settings!Key(p), Settings!Value(p)}
    <3>1. setter.at \notin {"idle", "free", "store"}
      BY <2>4
    <3>2. setter # Settings!Idle
      BY <3>1 DEF Settings!Idle
    <3> QED
      BY <3>1, <3>2, <1>2 DEF SetterInv
  <2>6. p \in report.touched
    <3>1. setter # Settings!Idle /\ setter.item[2] = p
      BY <2>5, Items
    <3> QED
      BY <3>1, <1>2 DEF ReportInv
  <2>7. WroteInv'
    BY <1>2, <2>2 DEF WroteInv, Settings!Expected, Settings!Dangles, Passed
  <2>8. ReportInv'
    BY <1>1, <1>2, <2>2, <2>6, <2>7 DEF ReportInv
  <2> QED
    BY <1>1, <1>2, <2>2, <2>3, <2>8, ReportKeeps
<1> QED
  BY <1>3, <1>4

\* What was read is copied: it is what was set, unless a setter was at work on it.
LEMMA ElementKeeps ==
    ASSUME SettingsInv, Settings!AddJSONElement
    PROVE  SettingsInv'
<1> DEFINE held == report.held
           texts == [n \in DOMAIN held |-> held[n][2]]
           x == held[1][1][2]
           text == IF "null" \in Settings!ToSet(texts) THEN <<>> ELSE texts
<1>1. /\ held # <<>> /\ Settings!Still
      /\ report' = [report EXCEPT !.held = <<>>, !.next = @ + 1, !.wrote[x] = text]
  BY DEF Settings!AddJSONElement
<1>2. HeldUser \/ HeldField
  <2>1. ReportInv
    BY <1>1 DEF SettingsInv, Settings!NoReport
  <2> QED
    BY <2>1, <1>1 DEF ReportInv
<1>3. report.next # 0
  <2>1. ReportInv
    BY <1>1 DEF SettingsInv, Settings!NoReport
  <2> QED
    BY <2>1 DEF ReportInv
<1>4. /\ report.kind # "none" /\ ReportInv /\ SettingsShape /\ WroteInv /\ PointersInv /\ SetterInv
      /\ fields' = fields /\ pointer' = pointer /\ setter' = setter /\ last' = last
      /\ report.next \in Nat /\ ~report.fault
  BY <1>1, <1>3, Going DEF SettingsShape, ReportShape, ReportInv
<1> HIDE DEF x, text
<1>5. /\ report'.kind = report.kind /\ report'.next = report.next + 1 /\ report'.held = <<>>
      /\ report'.fault = report.fault /\ report'.touched = report.touched
      /\ report'.wrote = [report.wrote EXCEPT ![x] = text]
      /\ report' = [kind |-> report'.kind, next |-> report'.next, held |-> report'.held,
                 fault |-> report'.fault, wrote |-> report'.wrote, touched |-> report'.touched]
  BY <1>1, <1>4 DEF SettingsShape, ReportShape
<1>6. /\ report'.wrote = [i \in Names |-> report'.wrote[i]]
      /\ x \in Names => report'.wrote[x] = text
      /\ \A i \in Names \ {x} : report'.wrote[i] = report.wrote[i]
  BY <1>4, <1>5 DEF SettingsShape, ReportShape
<1>7. ReportShape'
  BY <1>4, <1>5, <1>6 DEF SettingsShape, ReportShape
<1>8. \A i \in Settings!Pointers : i[2] \notin report.touched => Agrees(i)
  <2>1. \A i \in Settings!Pointers : i[2] \notin report.touched => setter.item # i
    BY <1>4, Items, PointersAre DEF ReportInv
  <2> QED
    BY <2>1, <1>4 DEF PointersInv
<1>9. Settings!Expected("classes")' = Settings!Expected("classes")
      /\ Settings!Expected("user")' = Settings!Expected("user")
  BY <1>4 DEF Settings!Expected
<1>10. CASE HeldUser
  <2>1. held = <<<<Settings!User, held[1][2]>>>> /\ x = "user" /\ report.next = 2
        /\ text = IF held[1][2] = "null" THEN <<>> ELSE <<held[1][2]>>
    <3>1. held = <<<<Settings!User, held[1][2]>>>> /\ report.next = 2
      BY <1>10 DEF HeldUser
    <3>2. x = "user"
      BY <3>1, Items DEF x
    <3>3. texts = <<held[1][2]>>
      BY <3>1
    <3>4. Settings!ToSet(texts) = {held[1][2]}
      BY <3>3 DEF Settings!ToSet
    <3> QED
      BY <3>1, <3>2, <3>3, <3>4 DEF text
  <2>2. "user" \notin report.touched => text = Settings!Expected("user")
    <3>1. ASSUME "user" \notin report.touched
          PROVE  pointer[Settings!User] = last[Settings!User]
      BY <3>1, <1>8, Items, PointersAre DEF Agrees
    <3> QED
      BY <3>1, <2>1, <1>10 DEF HeldUser, Settings!Expected
  <2>3. \A p \in Properties : ~Passed(p) /\ ~Passed(p)'
    BY <2>1, <1>4, <1>5 DEF Passed, SettingsShape
  <2>4. WroteInv'
    BY <1>4, <1>5, <1>6, <1>9, <2>1, <2>2, <2>3, NamesAssumption DEF WroteInv, Names
  <2>5. ReportInv'
    BY <1>4, <1>5, <2>1, <2>4 DEF ReportInv
  <2> QED
    BY <1>1, <1>4, <1>5, <1>7, <2>5, ReportKeeps
<1>11. CASE HeldField
  <2> DEFINE p == fields[report.next - 2]
  <2>0. report.next - 2 \in DOMAIN fields /\ p \in Properties
    BY <1>4, <1>11 DEF HeldField, SettingsShape
  <2>1. /\ held = <<<<Settings!Key(p), held[1][2]>>, <<Settings!Value(p), held[2][2]>>>>
        /\ p \notin report.touched => /\ held[1][2] = pointer[Settings!Key(p)]
                                      /\ held[2][2] = pointer[Settings!Value(p)]
    BY <1>11 DEF HeldField
  <2>2. /\ x = p
        /\ text = IF "null" \in {held[1][2], held[2][2]} THEN <<>> ELSE <<held[1][2], held[2][2]>>
    <3>1. texts = <<held[1][2], held[2][2]>> /\ x = p
      BY <2>1, Items DEF x
    <3>2. Settings!ToSet(texts) = {held[1][2], held[2][2]}
      BY <3>1 DEF Settings!ToSet
    <3> QED
      BY <3>1, <3>2 DEF text
  <2>3. p # "user" /\ p # "classes" /\ p \in Names
    BY <2>0, NamesAssumption DEF Names
  <2>4. p \notin report.touched => text = Settings!Expected(p)
    <3>1. p \notin report.touched => Agrees(Settings!Key(p)) /\ Agrees(Settings!Value(p))
      BY <2>0, <1>8, Items, PointersAre
    <3>2. p \notin report.touched =>
            /\ held[1][2] = pointer[Settings!Key(p)] /\ held[2][2] = pointer[Settings!Value(p)]
            /\ pointer[Settings!Key(p)] = last[Settings!Key(p)]
            /\ \/ pointer[Settings!Value(p)] = last[Settings!Value(p)]
               \/ last[Settings!Value(p)] = "null" /\ pointer[Settings!Value(p)] = "freed"
      BY <2>1, <3>1, Items DEF Agrees
    <3> QED
      BY <2>0, <2>2, <2>3, <3>2 DEF Settings!Expected, Settings!Dangles
  <2>5. \A q \in Properties : Passed(q)' <=> Passed(q) \/ q = p
    <3>1. \A k \in DOMAIN fields : k < report'.next - 2 <=> k < report.next - 2 \/ k = report.next - 2
      BY <1>4, <1>5, <2>0 DEF SettingsShape
    <3> QED
      BY <3>1, <2>0, <1>4 DEF Passed
  <2>6. \A q \in Properties : Settings!Expected(q)' = Settings!Expected(q)
    BY <1>4, NamesAssumption DEF Settings!Expected, Settings!Dangles
  <2> HIDE DEF p
  <2>7. ASSUME NEW q \in Properties \ report'.touched
        PROVE  IF Passed(q)' THEN report'.wrote[q] = Settings!Expected(q)'
               ELSE report'.wrote[q] = <<>>
    <3>1. CASE q = p
      BY <3>1, <1>5, <1>6, <2>2, <2>3, <2>4, <2>5, <2>6
    <3>2. CASE q # p
      <4>1. IF Passed(q) THEN report.wrote[q] = Settings!Expected(q)
            ELSE report.wrote[q] = <<>>
        BY <1>4, <1>5 DEF WroteInv
      <4>2. report'.wrote[q] = report.wrote[q]
        BY <3>2, <1>6, <2>2 DEF Names
      <4> QED
        BY <4>1, <4>2, <3>2, <2>5, <2>6
    <3> QED
      BY <3>1, <3>2
  <2>8. report'.wrote["user"] = report.wrote["user"] /\ report'.wrote["classes"] = report.wrote["classes"]
    BY <1>6, <2>2, <2>3 DEF Names
  <2>9. report.next > 2
    BY <2>0, <1>4 DEF SettingsShape
  <2>10. WroteInv'
    BY <1>4, <1>5, <1>9, <2>7, <2>8, <2>9 DEF WroteInv
  <2>11. ReportInv'
    BY <1>4, <1>5, <2>10 DEF ReportInv
  <2> QED
    BY <1>1, <1>4, <1>5, <1>7, <2>11, ReportKeeps
<1> QED
  BY <1>2, <1>10, <1>11

LEMMA SettingsInvInit == Settings!Init => SettingsInv
<1> SUFFICES ASSUME Settings!Init
             PROVE  SettingsInv
  OBVIOUS
<1>1. /\ count = 0 /\ fields = <<>> /\ classes = <<>> /\ classCount = 0
      /\ pointer = [i \in Settings!Pointers |-> "null"] /\ setter = Settings!Idle
      /\ last = [i \in Settings!Pointers \cup {Settings!Classes} |->
                    IF i = Settings!Classes THEN <<>> ELSE "null"]
      /\ report = Settings!NoReport
  BY DEF Settings!Init
<1>2. ReportShape
  BY <1>1 DEF ReportShape, Settings!NoReport, Names
<1>3. /\ \A i \in Settings!Pointers : pointer[i] = "null" /\ last[i] = "null"
      /\ last[Settings!Classes] = <<>>
  BY <1>1, PointersAre
<1>4. SettingsShape
  BY <1>1, <1>2, <1>3 DEF SettingsShape, IsInjective, Settings!Idle
<1>5. /\ setter.item = Settings!Idle.item /\ setter.at = "idle"
      /\ \A p \in Properties : setter.item \notin {Settings!Key(p), Settings!Value(p)}
  BY <1>1, Items DEF Settings!Idle
<1>6. PointersInv /\ SetterInv
  BY <1>1, <1>3 DEF PointersInv, SetterInv, Agrees
<1>7. ClassesInv
  BY <1>1, <1>3, <1>5, Items DEF ClassesInv
<1>8. FieldsInv
  BY <1>1, <1>3, <1>5, PointersAre DEF FieldsInv
<1> QED
  BY <1>1, <1>4, <1>6, <1>7, <1>8 DEF SettingsInv, Settings!NoReport

LEMMA SettingsInvStep == SettingsInv /\ [Settings!Next]_settingsVars => SettingsInv'
<1> SUFFICES ASSUME SettingsInv, [Settings!Next]_settingsVars
             PROVE  SettingsInv'
  OBVIOUS
<1>1. CASE \E kind \in {"crash", "snapshot", "user"} : Settings!StartReport(kind)
  BY <1>1, StartKeeps
<1>2. CASE Settings!IsRestrictedClass
  BY <1>2, RestrictedKeeps
<1>3. CASE Settings!WriteUserInfo
  BY <1>3, UserInfoKeeps
<1>4. CASE Settings!CrashCallback
  BY <1>4, CallbackKeeps
<1>5. CASE Settings!AddJSONElement
  BY <1>5, ElementKeeps
<1>6. CASE UNCHANGED settingsVars
  <2>1. /\ count' = count /\ fields' = fields /\ pointer' = pointer /\ classes' = classes
        /\ classCount' = classCount /\ setter' = setter /\ last' = last /\ report' = report
    BY <1>6 DEF settingsVars
  <2>2. SettingsShape' <=> SettingsShape
    BY <2>1 DEF SettingsShape, ReportShape
  <2>3. /\ SetterInv' <=> SetterInv
        /\ PointersInv' <=> PointersInv
    BY <2>1 DEF SetterInv, PointersInv, Agrees
  <2>4. (ClassesInv => ClassesInv') /\ (FieldsInv => FieldsInv')
    BY <2>1 DEF ClassesInv, FieldsInv, Listed
  <2>5. WroteInv => WroteInv'
    BY <2>1 DEF WroteInv, Passed, Settings!Expected, Settings!Dangles
  <2>6. (HeldUser => HeldUser') /\ (HeldField => HeldField')
    BY <2>1 DEF HeldUser, HeldField
  <2>7. ReportInv => ReportInv'
    BY <2>1, <2>5, <2>6 DEF ReportInv
  <2> QED
    BY <2>1, <2>2, <2>3, <2>4, <2>7 DEF SettingsInv
<1> QED
  BY <1>1, <1>2, <1>3, <1>4, <1>5, <1>6, SetterStep DEF Settings!Next

\* A report that has run its course, or into a field that is not there yet, is
\* exact but for what a setter was at work on.
LEMMA SettingsInvImplies == SettingsInv => OthersAreExact
<1> SUFFICES ASSUME SettingsInv, report.kind # "none", Settings!Done \/ report.fault
             PROVE  /\ \A i \in DOMAIN report.wrote \ report.touched :
                         \/ report.wrote[i] = Settings!Expected(i)
                         \/ /\ i \in Properties /\ (report.fault \/ report.kind = "snapshot")
                            /\ report.wrote[i] = <<>>
                    /\ report.fault => report.touched \cap Properties # {}
  BY DEF OthersAreExact, Settings!OthersAreExact
<1>1. ReportInv /\ SettingsShape /\ WroteInv /\ FieldsInv /\ SetterInv
  BY DEF SettingsInv, ReportInv
<1>2. report.fault => report.touched \cap Properties # {}
  BY <1>1 DEF ReportInv
<1>3. report.next \in Nat /\ report.next > 2 /\ DOMAIN report.wrote = Names
  <2>1. report.next \in Nat /\ DOMAIN report.wrote = Names /\ Len(fields) \in Nat
    BY <1>1 DEF SettingsShape, ReportShape
  <2>2. CASE report.fault
    BY <2>1, <2>2, <1>1 DEF ReportInv
  <2>3. CASE Settings!Done
    <3>1. count = Len(fields) + 1 \/ count = Len(fields)
      BY <1>1 DEF FieldsInv
    <3>2. Settings!Fields \in Nat
      BY <2>1, <3>1 DEF Settings!Fields
    <3> QED
      BY <2>1, <2>3, <3>2 DEF Settings!Done
  <2> QED
    BY <2>1, <2>2, <2>3
<1>4. ASSUME NEW p \in Properties \ report.touched
      PROVE  \/ report.wrote[p] = Settings!Expected(p)
             \/ (report.fault \/ report.kind = "snapshot") /\ report.wrote[p] = <<>>
  <2>1. CASE Passed(p)
    BY <2>1, <1>1 DEF WroteInv
  <2>2. CASE ~Passed(p) /\ (report.fault \/ report.kind = "snapshot")
    BY <2>2, <1>1 DEF WroteInv
  <2>3. CASE ~Passed(p) /\ ~report.fault /\ report.kind # "snapshot"
    <3>1. report.wrote[p] = <<>>
      BY <2>3, <1>1 DEF WroteInv
    <3>2. report.next > count + 2
      BY <2>3 DEF Settings!Done, Settings!Fields
    <3>3. ~Listed(p)
      <4>1. ASSUME NEW k \in DOMAIN fields
            PROVE  k < report.next - 2
        <5>1. k \in Nat /\ k <= Len(fields) /\ Len(fields) \in Nat
          BY <1>1 DEF SettingsShape
        <5>2. count = Len(fields) + 1 \/ count = Len(fields)
          BY <1>1 DEF FieldsInv
        <5> QED
          BY <5>1, <5>2, <3>2, <1>3
      <4> QED
        BY <4>1, <2>3 DEF Listed, Passed
    <3>4. last[Settings!Key(p)] = "null"
      BY <3>3, <1>1 DEF FieldsInv
    <3> QED
      BY <3>1, <3>4, NamesAssumption DEF Settings!Expected
  <2> QED
    BY <2>1, <2>2, <2>3
<1> QED
  BY <1>1, <1>2, <1>3, <1>4 DEF WroteInv, Names

\* Whatever setter a crash stops, and whatever setters run beside a user report,
\* the report has every item that none of them was at work on exactly as it was
\* last set, but a property that was set to nil after it had a value, which is
\* read from freed memory; it faults only when a field is being added
\* (crashCallback, reportFieldForProperty, setValue, setUserInfoJSON,
\* isRestrictedClass).
THEOREM SettingsAreReported == Settings!Spec => []OthersAreExact
<1>1. SettingsInv /\ [Settings!Next]_Settings!vars => SettingsInv'
  <2>1. ASSUME SettingsInv, [Settings!Next]_Settings!vars
        PROVE  [Settings!Next]_settingsVars
    BY <2>1 DEF Settings!vars, settingsVars, Settings!fieldVars, Settings!ruleVars
  <2> QED
    BY <2>1, SettingsInvStep
<1> QED
  BY <1>1, SettingsInvInit, SettingsInvImplies, PTL DEF Settings!Spec

-----------------------------------------------------------------------------
(* Deliveries through the filters (ReportDelivery).                         *)

\* The reports there can be.
Reports == {[number |-> n, version |-> k.version, error |-> k.error] : n \in Nat, k \in Kinds}

\* The first of a list.
Starts(short, long) ==
    Len(short) <= Len(long) /\ \A i \in 1 .. Len(short) : short[i] = long[i]

\* Each report has a number of its own, ...
Distinct(reports) ==
    \A i, j \in DOMAIN reports : reports[i].number = reports[j].number => i = j

\* ... of those written so far.
Numbered(reports) ==
    Distinct(reports) /\ \A i \in DOMAIN reports : reports[i].number <= written

Steps == {"none", "queued", "filter", "ended", "answer", "done"}

SendShape(send) ==
    /\ send = [at |-> send.at, reports |-> send.reports, filter |-> send.filter,
               count |-> send.count, completed |-> send.completed, result |-> send.result,
               answered |-> send.answered, loaded |-> send.loaded, ran |-> send.ran,
               began |-> send.began, disturbed |-> send.disturbed]
    /\ send.at \in Steps /\ send.reports \in Seq(Reports) /\ send.loaded \in Seq(Reports)
    /\ send.count \in Nat /\ send.filter \in Nat
    /\ send.completed \in BOOLEAN /\ send.disturbed \in BOOLEAN
    /\ send.ran \in Seq(Filters) /\ send.began \in Seq(Filters)

DeliveryShape ==
    /\ added \in Seq(Filters) /\ prefilters = Delivery!Reverse(added)
    /\ store \in Seq(Reports) /\ written \in Nat /\ Numbered(store)
    /\ queue \in Seq(Delivery!Sends) /\ IsInjective(queue)
    /\ \A i \in DOMAIN queue : sends[queue[i]].at = "queued"
    /\ sends = [s \in Delivery!Sends |-> sends[s]]
    /\ \A s \in Delivery!Sends : SendShape(sends[s])

\* The filters a delivery began with are those added until then, last first.
BeganInv(send) ==
    /\ send.count <= Len(added)
    /\ send.began = Delivery!Reverse(SubSeq(added, 1, send.count))

\* A delivery has run as many filters as it is through; if it is not disturbed
\* it has the filters it began with, and has run the first of them.
FiltersInv(send) ==
    /\ send.at \in {"none", "queued"} => send.ran = <<>> /\ ~send.disturbed
    /\ send.at \in {"none", "queued", "filter"} => ~send.completed
    /\ send.at = "filter" => send.filter \in 1 .. send.count /\ Len(send.ran) = send.filter
    /\ send.completed /\ send.loaded # <<>> => Len(send.ran) = send.count
    /\ ~send.disturbed /\ send.at = "filter" => send.began = prefilters
    /\ ~send.disturbed => Starts(send.ran, send.began)
    /\ ~send.disturbed /\ send.completed /\ send.loaded # <<>> => send.ran = send.began

\* What a delivery has filtered are the first of the reports it loaded.
FilteredInv(send) ==
    /\ Distinct(send.loaded)
    /\ send.at = "filter" => Starts(send.reports, send.loaded)
    /\ send.completed => \E n \in 0 .. Len(send.loaded) :
            send.result = Delivery!Combine(SubSeq(send.loaded, 1, n))

SendInv(send) == SendShape(send) /\ BeganInv(send) /\ FiltersInv(send) /\ FilteredInv(send)

DeliveryInv == DeliveryShape /\ \A s \in Delivery!Sends : SendInv(sends[s])

-----------------------------------------------------------------------------
LEMMA SameCardinality == ASSUME NEW S PROVE Delivery!Cardinality(S) = Cardinality(S)
BY DEF Delivery!Cardinality, Cardinality

LEMMA UpTo == ASSUME NEW n \in Nat PROVE Cardinality(1 .. n) = n
BY FS_Interval

LEMMA ReportsAre ==
    ASSUME NEW r \in Reports
    PROVE  /\ r = [number |-> r.number, version |-> r.version, error |-> r.error]
           /\ r.number \in Nat /\ r.error \in BOOLEAN
<1>1. PICK n \in Nat, k \in Kinds : r = [number |-> n, version |-> k.version, error |-> k.error]
  BY DEF Reports
<1>2. k.error \in BOOLEAN
  <2>1. /\ [version |-> 3, error |-> TRUE].error = TRUE
        /\ [version |-> 3, error |-> FALSE].error = FALSE
        /\ [version |-> 2, error |-> FALSE].error = FALSE
    OBVIOUS
  <2> QED
    BY <2>1, Zenon DEF Kinds
<1> QED
  BY <1>1, <1>2

\* Of a list of reports, the places the Apple format keeps, and those up to one.
Kept(reports) == {i \in DOMAIN reports : reports[i].version = 3}
UpToPlace(reports, k) == {j \in Kept(reports) : j <= k}

LEMMA KeptPlaces ==
    ASSUME NEW reports \in Seq(Reports)
    PROVE  /\ Len(reports) \in Nat /\ DOMAIN reports = 1 .. Len(reports)
           /\ IsFiniteSet(Kept(reports)) /\ Cardinality(Kept(reports)) \in Nat
           /\ Kept(reports) \subseteq 1 .. Len(reports)
           /\ UpToPlace(reports, Len(reports)) = Kept(reports)
           /\ \A k : IsFiniteSet(UpToPlace(reports, k))
                     /\ Cardinality(UpToPlace(reports, k)) \in Nat
<1>1. /\ Len(reports) \in Nat /\ DOMAIN reports = 1 .. Len(reports)
      /\ Kept(reports) \subseteq 1 .. Len(reports)
  BY DEF Kept
<1>2. IsFiniteSet(1 .. Len(reports))
  BY <1>1, FS_Interval
<1>3. IsFiniteSet(Kept(reports))
  BY <1>1, <1>2, FS_Subset
<1>4. ASSUME NEW k
      PROVE  IsFiniteSet(UpToPlace(reports, k))
  <2>1. UpToPlace(reports, k) \subseteq Kept(reports)
    BY DEF UpToPlace
  <2> QED
    BY <2>1, <1>3, FS_Subset
<1>5. UpToPlace(reports, Len(reports)) = Kept(reports)
  BY <1>1 DEF UpToPlace
<1> QED
  BY <1>1, <1>3, <1>4, <1>5, FS_CardinalityType

\* A set of numbers that is not empty has a first one.
LEMMA FirstNumber ==
    ASSUME NEW S, S \subseteq Nat, S # {}
    PROVE  \E k \in S : \A l \in S : k <= l
<1> DEFINE R == OpToRel(<, Nat)
<1>1. IsWellFoundedOn(R, Nat)
  BY NatLessThanWellFounded
<1>2. PICK k \in S : \A l \in S : ~(<<l, k>> \in R)
  <2> HIDE DEF R
  <2> QED
    BY <1>1, WFMin
<1>3. \A l \in S : ~(l < k)
  BY <1>2 DEF OpToRel
<1> QED
  BY <1>3

\* Every place of what is kept is taken by a report.
LEMMA PlaceIsTaken ==
    ASSUME NEW reports \in Seq(Reports), NEW n \in 1 .. Cardinality(Kept(reports))
    PROVE  \E k \in Kept(reports) : Cardinality(UpToPlace(reports, k)) = n
<1> DEFINE Count(k) == Cardinality(UpToPlace(reports, k))
           S == {k \in 0 .. Len(reports) : Count(k) >= n}
<1>1. /\ Len(reports) \in Nat /\ Kept(reports) \subseteq 1 .. Len(reports)
      /\ Count(Len(reports)) = Cardinality(Kept(reports)) /\ n \in Nat /\ n > 0
      /\ \A k : Count(k) \in Nat /\ IsFiniteSet(UpToPlace(reports, k))
      /\ Cardinality(Kept(reports)) \in Nat
  BY KeptPlaces
<1> HIDE DEF Count
<1>2. S \subseteq Nat /\ Len(reports) \in S
  BY <1>1
<1>3. PICK k \in S : \A l \in S : k <= l
  BY <1>2, FirstNumber
<1>4. k # 0
  <2>1. UpToPlace(reports, 0) = {}
    BY <1>1 DEF UpToPlace
  <2>2. Count(0) = 0
    BY <2>1, FS_EmptySet DEF Count
  <2> QED
    BY <2>2, <1>1, <1>3
<1>5. k \in 1 .. Len(reports) /\ Count(k) >= n /\ k - 1 \in 0 .. Len(reports)
  BY <1>1, <1>3, <1>4
<1>6. Count(k - 1) < n
  <2>1. k - 1 \notin S
    BY <1>3, <1>5
  <2> QED
    BY <2>1, <1>1, <1>5
<1>7. UpToPlace(reports, k) \subseteq UpToPlace(reports, k - 1) \cup {k}
  BY <1>1, <1>5 DEF UpToPlace
<1>8. k \in Kept(reports)
  <2>1. ASSUME k \notin Kept(reports)
        PROVE  FALSE
    <3>1. UpToPlace(reports, k) = UpToPlace(reports, k - 1)
      BY <2>1, <1>1, <1>5 DEF UpToPlace
    <3> QED
      BY <3>1, <1>1, <1>5, <1>6 DEF Count
  <2> QED
    BY <2>1
<1>9. Count(k) <= Count(k - 1) + 1
  <2> DEFINE before == UpToPlace(reports, k - 1)
  <2>1. IsFiniteSet(before) /\ Cardinality(before) = Count(k - 1)
    BY <1>1 DEF Count
  <2> HIDE DEF before
  <2>2. /\ IsFiniteSet(before \cup {k})
        /\ Cardinality(before \cup {k}) = IF k \in before THEN Cardinality(before) ELSE Cardinality(before) + 1
    BY <2>1, FS_AddElement
  <2>3. UpToPlace(reports, k) \in SUBSET (before \cup {k})
    BY <1>7 DEF before
  <2>4. Cardinality(UpToPlace(reports, k)) <= Cardinality(before \cup {k})
    BY <2>2, <2>3, FS_Subset
  <2> QED
    BY <2>1, <2>2, <2>4, <1>1 DEF Count
<1> QED
  BY <1>1, <1>5, <1>6, <1>8, <1>9 DEF Count

\* As long as nothing was left out a report keeps its place ...
LEMMA KeepsPlace ==
    ASSUME NEW reports \in Seq(Reports), NEW i \in DOMAIN reports,
           \A j \in 1 .. i : reports[j].version = 3
    PROVE  /\ i \in 1 .. Cardinality(Kept(reports))
           /\ i \in Kept(reports) /\ Cardinality(UpToPlace(reports, i)) = i
           /\ \A k \in Kept(reports) : Cardinality(UpToPlace(reports, k)) = i => k = i
<1>1. /\ Len(reports) \in Nat /\ DOMAIN reports = 1 .. Len(reports) /\ i \in 1 .. Len(reports)
      /\ IsFiniteSet(Kept(reports)) /\ Cardinality(Kept(reports)) \in Nat
      /\ Kept(reports) \subseteq 1 .. Len(reports)
      /\ \A k : IsFiniteSet(UpToPlace(reports, k)) /\ Cardinality(UpToPlace(reports, k)) \in Nat
  BY KeptPlaces
<1>2. 1 .. i \subseteq Kept(reports) /\ i \in Kept(reports)
  BY <1>1 DEF Kept
<1>3. Cardinality(1 .. i) = i /\ IsFiniteSet(1 .. i)
  BY <1>1, FS_Interval, UpTo
<1>4. i <= Cardinality(Kept(reports))
  <2>1. 1 .. i \in SUBSET Kept(reports)
    BY <1>2
  <2>2. Cardinality(1 .. i) <= Cardinality(Kept(reports))
    BY <2>1, <1>1, FS_Subset
  <2> QED
    BY <2>2, <1>3
<1>5. UpToPlace(reports, i) = 1 .. i
  BY <1>1, <1>2 DEF UpToPlace
<1>6. ASSUME NEW k \in Kept(reports), k < i
      PROVE  Cardinality(UpToPlace(reports, k)) # i
  <2>1. k \in Nat /\ Cardinality(1 .. k) = k /\ IsFiniteSet(1 .. k)
    <3>1. k \in Nat /\ 1 \in Int /\ k \in Int
      BY <1>1
    <3> QED
      BY <3>1, FS_Interval, UpTo
  <2>2. UpToPlace(reports, k) \in SUBSET (1 .. k)
    BY <1>1 DEF UpToPlace
  <2>3. Cardinality(UpToPlace(reports, k)) <= Cardinality(1 .. k)
    BY <2>1, <2>2, FS_Subset
  <2> QED
    BY <2>1, <2>3, <1>1, <1>6
<1>7. ASSUME NEW k \in Kept(reports), k > i
      PROVE  Cardinality(UpToPlace(reports, k)) # i
  <2>1. k \in Nat /\ k \notin 1 .. i
    BY <1>1, <1>7
  <2>2. Cardinality((1 .. i) \cup {k}) = i + 1
    <3>1. Cardinality((1 .. i) \cup {k}) = IF k \in 1 .. i THEN Cardinality(1 .. i) ELSE Cardinality(1 .. i) + 1
      BY <1>3, FS_AddElement
    <3> QED
      BY <3>1, <2>1, <1>3
  <2>3. (1 .. i) \cup {k} \in SUBSET UpToPlace(reports, k)
    BY <1>1, <1>2, <1>7 DEF UpToPlace
  <2>4. Cardinality((1 .. i) \cup {k}) <= Cardinality(UpToPlace(reports, k))
    BY <2>3, <1>1, FS_Subset
  <2> QED
    BY <2>2, <2>4, <1>1
<1>8. \A k \in Kept(reports) : k < i \/ k = i \/ k > i
  BY <1>1
<1> QED
  BY <1>1, <1>2, <1>3, <1>4, <1>5, <1>6, <1>7, <1>8

\* ... and from then on its place is taken by one that came later.
LEMMA MovesUp ==
    ASSUME NEW reports \in Seq(Reports), NEW i \in DOMAIN reports,
           ~ \A j \in 1 .. i : reports[j].version = 3,
           NEW k \in Kept(reports), Cardinality(UpToPlace(reports, k)) = i
    PROVE  k # i
<1>1. /\ DOMAIN reports = 1 .. Len(reports) /\ Len(reports) \in Nat /\ i \in Nat
      /\ Kept(reports) \subseteq 1 .. Len(reports)
  BY KeptPlaces
<1>2. PICK j \in 1 .. i : j \notin Kept(reports)
  BY <1>1 DEF Kept
<1>3. ASSUME k = i
      PROVE  FALSE
  <2>1. Cardinality(1 .. i) = i /\ IsFiniteSet(1 .. i)
    <3>1. i \in Nat /\ 1 \in Int /\ i \in Int
      BY <1>1
    <3> QED
      BY <3>1, FS_Interval, UpTo
  <2>2. UpToPlace(reports, i) \in SUBSET ((1 .. i) \ {j})
    BY <1>1, <1>2 DEF UpToPlace
  <2>3. /\ IsFiniteSet((1 .. i) \ {j})
        /\ Cardinality((1 .. i) \ {j}) = IF j \in 1 .. i THEN Cardinality(1 .. i) - 1 ELSE Cardinality(1 .. i)
    BY <2>1, FS_RemoveElement
  <2>4. Cardinality(UpToPlace(reports, i)) <= Cardinality((1 .. i) \ {j})
    BY <2>2, <2>3, FS_Subset
  <2> QED
    BY <2>1, <2>3, <2>4, <1>1, <1>2, <1>3
<1> QED
  BY <1>3

\* What the Apple format has in one place is of the report in that place exactly
\* as long as nothing was left out.
LEMMA AppleMatches ==
    ASSUME NEW reports \in Seq(Reports), Distinct(reports), NEW i \in DOMAIN reports
    PROVE  LET texts == Delivery!AppleFmt(reports)
           IN i \in DOMAIN texts /\ texts[i].number = reports[i].number
                <=> \A j \in 1 .. i : reports[j].version = 3
<1> DEFINE texts == Delivery!AppleFmt(reports)
           places == Kept(reports)
           Nth(n) == CHOOSE k \in places : Delivery!Cardinality({j \in places : j <= k}) = n
<1>0. /\ Delivery!Cardinality(places) = Cardinality(Kept(reports))
      /\ \A k : Delivery!Cardinality({j \in places : j <= k}) = Cardinality(UpToPlace(reports, k))
  <2>1. \A k : {j \in places : j <= k} = UpToPlace(reports, k)
    BY DEF UpToPlace
  <2> HIDE DEF places
  <2>2. Delivery!Cardinality(places) = Cardinality(places)
    BY SameCardinality
  <2>3. \A k : Delivery!Cardinality(UpToPlace(reports, k)) = Cardinality(UpToPlace(reports, k))
    BY SameCardinality
  <2> QED
    BY <2>1, <2>2, <2>3 DEF places
<1>1. texts = [n \in 1 .. Delivery!Cardinality(places) |-> reports[Nth(n)]]
  BY DEF Delivery!AppleFmt, Kept
<1> HIDE DEF texts
<1>2. DOMAIN texts = 1 .. Cardinality(Kept(reports))
  BY <1>0, <1>1
<1>3. ASSUME \A j \in 1 .. i : reports[j].version = 3
      PROVE  i \in DOMAIN texts /\ texts[i].number = reports[i].number
  <2>1. /\ i \in 1 .. Cardinality(Kept(reports)) /\ i \in Kept(reports)
        /\ Cardinality(UpToPlace(reports, i)) = i
        /\ \A k \in Kept(reports) : Cardinality(UpToPlace(reports, k)) = i => k = i
    BY <1>3, KeepsPlace
  <2>2. Nth(i) = i
    <3>1. i \in places /\ Delivery!Cardinality({j \in places : j <= i}) = i
      BY <1>0, <2>1
    <3>2. \A k \in places : Delivery!Cardinality({j \in places : j <= k}) = i => k = i
      BY <1>0, <2>1
    <3> HIDE DEF places
    <3> QED
      BY <3>1, <3>2
  <2> QED
    BY <1>0, <1>1, <1>2, <2>1, <2>2
<1>4. ASSUME ~ \A j \in 1 .. i : reports[j].version = 3, i \in DOMAIN texts
      PROVE  texts[i].number # reports[i].number
  <2>1. \E k \in Kept(reports) : Cardinality(UpToPlace(reports, k)) = i
    BY <1>2, <1>4, PlaceIsTaken
  <2>2. Nth(i) \in Kept(reports) /\ Cardinality(UpToPlace(reports, Nth(i))) = i
    <3>1. \E k \in places : Delivery!Cardinality({j \in places : j <= k}) = i
      BY <1>0, <2>1
    <3>2. Nth(i) \in places /\ Delivery!Cardinality({j \in places : j <= Nth(i)}) = i
      BY <3>1
    <3> HIDE DEF Nth
    <3> QED
      BY <1>0, <3>2
  <2>3. PICK k : k = Nth(i)
    OBVIOUS
  <2> HIDE DEF Nth
  <2>4. k \in Kept(reports) /\ Cardinality(UpToPlace(reports, k)) = i
    BY <2>2, <2>3
  <2>5. k # i
    BY <1>4, <2>4, MovesUp
  <2>6. texts[i] = reports[k] /\ k \in DOMAIN reports
    BY <1>0, <1>1, <1>2, <1>4, <2>3, <2>4 DEF Kept
  <2> QED
    BY <2>5, <2>6 DEF Distinct
<1> QED
  BY <1>3, <1>4 DEF texts

\* What Combine puts together in one place.
LEMMA CombinesOne ==
    ASSUME NEW reports \in Seq(Reports), Distinct(reports),
           NEW i \in DOMAIN Delivery!Combine(reports)
    PROVE  LET entry == Delivery!Combine(reports)[i]
           IN /\ i \in DOMAIN reports
              /\ entry.rawReport = reports[i].number
              /\ entry.errorReport = (IF reports[i].error THEN entry.rawReport ELSE 0)
              /\ ("AppleFmt" \in DOMAIN entry /\ entry["AppleFmt"] = entry.rawReport)
                   <=> \A j \in 1 .. i : reports[j].version = 3
<1> DEFINE errors == Delivery!ErrorFilter(reports)
           texts == Delivery!AppleFmt(reports)
           results == [rawReport |-> reports, errorReport |-> errors, AppleFmt |-> texts]
           keys == {key \in DOMAIN results : i \in DOMAIN results[key]}
           entry == [k \in keys |-> results[k][i].number]
<1>1. i \in DOMAIN reports /\ Delivery!Combine(reports)[i] = entry
  BY DEF Delivery!Combine, Delivery!Passthrough
<1>2. /\ DOMAIN errors = DOMAIN reports
      /\ errors[i].number = IF reports[i].error THEN reports[i].number ELSE 0
  <2>1. reports[i] \in Reports
    BY <1>1
  <2> QED
    BY <1>1, <2>1, ReportsAre DEF Delivery!ErrorFilter
<1>3. i \in DOMAIN texts /\ texts[i].number = reports[i].number
        <=> \A j \in 1 .. i : reports[j].version = 3
  BY <1>1, AppleMatches
<1> HIDE DEF errors, texts
<1>4. /\ "rawReport" \in keys /\ "errorReport" \in keys
      /\ "AppleFmt" \in keys <=> i \in DOMAIN texts
      /\ results["rawReport"][i].number = reports[i].number
      /\ results["errorReport"][i].number = errors[i].number
      /\ results["AppleFmt"][i].number = texts[i].number
  BY <1>1, <1>2
<1> HIDE DEF keys, results
<1>5. /\ DOMAIN entry = keys /\ entry.rawReport = reports[i].number
      /\ entry.errorReport = errors[i].number
      /\ "AppleFmt" \in keys => entry["AppleFmt"] = texts[i].number
  BY <1>4
<1> HIDE DEF entry
<1> QED
  BY <1>1, <1>2, <1>3, <1>4, <1>5

LEMMA ReverseOf ==
    ASSUME NEW T, NEW q \in Seq(T)
    PROVE  /\ Delivery!Reverse(q) \in Seq(T) /\ Len(Delivery!Reverse(q)) = Len(q)
           /\ \A i \in 1 .. Len(q) : Delivery!Reverse(q)[i] = q[Len(q) - i + 1]
BY DEF Delivery!Reverse

LEMMA ReverseAppend ==
    ASSUME NEW T, NEW q \in Seq(T), NEW x \in T
    PROVE  Delivery!Reverse(Append(q, x)) = <<x>> \o Delivery!Reverse(q)
<1> DEFINE long == Delivery!Reverse(Append(q, x))
           joined == <<x>> \o Delivery!Reverse(q)
<1>1. /\ Append(q, x) \in Seq(T) /\ Len(Append(q, x)) = Len(q) + 1 /\ Len(q) \in Nat
      /\ Append(q, x)[Len(q) + 1] = x /\ \A i \in 1 .. Len(q) : Append(q, x)[i] = q[i]
  OBVIOUS
<1>2. /\ long \in Seq(T) /\ Len(long) = Len(q) + 1
      /\ \A i \in 1 .. Len(q) + 1 : long[i] = Append(q, x)[Len(q) + 1 - i + 1]
  <2> DEFINE more == Append(q, x)
  <2>1. more \in Seq(T) /\ Len(more) = Len(q) + 1
    BY <1>1
  <2> HIDE DEF more
  <2>2. /\ Delivery!Reverse(more) \in Seq(T) /\ Len(Delivery!Reverse(more)) = Len(more)
        /\ \A i \in 1 .. Len(more) : Delivery!Reverse(more)[i] = more[Len(more) - i + 1]
    BY <2>1, ReverseOf
  <2> QED
    BY <2>1, <2>2 DEF more
<1>3. /\ Delivery!Reverse(q) \in Seq(T) /\ Len(Delivery!Reverse(q)) = Len(q)
      /\ \A i \in 1 .. Len(q) : Delivery!Reverse(q)[i] = q[Len(q) - i + 1]
  BY ReverseOf
<1>4. <<x>> \in Seq(T) /\ Len(<<x>>) = 1 /\ <<x>>[1] = x
  OBVIOUS
<1>5. /\ joined \in Seq(T) /\ Len(joined) = 1 + Len(q) /\ joined[1] = x
      /\ \A i \in 2 .. Len(q) + 1 : joined[i] = Delivery!Reverse(q)[i - 1]
  BY <1>1, <1>3, <1>4, ConcatProperties
<1> HIDE DEF long, joined
<1>6. ASSUME NEW i \in 1 .. Len(q) + 1
      PROVE  long[i] = joined[i]
  <2>1. CASE i = 1
    <3>1. Len(q) + 1 - i + 1 = Len(q) + 1
      BY <2>1, <1>1
    <3> QED
      BY <2>1, <3>1, <1>1, <1>2, <1>5
  <2>2. CASE i # 1
    <3>1. i \in 2 .. Len(q) + 1 /\ i - 1 \in 1 .. Len(q) /\ Len(q) + 1 - i + 1 \in 1 .. Len(q)
          /\ Len(q) - (i - 1) + 1 = Len(q) + 1 - i + 1
      BY <2>2, <1>1
    <3> QED
      BY <3>1, <1>1, <1>2, <1>3, <1>5
  <2> QED
    BY <2>1, <2>2
<1>7. long = joined
  BY <1>1, <1>2, <1>5, <1>6
<1> QED
  BY <1>7 DEF long, joined

LEMMA First ==
    ASSUME NEW T, NEW q \in Seq(T), NEW n \in 0 .. Len(q)
    PROVE  /\ SubSeq(q, 1, n) \in Seq(T) /\ Len(SubSeq(q, 1, n)) = n
           /\ \A i \in 1 .. n : SubSeq(q, 1, n)[i] = q[i]
<1>1. Len(q) \in Nat
  OBVIOUS
<1> QED
  BY <1>1, SubSeqProperties

LEMMA StartIsFirst ==
    ASSUME NEW T, NEW short \in Seq(T), NEW long \in Seq(T), Starts(short, long)
    PROVE  /\ Len(short) \in 0 .. Len(long) /\ short = SubSeq(long, 1, Len(short))
           /\ SubSeq(short, 1, Len(short)) = short
<1>1. Len(short) \in 0 .. Len(long) /\ Len(short) \in 0 .. Len(short)
  BY DEF Starts
<1>2. /\ SubSeq(long, 1, Len(short)) \in Seq(T) /\ Len(SubSeq(long, 1, Len(short))) = Len(short)
      /\ \A i \in 1 .. Len(short) : SubSeq(long, 1, Len(short))[i] = long[i]
  BY <1>1, First
<1>3. /\ SubSeq(short, 1, Len(short)) \in Seq(T) /\ Len(SubSeq(short, 1, Len(short))) = Len(short)
      /\ \A i \in 1 .. Len(short) : SubSeq(short, 1, Len(short))[i] = short[i]
  BY <1>1, First
<1> QED
  BY <1>1, <1>2, <1>3 DEF Starts

\* The pipeline goes on with the filter that is next, or it ends.
LEMMA PipelineGoesOn ==
    ASSUME NEW send, NEW reports \in Seq(Reports), NEW i \in Nat,
           DeliveryShape, SendShape(send), BeganInv(send), ~send.completed,
           Starts(reports, send.loaded), 1 <= i, i <= send.count + 1,
           Len(send.ran) = i - 1, Distinct(send.loaded),
           ~send.disturbed => send.began = prefilters /\ Starts(send.ran, send.began)
    PROVE  SendInv(Delivery!Pipeline(send, reports, i))
<1> DEFINE next == Delivery!Pipeline(send, reports, i)
<1>1. /\ added \in Seq(Filters) /\ prefilters \in Seq(Filters) /\ Len(prefilters) = Len(added)
      /\ send.count \in Nat /\ send.count <= Len(added) /\ Len(added) \in Nat
      /\ send.ran \in Seq(Filters) /\ send.began \in Seq(Filters)
  BY ReverseOf DEF DeliveryShape, SendShape, BeganInv
<1>2. Len(send.began) = send.count
  <2>1. /\ send.began = Delivery!Reverse(SubSeq(added, 1, send.count))
        /\ send.count \in 0 .. Len(added)
    BY <1>1 DEF BeganInv
  <2>2. /\ SubSeq(added, 1, send.count) \in Seq(Filters)
        /\ Len(SubSeq(added, 1, send.count)) = send.count
    BY <1>1, <2>1, First
  <2> QED
    BY <2>1, <2>2, ReverseOf
<1>3. CASE i <= send.count
  <2> DEFINE f == prefilters[i]
             ran == Append(send.ran, f)
  <2>1. f \in Filters
    BY <1>1, <1>3
  <2>2. /\ ran \in Seq(Filters) /\ Len(ran) = Len(send.ran) + 1 /\ ran[Len(send.ran) + 1] = f
        /\ \A k \in 1 .. Len(send.ran) : ran[k] = send.ran[k]
    BY <1>1, <2>1
  <2>3. Len(ran) = i /\ (~send.disturbed => Starts(ran, send.began))
    BY <2>2, <1>1, <1>2, <1>3 DEF Starts
  <2> HIDE DEF f, ran
  <2>4. next = [send EXCEPT !.at = "filter", !.filter = i, !.reports = reports, !.ran = ran]
    BY <1>3 DEF Delivery!Pipeline, f, ran
  <2>5. next = [at |-> "filter", reports |-> reports, filter |-> i,
               count |-> send.count, completed |-> send.completed, result |-> send.result,
               answered |-> send.answered, loaded |-> send.loaded, ran |-> ran,
               began |-> send.began, disturbed |-> send.disturbed]
    BY <2>4 DEF SendShape
  <2>6. /\ next.at = "filter" /\ next.reports = reports /\ next.filter = i
        /\ next.count = send.count /\ next.completed = send.completed /\ next.result = send.result
        /\ next.answered = send.answered /\ next.loaded = send.loaded /\ next.ran = ran
        /\ next.began = send.began /\ next.disturbed = send.disturbed
    BY <2>5
  <2> HIDE DEF next
  <2>7. SendShape(next)
    BY <2>2, <2>5, <2>6 DEF SendShape, Steps
  <2>8. BeganInv(next) /\ FilteredInv(next)
    BY <2>6 DEF BeganInv, FilteredInv
  <2>9. FiltersInv(next)
    BY <2>3, <2>6, <1>1, <1>3 DEF FiltersInv
  <2> QED
    BY <2>7, <2>8, <2>9 DEF SendInv, next
<1>4. CASE ~(i <= send.count)
  <2>0. i = send.count + 1
    BY <1>1, <1>4
  <2>1. next = [send EXCEPT !.at = "ended", !.completed = TRUE, !.result = Delivery!Combine(reports)]
    BY <1>4 DEF Delivery!Pipeline, Delivery!Ended
  <2>2. next = [at |-> "ended", reports |-> send.reports, filter |-> send.filter,
               count |-> send.count, completed |-> TRUE, result |-> Delivery!Combine(reports),
               answered |-> send.answered, loaded |-> send.loaded, ran |-> send.ran,
               began |-> send.began, disturbed |-> send.disturbed]
    BY <2>1 DEF SendShape
  <2>3. /\ next.at = "ended" /\ next.reports = send.reports /\ next.filter = send.filter
        /\ next.count = send.count /\ next.completed = TRUE
        /\ next.result = Delivery!Combine(reports)
        /\ next.answered = send.answered /\ next.loaded = send.loaded /\ next.ran = send.ran
        /\ next.began = send.began /\ next.disturbed = send.disturbed
    BY <2>2
  <2> HIDE DEF next
  <2>4. SendShape(next)
    BY <2>2, <2>3 DEF SendShape, Steps
  <2>5. BeganInv(next)
    BY <2>3 DEF BeganInv
  <2>6. ~send.disturbed => send.ran = send.began
    <3>1. ASSUME ~send.disturbed
          PROVE  send.ran = send.began
      <4>1. Len(send.ran) = send.count /\ Starts(send.ran, send.began)
        BY <3>1, <2>0, <1>1, SMT
      <4>2. \A k \in 1 .. Len(send.ran) : send.ran[k] = send.began[k]
        BY <4>1 DEF Starts
      <4> QED
        BY <4>1, <4>2, <1>1, <1>2, SeqEqual
    <3> QED
      BY <3>1
  <2>7. FiltersInv(next)
    <3>1. Len(send.ran) = send.count
      BY <2>0, <1>1
    <3> QED
      BY <3>1, <2>3, <2>6 DEF FiltersInv
  <2>8. Len(reports) \in 0 .. Len(send.loaded) /\ reports = SubSeq(send.loaded, 1, Len(reports))
    BY StartIsFirst DEF SendShape
  <2>9. FilteredInv(next)
    BY <2>3, <2>8 DEF FilteredInv
  <2> QED
    BY <2>4, <2>5, <2>7, <2>9 DEF SendInv, next
<1> QED
  BY <1>3, <1>4

-----------------------------------------------------------------------------
\* One delivery moves, and the filters and the other deliveries stay.
LEMMA OneMoves ==
    ASSUME NEW s \in Delivery!Sends, NEW send, DeliveryInv, SendInv(send),
           Delivery!Update(s, send), added' = added, prefilters' = prefilters,
           store' \in Seq(Reports), written' \in Nat, Numbered(store)',
           queue' \in Seq(Delivery!Sends), IsInjective(queue'),
           \A i \in DOMAIN queue' :
              IF queue'[i] = s THEN send.at = "queued" ELSE sends[queue'[i]].at = "queued"
    PROVE  DeliveryInv'
<1>1. /\ DeliveryShape /\ \A r \in Delivery!Sends : SendInv(sends[r])
      /\ sends = [r \in Delivery!Sends |-> sends[r]]
  BY DEF DeliveryInv, DeliveryShape
<1>2. sends' = [r \in Delivery!Sends |-> IF r = s THEN send ELSE sends[r]]
  BY <1>1 DEF Delivery!Update
<1>3. /\ sends'[s] = send /\ \A r \in Delivery!Sends \ {s} : sends'[r] = sends[r]
      /\ sends' = [r \in Delivery!Sends |-> sends'[r]]
  BY <1>2
<1>4. ASSUME NEW r \in Delivery!Sends
      PROVE  SendInv(sends[r])'
  <2> DEFINE now == IF r = s THEN send ELSE sends[r]
  <2>1. sends'[r] = now /\ SendInv(now)
    BY <1>1, <1>3
  <2>2. /\ SendShape(now) /\ BeganInv(now) /\ FiltersInv(now) /\ FilteredInv(now)
    BY <2>1 DEF SendInv
  <2> HIDE DEF now
  <2>3. SendShape(sends[r])' /\ FilteredInv(sends[r])'
    BY <2>1, <2>2 DEF SendShape, FilteredInv
  <2>4. BeganInv(sends[r])' /\ FiltersInv(sends[r])'
    BY <2>1, <2>2 DEF BeganInv, FiltersInv
  <2> QED
    BY <2>3, <2>4 DEF SendInv
<1>5. \A i \in DOMAIN queue' : sends'[queue'[i]].at = "queued"
  BY <1>3
<1>6. \A r \in Delivery!Sends : SendShape(sends[r])'
  BY <1>4 DEF SendInv
<1>7. added' \in Seq(Filters) /\ prefilters' = Delivery!Reverse(added)'
  BY <1>1 DEF DeliveryShape
<1>8. DeliveryShape'
  BY <1>3, <1>5, <1>6, <1>7 DEF DeliveryShape
<1> QED
  BY <1>4, <1>8 DEF DeliveryInv

\* What holds of each delivery.
LEMMA OneSend ==
    ASSUME DeliveryInv, NEW s \in Delivery!Sends
    PROVE  /\ DeliveryShape /\ SendInv(sends[s])
           /\ SendShape(sends[s]) /\ BeganInv(sends[s]) /\ FiltersInv(sends[s])
           /\ FilteredInv(sends[s])
BY DEF DeliveryInv, SendInv

\* A queue that stays has no delivery that is under way.
LEMMA UnderWay ==
    ASSUME DeliveryInv, NEW s \in Delivery!Sends, sends[s].at # "queued", NEW send
    PROVE  /\ queue \in Seq(Delivery!Sends) /\ IsInjective(queue)
           /\ \A i \in DOMAIN queue :
                IF queue[i] = s THEN send.at = "queued" ELSE sends[queue[i]].at = "queued"
BY DEF DeliveryInv, DeliveryShape

\* A delivery that is otherwise as it was.
Same(next, send) ==
    /\ next.reports = send.reports /\ next.filter = send.filter /\ next.count = send.count
    /\ next.completed = send.completed /\ next.result = send.result
    /\ next.loaded = send.loaded /\ next.ran = send.ran /\ next.began = send.began
    /\ next.disturbed = send.disturbed

Moved(next, send, at) ==
    \/ next = [send EXCEPT !.at = at]
    \/ \E n : next = [send EXCEPT !.at = at, !.answered = n]

LEMMA AtMoves ==
    ASSUME NEW send, SendShape(send), NEW at \in Steps, NEW next, Moved(next, send, at)
    PROVE  SendShape(next) /\ next.at = at /\ Same(next, send)
<1>1. PICK n : next = [at |-> at, reports |-> send.reports, filter |-> send.filter,
               count |-> send.count, completed |-> send.completed, result |-> send.result,
               answered |-> n, loaded |-> send.loaded, ran |-> send.ran,
               began |-> send.began, disturbed |-> send.disturbed]
  <2>1. CASE next = [send EXCEPT !.at = at]
    BY <2>1 DEF SendShape
  <2>2. ASSUME NEW n, next = [send EXCEPT !.at = at, !.answered = n]
        PROVE  next = [at |-> at, reports |-> send.reports, filter |-> send.filter,
               count |-> send.count, completed |-> send.completed, result |-> send.result,
               answered |-> n, loaded |-> send.loaded, ran |-> send.ran,
               began |-> send.began, disturbed |-> send.disturbed]
    BY <2>2 DEF SendShape
  <2> QED
    BY <2>1, <2>2 DEF Moved
<1> QED
  BY <1>1 DEF SendShape, Same

LEMMA NothingSent ==
    /\ SendShape(Delivery!NoSend) /\ Delivery!NoSend.at = "none"
    /\ Delivery!NoSend.reports = <<>> /\ Delivery!NoSend.filter = 0 /\ Delivery!NoSend.count = 0
    /\ ~Delivery!NoSend.completed /\ Delivery!NoSend.result = <<>>
    /\ Delivery!NoSend.loaded = <<>> /\ Delivery!NoSend.ran = <<>>
    /\ Delivery!NoSend.began = <<>> /\ ~Delivery!NoSend.disturbed
BY DEF SendShape, Steps, Delivery!NoSend

LEMMA LoadedFor ==
    ASSUME NEW send, SendShape(send), NEW loaded, NEW began, NEW n, NEW next,
           next = [send EXCEPT !.loaded = loaded, !.began = began, !.count = n]
    PROVE  next = [at |-> send.at, reports |-> send.reports, filter |-> send.filter,
                   count |-> n, completed |-> send.completed, result |-> send.result,
                   answered |-> send.answered, loaded |-> loaded, ran |-> send.ran,
                   began |-> began, disturbed |-> send.disturbed]
BY DEF SendShape

LEMMA EndedIs ==
    ASSUME NEW send, SendShape(send), NEW completed, NEW result, NEW next,
           next = Delivery!Ended(send, completed, result)
    PROVE  next = [at |-> "ended", reports |-> send.reports, filter |-> send.filter,
                   count |-> send.count, completed |-> completed, result |-> result,
                   answered |-> send.answered, loaded |-> send.loaded, ran |-> send.ran,
                   began |-> send.began, disturbed |-> send.disturbed]
BY DEF SendShape, Delivery!Ended

LEMMA StartDelivery ==
    ASSUME DeliveryInv, NEW s \in Delivery!Sends, Delivery!Start(s)
    PROVE  DeliveryInv'
<1> DEFINE send == [Delivery!NoSend EXCEPT !.at = "queued"]
<1>1. /\ sends[s].at = "none" /\ queue' = Append(queue, s) /\ Delivery!Update(s, send)
      /\ added' = added /\ prefilters' = prefilters /\ store' = store /\ written' = written
  BY DEF Delivery!Start, Delivery!filterVars, Delivery!storeVars
<1>2. DeliveryShape /\ SendShape(sends[s])
  BY OneSend
<1>3. SendShape(send) /\ send.at = "queued" /\ Same(send, Delivery!NoSend)
  <2>1. Moved(send, Delivery!NoSend, "queued") /\ "queued" \in Steps
    BY DEF Moved, Steps
  <2> HIDE DEF send
  <2> QED
    BY <2>1, NothingSent, AtMoves
<1> HIDE DEF send
<1>4. /\ send.filter = 0 /\ send.count = 0 /\ ~send.completed
      /\ send.loaded = <<>> /\ send.ran = <<>> /\ send.began = <<>> /\ ~send.disturbed
  BY <1>3, NothingSent DEF Same
<1>6. BeganInv(send)
  <2>1. SubSeq(added, 1, 0) = <<>> /\ Len(added) \in Nat
    BY <1>2, SubSeqEmpty DEF DeliveryShape
  <2> QED
    BY <2>1, <1>4 DEF BeganInv, Delivery!Reverse
<1>7. FiltersInv(send) /\ FilteredInv(send)
  BY <1>3, <1>4 DEF FiltersInv, FilteredInv, Starts, Distinct
<1>8. SendInv(send)
  BY <1>3, <1>6, <1>7 DEF SendInv
<1>9. /\ queue \in Seq(Delivery!Sends) /\ IsInjective(queue)
      /\ \A i \in DOMAIN queue : queue[i] # s /\ sends[queue[i]].at = "queued"
  BY <1>1, <1>2 DEF DeliveryShape
<1>10. /\ queue' \in Seq(Delivery!Sends) /\ DOMAIN queue' = DOMAIN queue \cup {Len(queue) + 1}
       /\ queue'[Len(queue) + 1] = s /\ \A i \in DOMAIN queue : queue'[i] = queue[i]
  BY <1>1, <1>9
<1>11. IsInjective(queue')
  BY <1>9, <1>10 DEF IsInjective
<1>12. \A i \in DOMAIN queue' :
          IF queue'[i] = s THEN send.at = "queued" ELSE sends[queue'[i]].at = "queued"
  BY <1>3, <1>9, <1>10
<1>13. store' \in Seq(Reports) /\ written' \in Nat /\ Numbered(store)'
  BY <1>1, <1>2 DEF DeliveryShape, Numbered, Distinct
<1> QED
  BY <1>1, <1>8, <1>10, <1>11, <1>12, <1>13, OneMoves

LEMMA BeginDelivery ==
    ASSUME DeliveryInv, Delivery!SendAllReports
    PROVE  DeliveryInv'
<1>0. PICK s, old : s = Head(queue) /\ old = sends[s]
  OBVIOUS
<1> DEFINE send == [old EXCEPT !.loaded = store, !.began = prefilters,
                               !.count = Len(prefilters)]
<1>1. /\ queue # <<>> /\ queue' = Tail(queue) /\ Delivery!Update(s, Delivery!SendReports(send))
      /\ added' = added /\ prefilters' = prefilters /\ store' = store /\ written' = written
  BY <1>0 DEF Delivery!SendAllReports, Delivery!filterVars, Delivery!storeVars
<1>2. /\ DeliveryShape /\ queue \in Seq(Delivery!Sends) /\ IsInjective(queue)
      /\ added \in Seq(Filters) /\ prefilters = Delivery!Reverse(added) /\ store \in Seq(Reports)
      /\ written \in Nat /\ \A i \in DOMAIN queue : sends[queue[i]].at = "queued"
      /\ Numbered(store)
  BY DEF DeliveryInv, DeliveryShape
<1>3. s \in Delivery!Sends /\ s = queue[1] /\ 1 \in DOMAIN queue
  BY <1>0, <1>1, <1>2
<1>4. old.at = "queued"
  BY <1>0, <1>2, <1>3
<1>5. /\ SendShape(old) /\ FiltersInv(old)
  BY <1>0, <1>3, OneSend
<1>6. send = [at |-> "queued", reports |-> old.reports, filter |-> old.filter,
             count |-> Len(prefilters), completed |-> old.completed,
             result |-> old.result, answered |-> old.answered, loaded |-> store,
             ran |-> old.ran, began |-> prefilters, disturbed |-> old.disturbed]
  <2>1. send = [at |-> old.at, reports |-> old.reports, filter |-> old.filter,
             count |-> Len(prefilters), completed |-> old.completed,
             result |-> old.result, answered |-> old.answered, loaded |-> store,
             ran |-> old.ran, began |-> prefilters, disturbed |-> old.disturbed]
    BY <1>5, LoadedFor
  <2> QED
    BY <2>1, <1>4
<1>7. /\ send.at = "queued" /\ send.reports = old.reports /\ send.filter = old.filter
      /\ send.count = Len(prefilters) /\ send.completed = FALSE
      /\ send.result = old.result /\ send.answered = old.answered
      /\ send.loaded = store /\ send.ran = <<>> /\ send.began = prefilters
      /\ send.disturbed = FALSE
  BY <1>4, <1>5, <1>6 DEF FiltersInv, SendShape
<1> HIDE DEF send
<1>8. prefilters \in Seq(Filters) /\ Len(prefilters) = Len(added) /\ Len(added) \in Nat
  BY <1>2, ReverseOf
<1>9. SendShape(send)
  BY <1>2, <1>5, <1>6, <1>7, <1>8 DEF SendShape, Steps
<1>10. BeganInv(send)
  <2>1. SubSeq(added, 1, Len(added)) = added
    BY <1>2, SubSeqFull
  <2>2. send.began = Delivery!Reverse(added) /\ send.count = Len(added)
    BY <1>2, <1>7, <1>8
  <2>3. SubSeq(added, 1, send.count) = added
    BY <2>1, <2>2
  <2> QED
    <3>1. send.began = Delivery!Reverse(SubSeq(added, 1, send.count))
      BY <2>2, <2>3, Zenon
    <3>2. send.count <= Len(added)
      BY <2>2, <1>8
    <3> QED
      BY <3>1, <3>2 DEF BeganInv
<1>11. Starts(store, send.loaded) /\ Starts(send.ran, send.began)
  BY <1>2, <1>7, <1>8 DEF Starts
<1>12. ASSUME send.loaded # <<>>
       PROVE  SendInv(Delivery!SendReports(send))
  <2>1. Delivery!SendReports(send) = Delivery!Pipeline(send, store, 1)
    BY <1>7, <1>12 DEF Delivery!SendReports
  <2>2. SendInv(Delivery!Pipeline(send, store, 1))
    <3>1. 1 <= send.count + 1 /\ Len(send.ran) = 1 - 1
      BY <1>7, <1>8
    <3>2. /\ DeliveryShape /\ store \in Seq(Reports) /\ 1 \in Nat
          /\ ~send.completed /\ send.began = prefilters /\ Distinct(send.loaded)
      BY <1>2, <1>7 DEF DeliveryInv, Numbered
    <3> QED
      BY <3>1, <3>2, <1>9, <1>10, <1>11, PipelineGoesOn, SMTT(30)
  <2> QED
    BY <2>1, <2>2
<1>13. SendInv(Delivery!SendReports(send))
  <2>1. CASE send.loaded = <<>>
    <3> DEFINE next == Delivery!SendReports(send)
    <3>1. next = [send EXCEPT !.at = "ended", !.completed = TRUE, !.result = <<>>]
      BY <2>1 DEF Delivery!SendReports, Delivery!Ended
    <3>2. next = [at |-> "ended", reports |-> send.reports, filter |-> send.filter,
               count |-> send.count, completed |-> TRUE, result |-> <<>>,
               answered |-> send.answered, loaded |-> send.loaded, ran |-> send.ran,
               began |-> send.began, disturbed |-> send.disturbed]
      BY <3>1, <1>9 DEF SendShape
    <3>3. /\ next.at = "ended" /\ next.reports = send.reports /\ next.filter = send.filter
          /\ next.count = send.count /\ next.completed = TRUE /\ next.result = <<>>
          /\ next.answered = send.answered /\ next.loaded = send.loaded /\ next.ran = send.ran
          /\ next.began = send.began /\ next.disturbed = send.disturbed
      BY <3>2
    <3> HIDE DEF next
    <3>4. SendShape(next)
      BY <3>2, <3>3, <1>9 DEF SendShape, Steps
    <3>5. BeganInv(next) /\ FiltersInv(next)
      BY <3>3, <2>1, <1>10, <1>11 DEF BeganInv, FiltersInv
    <3>6. Delivery!Combine(SubSeq(send.loaded, 1, 0)) = <<>>
      <4>1. SubSeq(send.loaded, 1, 0) = <<>>
        BY SubSeqEmpty
      <4> QED
        BY <4>1 DEF Delivery!Combine, Delivery!Passthrough
    <3>7. FilteredInv(next)
      <4>1. Len(send.loaded) = 0
        BY <2>1
      <4> QED
        BY <4>1, <3>3, <3>6, <2>1 DEF FilteredInv, Distinct
    <3> QED
      BY <3>4, <3>5, <3>7 DEF SendInv, next
  <2> QED
    BY <2>1, <1>12
<1>14. /\ queue' \in Seq(Delivery!Sends) /\ IsInjective(queue')
       /\ \A i \in DOMAIN queue' : queue'[i] # s /\ sends[queue'[i]].at = "queued"
  <2>1. /\ Tail(queue) \in Seq(Delivery!Sends) /\ DOMAIN Tail(queue) = 1 .. Len(queue) - 1
        /\ \A i \in DOMAIN Tail(queue) : i + 1 \in DOMAIN queue /\ Tail(queue)[i] = queue[i + 1]
    BY <1>1, <1>2
  <2>2. \A i, j \in DOMAIN Tail(queue) : i + 1 = j + 1 => i = j
    BY <2>1
  <2>3. \A i \in DOMAIN Tail(queue) : i + 1 # 1
    BY <2>1
  <2>4. IsInjective(Tail(queue))
    BY <2>1, <2>2, <1>2 DEF IsInjective
  <2>5. \A i \in DOMAIN Tail(queue) : Tail(queue)[i] # s
    BY <2>1, <2>3, <1>2, <1>3 DEF IsInjective
  <2> QED
    BY <2>1, <2>4, <2>5, <1>1, <1>2
<1>15. Delivery!Update(s, Delivery!SendReports(send))
  BY <1>1 DEF send
<1>16. store' \in Seq(Reports) /\ written' \in Nat /\ Numbered(store)'
  BY <1>1, <1>2 DEF Numbered, Distinct
<1> QED
  BY <1>1, <1>3, <1>13, <1>14, <1>15, <1>16, OneMoves

\* A filter has called back: with an error the delivery ends.
LEMMA FilterCallsBack ==
    ASSUME DeliveryInv, NEW s \in Delivery!Sends, Delivery!FilterCompletes(s)
    PROVE  DeliveryInv'
<1>0. PICK send : send = sends[s]
  OBVIOUS
<1>1. /\ send.at = "filter" /\ queue' = queue
      /\ added' = added /\ prefilters' = prefilters /\ store' = store /\ written' = written
      /\ \/ \E reports \in {send.reports, SubSeq(send.reports, 1, 1)} :
              Delivery!Update(s, Delivery!Pipeline(send, reports, send.filter + 1))
         \/ Delivery!Update(s, Delivery!Ended(send, FALSE, <<>>))
  BY <1>0 DEF Delivery!FilterCompletes, Delivery!filterVars, Delivery!storeVars
<1>2. /\ DeliveryShape /\ SendShape(send) /\ BeganInv(send) /\ FiltersInv(send)
      /\ FilteredInv(send)
  BY <1>0, OneSend
<1>3. ASSUME NEW next, Delivery!Update(s, next), SendInv(next)
      PROVE  DeliveryInv'
  <2>1. store' \in Seq(Reports) /\ written' \in Nat /\ Numbered(store)'
    BY <1>1, <1>2 DEF DeliveryShape, Numbered, Distinct
  <2>2. /\ queue \in Seq(Delivery!Sends) /\ IsInjective(queue)
        /\ \A i \in DOMAIN queue :
              IF queue[i] = s THEN next.at = "queued" ELSE sends[queue[i]].at = "queued"
    BY <1>0, <1>1, UnderWay
  <2> QED
    BY <1>1, <1>3, <2>1, <2>2, OneMoves
<1>4. ASSUME NEW reports \in {send.reports, SubSeq(send.reports, 1, 1)}
      PROVE  SendInv(Delivery!Pipeline(send, reports, send.filter + 1))
  <2>1. /\ send.reports \in Seq(Reports) /\ send.loaded \in Seq(Reports)
        /\ Starts(send.reports, send.loaded)
    BY <1>1, <1>2 DEF SendShape, FilteredInv
  <2>2. reports \in Seq(Reports) /\ Starts(reports, send.loaded)
    <3>1. CASE reports = send.reports
      BY <2>1, <3>1
    <3>2. CASE reports = SubSeq(send.reports, 1, 1) /\ send.reports = <<>>
      <4>1. reports = <<>>
        BY <3>2
      <4> QED
        BY <4>1, <2>1 DEF Starts
    <3>3. CASE reports = SubSeq(send.reports, 1, 1) /\ send.reports # <<>>
      <4>1. 1 \in 0 .. Len(send.reports) /\ 1 <= Len(send.loaded)
        BY <2>1, <3>3 DEF Starts
      <4>2. reports \in Seq(Reports) /\ Len(reports) = 1 /\ reports[1] = send.reports[1]
        BY <2>1, <3>3, <4>1, First
      <4>3. send.reports[1] = send.loaded[1]
        BY <2>1, <4>1 DEF Starts
      <4> QED
        BY <4>1, <4>2, <4>3 DEF Starts
    <3> QED
      BY <1>4, <3>1, <3>2, <3>3
  <2> DEFINE i == send.filter + 1
  <2>3. /\ i \in Nat /\ 1 <= i /\ i <= send.count + 1 /\ ~send.completed
        /\ Len(send.ran) = i - 1 /\ Distinct(send.loaded)
        /\ ~send.disturbed => send.began = prefilters /\ Starts(send.ran, send.began)
    BY <1>1, <1>2 DEF FiltersInv, FilteredInv, SendShape
  <2> HIDE DEF i
  <2>4. SendInv(Delivery!Pipeline(send, reports, i))
    BY <1>2, <2>2, <2>3, PipelineGoesOn
  <2> QED
    BY <2>4 DEF i
<1>5. SendInv(Delivery!Ended(send, FALSE, <<>>))
  <2> DEFINE next == Delivery!Ended(send, FALSE, <<>>)
  <2>1. next = [at |-> "ended", reports |-> send.reports, filter |-> send.filter,
               count |-> send.count, completed |-> FALSE, result |-> <<>>,
               answered |-> send.answered, loaded |-> send.loaded, ran |-> send.ran,
               began |-> send.began, disturbed |-> send.disturbed]
    <3>1. SendShape(send) /\ next = Delivery!Ended(send, FALSE, <<>>)
      BY <1>2
    <3> HIDE DEF next
    <3> QED
      BY <3>1, EndedIs
  <2> HIDE DEF next
  <2>2. /\ next.at = "ended" /\ next.reports = send.reports /\ next.filter = send.filter
        /\ next.count = send.count /\ next.completed = FALSE /\ next.result = <<>>
        /\ next.answered = send.answered /\ next.loaded = send.loaded /\ next.ran = send.ran
        /\ next.began = send.began /\ next.disturbed = send.disturbed
    BY <2>1
  <2>3. SendShape(next)
    BY <1>2, <2>1, <2>2 DEF SendShape, Steps
  <2>4. BeganInv(next) /\ FiltersInv(next) /\ FilteredInv(next)
    BY <1>2, <2>2 DEF BeganInv, FiltersInv, FilteredInv
  <2> QED
    BY <2>3, <2>4 DEF SendInv, next
<1> QED
  BY <1>1, <1>3, <1>4, <1>5

\* Deleting and answering change nothing of what was filtered.
LEMMA EndMoves ==
    ASSUME DeliveryInv, NEW s \in Delivery!Sends, NEW at \in {"answer", "done"}, NEW next,
           sends[s].at \in {"ended", "answer"}, queue' = queue,
           added' = added, prefilters' = prefilters, store' = <<>> \/ store' = store,
           written' = written, Delivery!Update(s, next), Moved(next, sends[s], at)
    PROVE  DeliveryInv'
<1>0. PICK send : send = sends[s]
  OBVIOUS
<1>1. /\ DeliveryShape /\ SendShape(send) /\ BeganInv(send) /\ FiltersInv(send)
      /\ FilteredInv(send) /\ send.at \in {"ended", "answer"}
  BY <1>0, OneSend
<1>2. SendShape(next) /\ next.at = at /\ Same(next, send)
  <2>1. at \in Steps /\ Moved(next, send, at)
    BY <1>0 DEF Steps
  <2> QED
    BY <2>1, <1>1, AtMoves
<1>3. BeganInv(next)
  BY <1>1, <1>2 DEF BeganInv, Same
<1>4. FiltersInv(next)
  BY <1>1, <1>2 DEF FiltersInv, Same
<1>5. FilteredInv(next)
  BY <1>1, <1>2 DEF FilteredInv, Same
<1>6. store' \in Seq(Reports) /\ written' \in Nat /\ Numbered(store)'
  <2>1. store \in Seq(Reports) /\ written \in Nat /\ Numbered(store)
    BY <1>1 DEF DeliveryShape
  <2>2. CASE store' = <<>>
    BY <2>1, <2>2 DEF Numbered, Distinct
  <2>3. CASE store' = store
    BY <2>1, <2>3 DEF Numbered, Distinct
  <2> QED
    BY <2>2, <2>3
<1>7. /\ queue \in Seq(Delivery!Sends) /\ IsInjective(queue)
      /\ \A i \in DOMAIN queue :
            IF queue[i] = s THEN next.at = "queued" ELSE sends[queue[i]].at = "queued"
  BY UnderWay
<1> QED
  BY <1>2, <1>3, <1>4, <1>5, <1>6, <1>7, OneMoves DEF SendInv

LEMMA DeliveryEnds ==
    ASSUME DeliveryInv, NEW s \in Delivery!Sends,
           Delivery!DeleteReports(s) \/ Delivery!Complete(s)
    PROVE  DeliveryInv'
<1>1. CASE Delivery!DeleteReports(s)
  <2>1. /\ sends[s].at = "ended" /\ queue' = queue
        /\ added' = added /\ prefilters' = prefilters /\ (store' = <<>> \/ store' = store)
        /\ written' = written /\ Delivery!Update(s, [sends[s] EXCEPT !.at = "answer"])
    BY <1>1 DEF Delivery!DeleteReports, Delivery!filterVars
  <2>2. PICK next, at : next = [sends[s] EXCEPT !.at = at] /\ at = "answer"
    OBVIOUS
  <2>3. Delivery!Update(s, next)
    BY <2>1, <2>2, Zenon
  <2>4. sends[s].at \in {"ended", "answer"} /\ at \in {"answer", "done"}
    BY <2>1, <2>2
  <2>5. Moved(next, sends[s], at)
    BY <2>2 DEF Moved
  <2> QED
    BY <2>1, <2>3, <2>4, <2>5, EndMoves
<1>2. CASE Delivery!Complete(s)
  <2>1. /\ sends[s].at = "answer" /\ queue' = queue
        /\ added' = added /\ prefilters' = prefilters /\ store' = store
        /\ written' = written
        /\ Delivery!Update(s, [sends[s] EXCEPT !.at = "done", !.answered = sends[s].answered + 1])
    BY <1>2 DEF Delivery!Complete, Delivery!filterVars, Delivery!storeVars
  <2>2. PICK next, at, n : /\ next = [sends[s] EXCEPT !.at = at, !.answered = n]
                           /\ n = sends[s].answered + 1 /\ at = "done"
    OBVIOUS
  <2>3. Delivery!Update(s, next)
    BY <2>1, <2>2, Zenon
  <2>4. sends[s].at \in {"ended", "answer"} /\ at \in {"answer", "done"}
    BY <2>1, <2>2
  <2>5. Moved(next, sends[s], at)
    BY <2>2, Zenon DEF Moved
  <2> QED
    BY <2>1, <2>3, <2>4, <2>5, EndMoves
<1> QED
  BY <1>1, <1>2

\* A filter that is added comes first, and disturbs the deliveries under way.
LEMMA FilterAdded ==
    ASSUME DeliveryInv, NEW f \in Filters, Delivery!AddPreFilter(f)
    PROVE  DeliveryInv'
<1>1. /\ prefilters' = <<f>> \o prefilters /\ added' = Append(added, f)
      /\ sends' = [s \in Delivery!Sends |->
                     [sends[s] EXCEPT !.disturbed = @ \/ sends[s].at = "filter"]]
      /\ store' = store /\ written' = written /\ queue' = queue
  BY DEF Delivery!AddPreFilter, Delivery!storeVars
<1>2. DeliveryShape
  BY DEF DeliveryInv
<1>3. /\ added \in Seq(Filters) /\ added' \in Seq(Filters) /\ Len(added') = Len(added) + 1
      /\ Len(added) \in Nat /\ prefilters' = Delivery!Reverse(added)'
      /\ \A i \in 1 .. Len(added) : added'[i] = added[i]
  <2>1. added \in Seq(Filters) /\ prefilters = Delivery!Reverse(added)
    BY <1>2 DEF DeliveryShape
  <2>2. Delivery!Reverse(Append(added, f)) = <<f>> \o Delivery!Reverse(added)
    BY <2>1, ReverseAppend
  <2> QED
    BY <1>1, <2>1, <2>2
<1>4. ASSUME NEW s \in Delivery!Sends
      PROVE  SendInv(sends[s])' /\ sends'[s].at = sends[s].at
  <2> DEFINE send == sends[s]
             next == [send EXCEPT !.disturbed = @ \/ send.at = "filter"]
             touched == send.disturbed \/ send.at = "filter"
  <2>1. sends'[s] = next
    BY <1>1
  <2>2. SendShape(send) /\ BeganInv(send) /\ FiltersInv(send) /\ FilteredInv(send)
    BY OneSend
  <2> HIDE DEF send
  <2>3. next = [at |-> send.at, reports |-> send.reports, filter |-> send.filter,
               count |-> send.count, completed |-> send.completed, result |-> send.result,
               answered |-> send.answered, loaded |-> send.loaded, ran |-> send.ran,
               began |-> send.began, disturbed |-> touched]
    BY <2>2 DEF SendShape
  <2>4. /\ next.at = send.at /\ next.reports = send.reports /\ next.filter = send.filter
        /\ next.count = send.count /\ next.completed = send.completed
        /\ next.result = send.result /\ next.answered = send.answered
        /\ next.loaded = send.loaded /\ next.ran = send.ran /\ next.began = send.began
        /\ next.disturbed = touched
    BY <2>3
  <2>5. touched \in BOOLEAN /\ (~touched => ~send.disturbed /\ send.at # "filter")
    OBVIOUS
  <2> HIDE DEF next, touched
  <2>6. SendShape(next)
    BY <2>2, <2>3, <2>4, <2>5 DEF SendShape
  <2>7. send.count \in 0 .. Len(added) /\ SubSeq(added', 1, send.count) = SubSeq(added, 1, send.count)
    <3>1. send.count \in 0 .. Len(added) /\ send.count \in 0 .. Len(added')
      BY <1>3, <2>2 DEF SendShape, BeganInv
    <3>2. /\ SubSeq(added, 1, send.count) \in Seq(Filters)
          /\ Len(SubSeq(added, 1, send.count)) = send.count
          /\ \A i \in 1 .. send.count : SubSeq(added, 1, send.count)[i] = added[i]
      BY <1>3, <3>1, First
    <3>3. /\ SubSeq(added', 1, send.count) \in Seq(Filters)
          /\ Len(SubSeq(added', 1, send.count)) = send.count
          /\ \A i \in 1 .. send.count : SubSeq(added', 1, send.count)[i] = added'[i]
      BY <1>3, <3>1, First
    <3> QED
      BY <1>3, <3>1, <3>2, <3>3, SeqEqual
  <2>8. /\ next.count <= Len(added')
        /\ next.began = Delivery!Reverse(SubSeq(added', 1, next.count))
    <3>1. send.began = Delivery!Reverse(SubSeq(added, 1, send.count))
      BY <2>2 DEF BeganInv
    <3>2. next.began = Delivery!Reverse(SubSeq(added', 1, next.count))
      BY <3>1, <2>4, <2>7, Zenon
    <3>3. next.count <= Len(added')
      BY <1>3, <2>4, <2>7
    <3> QED
      BY <3>2, <3>3
  <2>9. /\ FilteredInv(next)
        /\ next.at \in {"none", "queued"} => next.ran = <<>> /\ ~next.disturbed
        /\ next.at \in {"none", "queued", "filter"} => ~next.completed
        /\ next.at = "filter" => next.filter \in 1 .. next.count /\ Len(next.ran) = next.filter
        /\ next.completed /\ next.loaded # <<>> => Len(next.ran) = next.count
        /\ ~next.disturbed => next.at # "filter"
        /\ ~next.disturbed => Starts(next.ran, next.began)
        /\ ~next.disturbed /\ next.completed /\ next.loaded # <<>> => next.ran = next.began
    <3>1. FilteredInv(next)
      BY <2>2, <2>4 DEF FilteredInv
    <3>2. next.at \in {"none", "queued"} => next.ran = <<>> /\ ~next.disturbed
      BY <2>2, <2>4 DEF FiltersInv, touched
    <3> QED
      BY <3>1, <3>2, <2>2, <2>4, <2>5 DEF FiltersInv
  <2>10. SendShape(sends[s])' /\ FilteredInv(sends[s])'
    BY <2>1, <2>6, <2>9 DEF SendShape, FilteredInv
  <2>11. BeganInv(sends[s])'
    BY <2>1, <2>8 DEF BeganInv
  <2>12. FiltersInv(sends[s])'
    BY <2>1, <2>9 DEF FiltersInv
  <2> QED
    BY <2>1, <2>4, <2>10, <2>11, <2>12 DEF SendInv, send
<1>5. \A s \in Delivery!Sends : SendShape(sends[s])'
  BY <1>4 DEF SendInv
<1>6. sends' = [s \in Delivery!Sends |-> sends'[s]]
  BY <1>1
<1>7. \A i \in DOMAIN queue' : sends'[queue'[i]].at = "queued"
  <2>1. queue \in Seq(Delivery!Sends) /\ \A i \in DOMAIN queue : sends[queue[i]].at = "queued"
    BY <1>2 DEF DeliveryShape
  <2>2. \A s \in Delivery!Sends : sends'[s].at = sends[s].at
    BY <1>4
  <2> QED
    BY <2>1, <2>2, <1>1
<1>8. DeliveryShape'
  BY <1>1, <1>2, <1>3, <1>5, <1>6, <1>7 DEF DeliveryShape, Numbered, Distinct
<1> QED
  BY <1>4, <1>8 DEF DeliveryInv

LEMMA ReportWritten ==
    ASSUME DeliveryInv, NEW kind \in Kinds, Delivery!WriteReport(kind)
    PROVE  DeliveryInv'
<1> DEFINE r == [number |-> written', version |-> kind.version, error |-> kind.error]
<1>1. /\ written' = written + 1 /\ store' = Append(store, r)
      /\ prefilters' = prefilters /\ added' = added /\ sends' = sends /\ queue' = queue
  BY DEF Delivery!WriteReport, Delivery!filterVars
<1>2. /\ DeliveryShape /\ written \in Nat /\ written' \in Nat /\ store \in Seq(Reports)
      /\ Numbered(store)
  <2>1. DeliveryShape
    BY DEF DeliveryInv
  <2>2. written \in Nat /\ store \in Seq(Reports) /\ Numbered(store)
    BY <2>1 DEF DeliveryShape
  <2> QED
    BY <2>1, <2>2, <1>1
<1>3. r \in Reports /\ r.number = written + 1
  <2>1. \E n \in Nat, k \in Kinds : r = [number |-> n, version |-> k.version, error |-> k.error]
    BY <1>2, Zenon
  <2>2. r.number = written'
    OBVIOUS
  <2>3. r \in Reports
    BY <2>1 DEF Reports
  <2> QED
    BY <2>2, <2>3, <1>1
<1> HIDE DEF r
<1>4. /\ store' \in Seq(Reports) /\ DOMAIN store' = DOMAIN store \cup {Len(store) + 1}
      /\ store'[Len(store) + 1] = r /\ \A i \in DOMAIN store : store'[i] = store[i]
  BY <1>1, <1>2, <1>3
<1>9. Numbered(store)'
  <2>1. \A i \in DOMAIN store : store[i].number <= written /\ store[i].number \in Nat
    <3>1. \A i \in DOMAIN store : store[i] \in Reports
      BY <1>2
    <3> QED
      BY <3>1, <1>2, ReportsAre DEF Numbered
  <2>2. \A i \in DOMAIN store' : store'[i].number <= written + 1
    BY <2>1, <1>2, <1>3, <1>4
  <2>3. Distinct(store')
    BY <2>1, <1>2, <1>3, <1>4 DEF Numbered, Distinct
  <2> QED
    BY <2>2, <2>3, <1>1 DEF Numbered, Distinct
<1>5. DeliveryShape'
  BY <1>1, <1>2, <1>4, <1>9 DEF DeliveryShape, SendShape
<1>6. \A s \in Delivery!Sends : SendInv(sends[s])'
  BY <1>1 DEF DeliveryInv, SendInv, SendShape, BeganInv, FiltersInv, FilteredInv
<1> QED
  BY <1>5, <1>6 DEF DeliveryInv

LEMMA DeliveryInvInit == Delivery!Init => DeliveryInv
<1> SUFFICES ASSUME Delivery!Init
             PROVE  DeliveryInv
  OBVIOUS
<1>1. /\ prefilters = <<>> /\ added = <<>> /\ store = <<>> /\ written = 0 /\ queue = <<>>
      /\ sends = [s \in Delivery!Sends |-> Delivery!NoSend]
  BY DEF Delivery!Init
<1>2. \A s \in Delivery!Sends : sends[s] = Delivery!NoSend
  BY <1>1
<1>3. DeliveryShape
  BY <1>1, <1>2, NothingSent
     DEF DeliveryShape, IsInjective, Delivery!Reverse, Numbered, Distinct
<1>4. BeganInv(Delivery!NoSend)
  <2>1. SubSeq(added, 1, 0) = <<>> /\ Len(added) = 0
    BY <1>1, SubSeqEmpty
  <2> QED
    BY <2>1, NothingSent DEF BeganInv, Delivery!Reverse
<1>5. FiltersInv(Delivery!NoSend) /\ FilteredInv(Delivery!NoSend)
  BY NothingSent DEF FiltersInv, FilteredInv, Starts, Distinct
<1>6. SendInv(Delivery!NoSend)
  BY <1>4, <1>5, NothingSent DEF SendInv
<1> QED
  BY <1>2, <1>3, <1>6 DEF DeliveryInv

LEMMA DeliveryInvStep == DeliveryInv /\ [Delivery!Next]_Delivery!vars => DeliveryInv'
<1> SUFFICES ASSUME DeliveryInv, [Delivery!Next]_Delivery!vars
             PROVE  DeliveryInv'
  OBVIOUS
<1>1. ASSUME NEW s \in Delivery!Sends, Delivery!Start(s) \/ Delivery!Proceed(s)
      PROVE  DeliveryInv'
  BY <1>1, StartDelivery, FilterCallsBack, DeliveryEnds DEF Delivery!Proceed
<1>2. CASE Delivery!SendAllReports
  BY <1>2, BeginDelivery
<1>3. ASSUME NEW f \in Filters, Delivery!AddPreFilter(f)
      PROVE  DeliveryInv'
  BY <1>3, FilterAdded
<1>4. ASSUME NEW kind \in Kinds, Delivery!WriteReport(kind)
      PROVE  DeliveryInv'
  BY <1>4, ReportWritten
<1>5. CASE UNCHANGED Delivery!vars
  <2>1. /\ prefilters' = prefilters /\ added' = added /\ store' = store /\ written' = written
        /\ queue' = queue /\ sends' = sends
    BY <1>5 DEF Delivery!vars, Delivery!filterVars, Delivery!storeVars
  <2>2. DeliveryShape'
    BY <2>1 DEF DeliveryInv, DeliveryShape, SendShape, Numbered, Distinct
  <2>3. \A s \in Delivery!Sends : SendInv(sends[s])'
    BY <2>1 DEF DeliveryInv, SendInv, SendShape, BeganInv, FiltersInv, FilteredInv
  <2> QED
    BY <2>2, <2>3 DEF DeliveryInv
<1> QED
  BY <1>1, <1>2, <1>3, <1>4, <1>5 DEF Delivery!Next

LEMMA FiltersAreInTurn == DeliveryInv => Delivery!FiltersInTurn
<1> SUFFICES ASSUME DeliveryInv, NEW s \in Delivery!Sends, NEW send, send = sends[s]
             PROVE  /\ send.began = Delivery!Reverse(SubSeq(added, 1, send.count))
                    /\ send.completed /\ send.loaded # <<>> => Len(send.ran) = send.count
                    /\ ~send.disturbed /\ send.loaded # <<>> =>
                         /\ Delivery!IsPrefix(send.ran, send.began)
                         /\ send.completed => send.ran = send.began
  BY DEF Delivery!FiltersInTurn
<1>1. SendShape(send) /\ BeganInv(send) /\ FiltersInv(send)
  BY OneSend
<1>2. send.began = Delivery!Reverse(SubSeq(added, 1, send.count))
  BY <1>1 DEF BeganInv
<1>3. ASSUME ~send.disturbed, send.loaded # <<>>
      PROVE  Delivery!IsPrefix(send.ran, send.began)
  <2>1. send.ran \in Seq(Filters) /\ send.began \in Seq(Filters) /\ Starts(send.ran, send.began)
    BY <1>1, <1>3 DEF SendShape, FiltersInv
  <2>2. /\ send.ran = SubSeq(send.began, 1, Len(send.ran))
        /\ SubSeq(send.ran, 1, Len(send.ran)) = send.ran
    BY <2>1, StartIsFirst
  <2>3. Len(send.ran) <= Len(send.began)
    BY <2>1 DEF Starts
  <2>4. SubSeq(send.ran, 1, Len(send.ran)) = SubSeq(send.began, 1, Len(send.ran))
    BY <2>2, Zenon
  <2> QED
    BY <2>3, <2>4 DEF Delivery!IsPrefix
<1>4. /\ send.completed /\ send.loaded # <<>> => Len(send.ran) = send.count
      /\ ~send.disturbed /\ send.loaded # <<>> => (send.completed => send.ran = send.began)
  BY <1>1 DEF FiltersInv
<1> QED
  BY <1>2, <1>3, <1>4

LEMMA EntriesAreMatched == DeliveryInv => Delivery!EntriesMatch
<1> SUFFICES ASSUME DeliveryInv, NEW s \in Delivery!Sends, NEW send, send = sends[s],
                    send.completed, NEW i \in DOMAIN send.result
             PROVE  LET entry == send.result[i]
                    IN /\ entry.rawReport = send.loaded[i].number
                       /\ entry.errorReport =
                            (IF send.loaded[i].error THEN entry.rawReport ELSE 0)
                       /\ ("AppleFmt" \in DOMAIN entry /\ entry["AppleFmt"] = entry.rawReport)
                            <=> \A j \in 1 .. i : send.loaded[j].version = 3
  BY DEF Delivery!EntriesMatch
<1>1. SendShape(send) /\ FilteredInv(send)
  BY OneSend
<1>2. PICK n \in 0 .. Len(send.loaded) :
         send.result = Delivery!Combine(SubSeq(send.loaded, 1, n))
  BY <1>1 DEF FilteredInv
<1>3. PICK reports : reports = SubSeq(send.loaded, 1, n)
  OBVIOUS
<1>4. /\ send.loaded \in Seq(Reports) /\ reports \in Seq(Reports) /\ Len(reports) = n
      /\ \A k \in 1 .. n : reports[k] = send.loaded[k]
  BY <1>1, <1>3, First DEF SendShape
<1>5. Distinct(reports)
  BY <1>1, <1>4 DEF FilteredInv, Distinct
<1>6. i \in DOMAIN Delivery!Combine(reports) /\ send.result[i] = Delivery!Combine(reports)[i]
  BY <1>2, <1>3, Zenon
<1>7. PICK entry : entry = Delivery!Combine(reports)[i]
  OBVIOUS
<1>8. /\ i \in DOMAIN reports /\ entry.rawReport = reports[i].number
      /\ entry.errorReport = (IF reports[i].error THEN entry.rawReport ELSE 0)
      /\ ("AppleFmt" \in DOMAIN entry /\ entry["AppleFmt"] = entry.rawReport)
           <=> \A j \in 1 .. i : reports[j].version = 3
  BY <1>4, <1>5, <1>6, <1>7, CombinesOne
<1>9. i \in 1 .. n /\ \A j \in 1 .. i : j \in 1 .. n
  BY <1>4, <1>8
<1>10. reports[i] = send.loaded[i] /\ \A j \in 1 .. i : reports[j] = send.loaded[j]
  BY <1>4, <1>9
<1> QED
  BY <1>6, <1>7, <1>8, <1>10

\* Deliveries that go on at once, through filters that are added meanwhile: each
\* runs as many filters as it began with, and unless one is added while it runs
\* them, each of them once, the last added first; what it delivers in one place is
\* the raw report and the error of one report, and its Apple text as long as no
\* report of another version came before (filterReports of the pipeline and of
\* Combine).
THEOREM DeliveriesGoThroughFilters == Delivery!Spec => []DeliveriesAreExact
<1>1. DeliveryInv => DeliveriesAreExact
  BY FiltersAreInTurn, EntriesAreMatched DEF DeliveriesAreExact
<1> QED
  BY <1>1, DeliveryInvInit, DeliveryInvStep, PTL DEF Delivery!Spec
=============================================================================
