---------------------------- MODULE PollersProofs ----------------------------
(***************************************************************************)
(* Proofs about EpollPoller.tla and Pollers.tla, for any number of channels *)
(* and descriptors, in three parts.                                         *)
(*                                                                         *)
(* EpollPoller on its own: the meaning of index_, the mask the kernel has,  *)
(* that no epoll_ctl fails, that no destroyed channel is dispatched, and    *)
(* the bound on the event array.  All but the last rest on one inductive    *)
(* invariant, PollerInv.                                                   *)
(*                                                                         *)
(* The same for both pollers side by side: every step of the composition is *)
(* a step of EpollPoller, leaves its variables alone, or ends the process    *)
(* between two passes.                                                     *)
(*                                                                         *)
(* PollPoller: index_ is a position in poll_list_, and the two pollers know *)
(* the same channels, until a removed channel is used.  The invariant,      *)
(* ListInv, speaks of the channels in use; of the others PollPoller keeps   *)
(* stale positions and map entries.  Its last part, CloseInv, follows the   *)
(* removals under way, and shows that on the server's own loop no channel   *)
(* is removed twice.                                                       *)
(***************************************************************************)
EXTENDS Pollers, FiniteSetTheorems, TLAPS

(* Two live channels have different descriptors. *)
UniqueFds ==
  \A c, d \in Channels : Alive(c) /\ fd_[c] = fd_[d] => c = d

(* What the map and the kernel record for fd is a live channel of fd. *)
Owned ==
  \A fd \in Fds :
    /\ channel_maps_[fd] # NoChannel => fd_[channel_maps_[fd]] = fd
    /\ kchannel[fd] # NoChannel => fd_[kchannel[fd]] = fd

(* A channel waiting for its turn is live and in the map; there is none while *)
(* channels may be removed.                                                   *)
ActiveInv ==
  /\ \A c \in active_channels_ : Alive(c) /\ index_[c] # "kNew"
  /\ phase # "io" => active_channels_ = {}

NoFailure == ~ctl_error

PollerInv ==
  /\ TypeOK /\ UniqueFds /\ Owned /\ IndexMeaning /\ KernelMask /\ ActiveInv /\ NoFailure

-----------------------------------------------------------------------------
(* Update(ADD) of an absent descriptor, and Update(MOD or DEL) of a present one, *)
(* succeed and do to the interest list what they say.                            *)
LEMMA UpdateSucceeds ==
  ASSUME NEW c, NEW events, NEW operation \in {"ADD", "MOD", "DEL"},
         NoFailure, Update(operation, c, events),
         (operation = "ADD") <=> (kchannel[fd_[c]] = NoChannel)
  PROVE  /\ ctl_error' = FALSE /\ phase' = phase
         /\ kchannel' = [kchannel EXCEPT ![fd_[c]] = IF operation = "DEL" THEN NoChannel ELSE c]
         /\ kevents' = [kevents EXCEPT ![fd_[c]] = IF operation = "DEL" THEN {} ELSE events]
  BY DEF Update, NoFailure

(* An update of a live channel keeps the invariant, whichever of ADD, MOD and *)
(* DEL it turns into.                                                         *)
LEMMA SetEventsStep ==
  ASSUME PollerInv, NEW c \in Channels, NEW events \in SUBSET Bits, SetEvents(c, events)
  PROVE  PollerInv'
  <1> DEFINE fd == fd_[c]
  <1>0. fd \in Fds /\ c # NoChannel /\ Alive(c)
    BY NoChannelAssumption DEF SetEvents, PollerInv, TypeOK, Alive
  <1>1. /\ events_' = [events_ EXCEPT ![c] = events]
        /\ UNCHANGED <<fd_, active_channels_, event_size>>
    BY DEF SetEvents, polling
  <1>2. CASE index_[c] # "kAdded"
    <2>1. index_[c] \in {"kNew", "kDeleted"}
      BY <1>2 DEF PollerInv, TypeOK, Index
    <2>2. Update("ADD", c, events) /\ index_' = [index_ EXCEPT ![c] = "kAdded"]
      BY <2>1 DEF SetEvents, UpdateChannel
    <2>3. channel_maps_' = [channel_maps_ EXCEPT ![fd] = c]
      <3>1. CASE index_[c] = "kNew"
        BY <3>1 DEF SetEvents, UpdateChannel
      <3>2. CASE index_[c] = "kDeleted"
        <4>1. channel_maps_[fd] = c
          BY <1>0, <3>2 DEF PollerInv, IndexMeaning, HasChannel
        <4>2. channel_maps_' = channel_maps_
          BY <3>2 DEF SetEvents, UpdateChannel
        <4> QED BY <1>0, <4>1, <4>2 DEF PollerInv, TypeOK
      <3> QED BY <2>1, <3>1, <3>2
    <2>4. kchannel[fd] = NoChannel
      BY <1>0, <1>2 DEF PollerInv, IndexMeaning, Owned, UniqueFds, TypeOK
    <2>5. /\ ctl_error' = FALSE /\ phase' = phase
          /\ kchannel' = [kchannel EXCEPT ![fd] = c]
          /\ kevents' = [kevents EXCEPT ![fd] = events]
      BY <2>2, <2>4, UpdateSucceeds DEF PollerInv
    <2>6. TypeOK'
      BY <1>0, <1>1, <2>2, <2>3, <2>5 DEF PollerInv, TypeOK, Index
    <2>7. UniqueFds' /\ Owned'
      BY <1>0, <1>1, <2>3, <2>5 DEF PollerInv, UniqueFds, Owned, Alive, TypeOK
    <2>8. IndexMeaning' /\ KernelMask'
      BY <1>0, <1>1, <2>2, <2>3, <2>5
         DEF PollerInv, IndexMeaning, KernelMask, HasChannel, UniqueFds, Alive, TypeOK
    <2>9. ActiveInv' /\ NoFailure'
      BY <1>0, <1>1, <2>2, <2>5 DEF PollerInv, ActiveInv, NoFailure, Alive, TypeOK
    <2> QED BY <2>6, <2>7, <2>8, <2>9 DEF PollerInv
  <1>3. CASE index_[c] = "kAdded"
    <2> DEFINE op == CtlOf(events)
    <2>1. /\ index_' = [index_ EXCEPT ![c] = IF events = {} THEN "kDeleted" ELSE "kAdded"]
          /\ Update(op, c, events)
          /\ channel_maps_' = channel_maps_
      BY <1>3 DEF SetEvents, UpdateChannel
    <2>2. kchannel[fd] = c /\ channel_maps_[fd] = c
      BY <1>0, <1>3 DEF PollerInv, IndexMeaning, HasChannel
    <2>3. /\ ctl_error' = FALSE /\ phase' = phase
          /\ kchannel' = [kchannel EXCEPT ![fd] = IF events = {} THEN NoChannel ELSE c]
          /\ kevents' = [kevents EXCEPT ![fd] = events]
      BY <1>0, <2>1, <2>2, UpdateSucceeds DEF PollerInv, CtlOf
    <2>4. TypeOK'
      BY <1>0, <1>1, <2>1, <2>3 DEF PollerInv, TypeOK, Index
    <2>5. UniqueFds' /\ Owned'
      BY <1>0, <1>1, <2>1, <2>3 DEF PollerInv, UniqueFds, Owned, Alive, TypeOK
    <2>6. IndexMeaning' /\ KernelMask'
      BY <1>0, <1>1, <2>1, <2>2, <2>3
         DEF PollerInv, IndexMeaning, KernelMask, HasChannel, UniqueFds, Alive, TypeOK
    <2>7. ActiveInv' /\ NoFailure'
      BY <1>0, <1>1, <2>1, <2>3 DEF PollerInv, ActiveInv, NoFailure, Alive, TypeOK
    <2> QED BY <2>4, <2>5, <2>6, <2>7 DEF PollerInv
  <1> QED BY <1>2, <1>3

(* Removing a channel, disabled first or not, keeps the invariant. *)
LEMMA RemoveStep ==
  ASSUME PollerInv, NEW c \in Channels, RemoveChannel(c)
  PROVE  PollerInv'
  <1> DEFINE fd == fd_[c]
  <1>0. fd \in Fds /\ c # NoChannel /\ Alive(c) /\ phase = "user"
    BY NoChannelAssumption DEF RemoveChannel, MayRemove, PollerInv, TypeOK, Alive
  <1>1. /\ channel_maps_' = [channel_maps_ EXCEPT ![fd] = NoChannel]
        /\ index_' = [index_ EXCEPT ![c] = "kNew"]
        /\ UNCHANGED <<fd_, events_, active_channels_, event_size>>
    BY DEF RemoveChannel, polling
  <1>2. /\ ctl_error' = FALSE /\ phase' = phase
        /\ kchannel' = [kchannel EXCEPT ![fd] = NoChannel]
        /\ \A g \in Fds : g # fd => kevents'[g] = kevents[g]
        /\ kevents' \in [Fds -> SUBSET Bits]
    <2>1. CASE index_[c] = "kAdded"
      <3>1. kchannel[fd] = c
        BY <1>0, <2>1 DEF PollerInv, IndexMeaning
      <3>2. Update("DEL", c, events_[c])
        BY <2>1 DEF RemoveChannel
      <3>3. /\ ctl_error' = FALSE /\ phase' = phase
            /\ kchannel' = [kchannel EXCEPT ![fd] = NoChannel]
            /\ kevents' = [kevents EXCEPT ![fd] = {}]
        BY <1>0, <3>1, <3>2, UpdateSucceeds DEF PollerInv
      <3> QED BY <1>0, <3>3 DEF PollerInv, TypeOK
    <2>2. CASE index_[c] # "kAdded"
      <3>1. kchannel[fd] = NoChannel
        BY <1>0, <2>2 DEF PollerInv, IndexMeaning, Owned, UniqueFds, TypeOK
      <3>2. UNCHANGED <<kchannel, kevents, phase, ctl_error>>
        BY <2>2 DEF RemoveChannel, kernel
      <3>3. ctl_error = FALSE
        BY DEF PollerInv, TypeOK, NoFailure
      <3> QED BY <1>0, <3>1, <3>2, <3>3 DEF PollerInv, TypeOK
    <2> QED BY <2>1, <2>2
  <1>3. TypeOK'
    BY <1>0, <1>1, <1>2 DEF PollerInv, TypeOK, Index, NoFailure
  <1>4. UniqueFds' /\ Owned'
    BY <1>0, <1>1, <1>2 DEF PollerInv, UniqueFds, Owned, Alive, TypeOK
  <1>5. IndexMeaning' /\ KernelMask'
    BY <1>0, <1>1, <1>2
       DEF PollerInv, IndexMeaning, KernelMask, HasChannel, UniqueFds, Alive, TypeOK
  <1>6. ActiveInv' /\ NoFailure'
    BY <1>0, <1>1, <1>2 DEF PollerInv, ActiveInv, NoFailure, Alive, TypeOK
  <1> QED BY <1>3, <1>4, <1>5, <1>6 DEF PollerInv

(* A descriptor's reuse and a channel's end keep the invariant: neither the map *)
(* nor the kernel holds anything for a descriptor no live channel has.          *)
LEMMA LifecycleStep ==
  ASSUME PollerInv, NEW c \in Channels,
         (\E fd \in Fds : Construct(c, fd)) \/ Destroy(c)
  PROVE  PollerInv'
  <1>1. ASSUME NEW fd \in Fds, Construct(c, fd) PROVE PollerInv'
    <2>0. c # NoChannel /\ fd # NoFd /\ c \notin active_channels_
      BY <1>1, NoChannelAssumption, NoFdAssumption DEF Construct, PollerInv, ActiveInv, Alive
    <2>1. /\ ~Alive(c) /\ \A d \in Channels : fd_[d] # fd
          /\ fd_' = [fd_ EXCEPT ![c] = fd]
          /\ events_' = [events_ EXCEPT ![c] = {}]
          /\ index_' = [index_ EXCEPT ![c] = "kNew"]
          /\ UNCHANGED <<channel_maps_, kchannel, kevents, phase, active_channels_,
                         event_size, ctl_error>>
      BY <1>1 DEF Construct, kernel, polling
    <2>2. channel_maps_[fd] = NoChannel /\ kchannel[fd] = NoChannel
      BY <2>1 DEF PollerInv, Owned, TypeOK
    <2>3. \A g \in Fds : channel_maps_[g] # c /\ kchannel[g] # c
      BY <2>0, <2>1, NoFdAssumption DEF PollerInv, Owned, Alive
    <2>4. TypeOK'
      BY <2>1 DEF PollerInv, TypeOK, Index
    <2>5. UniqueFds' /\ Owned'
      BY <2>1, <2>2, <2>3 DEF PollerInv, UniqueFds, Owned, Alive, TypeOK
    <2>6. IndexMeaning' /\ KernelMask'
      BY <2>0, <2>1, <2>2, <2>3 DEF PollerInv, IndexMeaning, KernelMask, HasChannel, Alive, TypeOK
    <2>7. ActiveInv' /\ NoFailure'
      BY <2>0, <2>1 DEF PollerInv, ActiveInv, NoFailure, Alive, TypeOK
    <2> QED BY <2>4, <2>5, <2>6, <2>7 DEF PollerInv
  <1>2. CASE Destroy(c)
    <2> DEFINE fd == fd_[c]
    <2>0. fd \in Fds /\ c # NoChannel /\ Alive(c) /\ c \notin active_channels_
      BY <1>2, NoChannelAssumption DEF Destroy, PollerInv, TypeOK, Alive, ActiveInv
    <2>1. /\ index_[c] = "kNew"
          /\ fd_' = [fd_ EXCEPT ![c] = NoFd]
          /\ kchannel' = [kchannel EXCEPT ![fd] = NoChannel]
          /\ kevents' = [kevents EXCEPT ![fd] = {}]
          /\ UNCHANGED <<events_, index_, channel_maps_, phase, active_channels_,
                         event_size, ctl_error>>
      BY <1>2 DEF Destroy, polling
    <2>2. \A g \in Fds : channel_maps_[g] # c /\ kchannel[g] # c
      BY <2>0, <2>1, NoFdAssumption DEF PollerInv, Owned, IndexMeaning, HasChannel
    <2>3. TypeOK'
      BY <2>0, <2>1 DEF PollerInv, TypeOK
    <2>4. UniqueFds'
      BY <2>1 DEF PollerInv, UniqueFds, Alive, TypeOK
    <2>5. Owned'
      BY <2>0, <2>1, <2>2 DEF PollerInv, Owned, TypeOK
    <2>6. IndexMeaning' /\ KernelMask'
      BY <2>0, <2>1 DEF PollerInv, IndexMeaning, KernelMask, HasChannel, UniqueFds, Alive, TypeOK
    <2>7. ActiveInv' /\ NoFailure'
      BY <2>0, <2>1 DEF PollerInv, ActiveInv, NoFailure, Alive, TypeOK
    <2> QED BY <2>3, <2>4, <2>5, <2>6, <2>7 DEF PollerInv
  <1> QED BY <1>1, <1>2

(* A pass over the poller keeps the invariant: what epoll_wait reports is what *)
(* is registered, and what is registered is alive.                             *)
LEMMA PassStep ==
  ASSUME PollerInv,
         StartPoll \/ Polling \/ DispatchDone \/ \E c \in Channels : HandleEvent(c)
  PROVE  PollerInv'
  <1>1. UNCHANGED <<fd_, events_, index_, channel_maps_, kchannel, kevents, ctl_error>>
    BY DEF StartPoll, Polling, DispatchDone, HandleEvent, chanvars, kernel
  <1>2. UniqueFds' /\ Owned' /\ IndexMeaning' /\ KernelMask'
    BY <1>1 DEF PollerInv, UniqueFds, Owned, IndexMeaning, KernelMask, HasChannel, Alive
  <1>3. phase' \in Phases /\ NoFailure'
    BY <1>1 DEF PollerInv, NoFailure, TypeOK, Phases, StartPoll, Polling, DispatchDone, HandleEvent
  <1>4. active_channels_' \subseteq Channels /\ event_size' \in Nat \ {0} /\ ActiveInv'
    <2>1. CASE StartPoll
      BY <2>1 DEF StartPoll, ActiveInv, PollerInv, TypeOK
    <2>2. CASE DispatchDone
      BY <1>1, <2>2 DEF DispatchDone, ActiveInv, PollerInv, TypeOK, polling
    <2>3. ASSUME NEW c \in Channels, HandleEvent(c)
          PROVE  active_channels_' \subseteq Channels /\ event_size' \in Nat \ {0} /\ ActiveInv'
      BY <1>1, <2>3 DEF HandleEvent, ActiveInv, PollerInv, TypeOK, Alive
    <2>4. CASE Polling
      <3>1. PICK R \in SUBSET {fd \in Fds : kchannel[fd] # NoChannel} :
              /\ active_channels_' = {kchannel[fd] : fd \in R}
              /\ event_size' = IF Cardinality(R) = event_size THEN event_size * 2 ELSE event_size
        BY <2>4 DEF Polling, Reportable, Grown, FillActiveChannels
      <3>2. event_size' \in Nat \ {0}
        BY <3>1 DEF PollerInv, TypeOK
      <3>3. \A fd \in R : /\ kchannel[fd] \in Channels /\ fd_[kchannel[fd]] = fd
                          /\ Alive(kchannel[fd]) /\ index_[kchannel[fd]] # "kNew"
        BY <3>1, NoFdAssumption DEF PollerInv, Owned, IndexMeaning, Alive, TypeOK
      <3>4. phase' = "io"
        BY <2>4 DEF Polling
      <3> QED BY <1>1, <3>1, <3>2, <3>3, <3>4 DEF ActiveInv, Alive
    <2> QED BY <2>1, <2>2, <2>3, <2>4
  <1>5. TypeOK'
    BY <1>1, <1>3, <1>4 DEF PollerInv, TypeOK
  <1> QED BY <1>2, <1>3, <1>4, <1>5 DEF PollerInv

-----------------------------------------------------------------------------
(* PollerInv holds initially. *)
LEMMA PollerInit == Init => PollerInv
  <1> SUFFICES ASSUME Init PROVE PollerInv
    OBVIOUS
  <1>1. TypeOK
    BY EventSizeAssumption DEF Init, TypeOK, Index, Phases
  <1>2. UniqueFds /\ Owned /\ IndexMeaning /\ KernelMask
    BY DEF Init, UniqueFds, Owned, IndexMeaning, KernelMask, Alive
  <1>3. ActiveInv /\ NoFailure
    BY DEF Init, ActiveInv, NoFailure
  <1> QED BY <1>1, <1>2, <1>3 DEF PollerInv

(* PollerInv is kept by every step. *)
LEMMA PollerStep ==
  ASSUME PollerInv, [Next]_vars
  PROVE  PollerInv'
  <1>1. ASSUME NEW c \in Channels,
               \/ EnableRead(c) \/ DisableRead(c) \/ EnableWrite(c)
               \/ DisableWrite(c) \/ DisableAll(c)
        PROVE  PollerInv'
    <2>1. events_[c] \subseteq Bits /\ {"read", "write"} \subseteq Bits
      BY DEF PollerInv, TypeOK, Bits
    <2>2. PICK events \in SUBSET Bits : SetEvents(c, events)
      BY <1>1, <2>1 DEF EnableRead, DisableRead, EnableWrite, DisableWrite, DisableAll
    <2> QED BY <2>2, SetEventsStep
  <1>2. CASE UNCHANGED vars
    BY <1>2 DEF vars, chanvars, kernel, polling, PollerInv, TypeOK, UniqueFds, Owned,
                IndexMeaning, KernelMask, HasChannel, ActiveInv, NoFailure, Alive
  <1> QED BY <1>1, <1>2, RemoveStep, LifecycleStep, PassStep DEF Next

(* The three records agree, the kernel has the mask the channel asked for, no    *)
(* epoll_ctl call of EpollPoller::Update fails and no destroyed channel is       *)
(* dispatched, through any sequence of channel operations.                       *)
THEOREM PollerCorrect ==
  Spec => [](TypeOK /\ IndexMeaning /\ KernelMask /\ CtlNeverFails /\ NoDanglingDispatch)
  <1>1. PollerInv =>
          TypeOK /\ IndexMeaning /\ KernelMask /\ CtlNeverFails /\ NoDanglingDispatch
    BY DEF PollerInv, CtlNeverFails, NoFailure, NoDanglingDispatch, ActiveInv
  <1>2. PollerInv /\ [Next]_vars => PollerInv'
    BY PollerStep
  <1> QED BY PollerInit, <1>1, <1>2, PTL DEF Spec

(* The event array doubles only when it was filled, with different descriptors. *)
LEMMA EventListStep ==
  ASSUME TypeOK, EventListBounded, [Next]_vars
  PROVE  EventListBounded'
  <1>1. CASE Polling
    <2>1. PICK R \in SUBSET Fds :
            event_size' = IF Cardinality(R) = event_size THEN event_size * 2 ELSE event_size
      BY <1>1 DEF Polling, Reportable, Grown
    <2>2. Cardinality(R) <= Cardinality(Fds) /\ Cardinality(Fds) \in Nat /\ Cardinality(R) \in Nat
      BY FdsAssumption, FS_Subset, FS_CardinalityType
    <2> QED BY <2>1, <2>2, EventSizeAssumption DEF EventListBounded, TypeOK
  <1>2. CASE event_size' = event_size
    BY <1>2 DEF EventListBounded
  <1>3. ~Polling => event_size' = event_size
    BY DEF Next, vars, polling, Construct, Destroy, EnableRead, DisableRead, EnableWrite,
           DisableWrite, DisableAll, SetEvents, RemoveChannel, HandleEvent, StartPoll,
           DispatchDone
  <1> QED BY <1>1, <1>2, <1>3

(* The event array of EpollPoller::Polling never outgrows twice the number of *)
(* descriptors.                                                               *)
THEOREM EventListIsBounded == Spec => []EventListBounded
  <1>1. Init => EventListBounded
    BY EventSizeAssumption DEF Init, EventListBounded
  <1>2. TypeOK /\ EventListBounded /\ [Next]_vars => EventListBounded'
    BY EventListStep
  <1> QED BY <1>1, <1>2, PollerCorrect, PTL DEF Spec

-----------------------------------------------------------------------------
(* Both pollers *)

(* The process ends because poll(2) failed or a subscript is out of range. *)
Ends == PollingFails \/ \E c \in Channels : OutOfList(c)

(* Its end changes nothing but the phase. *)
LEMMA EndsStep ==
  ASSUME PollerInv, Ends
  PROVE  PollerInv'
  <1>1. /\ phase # "io" /\ phase' = "dead"
        /\ UNCHANGED <<fd_, events_, index_, channel_maps_, kchannel, kevents,
                       active_channels_, event_size, ctl_error>>
    BY DEF Ends, PollingFails, OutOfList, chanvars, kernel, polling
  <1>2. TypeOK' /\ UniqueFds' /\ Owned' /\ NoFailure'
    BY <1>1 DEF PollerInv, TypeOK, Phases, UniqueFds, Owned, NoFailure, Alive
  <1>3. IndexMeaning' /\ KernelMask' /\ ActiveInv'
    BY <1>1 DEF PollerInv, IndexMeaning, KernelMask, HasChannel, ActiveInv, Alive
  <1> QED BY <1>2, <1>3 DEF PollerInv

(* Every other step is one of EpollPoller's, or none of its business. *)
LEMMA EpollSide ==
  ASSUME [BothNext]_allvars, ~Ends
  PROVE  [Next]_vars
  <1>1. ASSUME NEW c \in Channels, NEW fd \in Fds, BothConstruct(c, fd) PROVE Next
    BY <1>1 DEF BothConstruct, Next
  <1>2. ASSUME NEW c \in Channels, BothDestroy(c) \/ BothUpdate(c) \/ LateEnableWrite(c)
        PROVE  Next
    BY <1>2 DEF BothDestroy, BothUpdate, LateEnableWrite, Next
  <1>3. ASSUME NEW c \in Channels, OwnerRemoves(c) \/ ConnectionDestroyed(c) \/ HandleClose(c)
        PROVE  Next
    BY <1>3 DEF OwnerRemoves, ConnectionDestroyed, BothRemove, HandleClose, Next
  <1>4. CASE BothStartPoll \/ BothPolling \/ EpollHandleEvent \/ BothDispatchDone
    BY <1>4 DEF BothStartPoll, BothPolling, EpollHandleEvent, BothDispatchDone, Next
  <1>5. CASE PollHandleEvent \/ UNCHANGED allvars
    BY <1>5 DEF PollHandleEvent, allvars
  <1> QED BY <1>1, <1>2, <1>3, <1>4, <1>5 DEF BothNext, Ends

(* The epoll invariant holds of the composition. *)
LEMMA BothInvariant == BothSpec => []PollerInv
  <1>1. BothInit => PollerInv
    BY PollerInit DEF BothInit
  <1>2. PollerInv /\ [BothNext]_allvars => PollerInv'
    BY EndsStep, EpollSide, PollerStep
  <1> QED BY <1>1, <1>2, PTL DEF BothSpec

(* EpollPoller's index_ means what the comment at epoll_poller.cc:10-16 says, in  *)
(* the map and in the kernel, through descriptor reuse and repeated disabling.    *)
THEOREM IndexIsTrue == BothSpec => []IndexMeaning
  <1>1. PollerInv => IndexMeaning
    BY DEF PollerInv
  <1> QED BY <1>1, BothInvariant, PTL

(* The kernel watches a registered channel for the events it asked for with its   *)
(* last Enable or Disable call.                                                   *)
THEOREM KernelHasMask == BothSpec => []KernelMask
  <1>1. PollerInv => KernelMask
    BY DEF PollerInv
  <1> QED BY <1>1, BothInvariant, PTL

(* No epoll_ctl call of EpollPoller::Update fails, so none of its LOG_FATALs ends  *)
(* the process.                                                                   *)
THEOREM NoCtlFails == BothSpec => []CtlNeverFails
  <1>1. PollerInv => CtlNeverFails
    BY DEF PollerInv, NoFailure, CtlNeverFails
  <1> QED BY <1>1, BothInvariant, PTL

(* The loop's pass over active_channels_ calls no channel that a handler before it *)
(* has destroyed.                                                                  *)
THEOREM DispatchIsSafe == BothSpec => []NoDanglingDispatch
  <1>1. PollerInv => NoDanglingDispatch
    BY DEF PollerInv, ActiveInv, NoDanglingDispatch
  <1> QED BY <1>1, BothInvariant, PTL

(* The array epoll_wait fills stays within twice the number of descriptors. *)
THEOREM ArrayIsBounded == BothSpec => []EventListBounded
  <1>1. BothInit => EventListBounded
    BY EventSizeAssumption DEF BothInit, Init, EventListBounded
  <1>2. PollerInv /\ EventListBounded /\ [BothNext]_allvars => EventListBounded'
    <2> SUFFICES ASSUME PollerInv, EventListBounded, [BothNext]_allvars PROVE EventListBounded'
      OBVIOUS
    <2>1. CASE Ends
      BY <2>1 DEF Ends, PollingFails, OutOfList, polling, EventListBounded
    <2>2. CASE ~Ends
      BY <2>2, EpollSide, EventListStep DEF PollerInv
    <2> QED BY <2>1, <2>2
  <1> QED BY <1>1, <1>2, BothInvariant, PTL DEF BothSpec

-----------------------------------------------------------------------------
(* PollPoller.  Its list, map and positions, for the channels in use. *)

Entries == [fd : Fds, events : SUBSET Bits]

ListTypes ==
  /\ position \in [Channels -> Nat \cup {-1}]
  /\ poll_list_ \in Seq(Entries)
  /\ poll_maps \in [Fds -> Channels \cup {NoChannel}]
  /\ retired \subseteq Channels

(* The two pollers agree on which channels are in use. *)
InUse ==
  \A c \in Channels :
    /\ Alive(c) /\ c \notin retired => ((position[c] # -1) <=> (index_[c] # "kNew"))
    /\ Alive(c) /\ index_[c] = "kDeleted" => events_[c] = {}
    /\ c \in retired => Alive(c) /\ index_[c] = "kNew"

AtPosition ==
  \A c \in Watched :
    /\ position[c] + 1 \in 1..Len(poll_list_)
    /\ poll_list_[position[c] + 1].fd = fd_[c]
    /\ poll_list_[position[c] + 1].events = events_[c]

Leads ==
  \A i \in 1..Len(poll_list_) :
    /\ poll_maps[poll_list_[i].fd] \in Watched
    /\ position[poll_maps[poll_list_[i].fd]] = i - 1

Records == ListTypes /\ InUse /\ AtPosition /\ Leads

PassTypes == poll_active \in Seq(Channels) /\ closing \in [Channels -> Nat]

(* The channels to dispatch are in use, each waits once, and none waits while *)
(* channels may be removed.                                                   *)
PassInv ==
  /\ \A k \in 1..Len(poll_active) : poll_active[k] \in Watched
  /\ \A j, k \in 1..Len(poll_active) : poll_active[j] = poll_active[k] => j = k
  /\ phase = "user" => poll_active = <<>>

(* A connection being removed is in use or removed already.  On the server's own  *)
(* loop it is in use, is to be removed once, and no event of it waits: the loop    *)
(* does not poll before the removal.                                               *)
CloseInv ==
  \A c \in Channels : closing[c] > 0 =>
    /\ c \in Watched \cup retired
    /\ ~pooled => /\ closing[c] = 1 /\ c \in Watched /\ phase # "poll"
                  /\ \A k \in 1..Len(poll_active) : poll_active[k] # c

ListInv == Records /\ PassTypes /\ PassInv /\ CloseInv

(* What Records says of the channel of an entry. *)
LEMMA EntryFd ==
  ASSUME PollerInv, Records, NEW i \in 1..Len(poll_list_)
  PROVE  /\ poll_list_[i].fd \in Fds
         /\ fd_[poll_maps[poll_list_[i].fd]] = poll_list_[i].fd
         /\ poll_maps[poll_list_[i].fd] \in Channels
         /\ i \in Nat /\ Len(poll_list_) \in Nat
  <1>1. poll_list_[i] \in Entries /\ i \in Nat /\ Len(poll_list_) \in Nat
    BY DEF Records, ListTypes
  <1>2. poll_list_[i].fd \in Fds
    BY <1>1 DEF Entries
  <1> DEFINE c == poll_maps[poll_list_[i].fd]
  <1>3. c \in Watched /\ position[c] = i - 1
    BY DEF Records, Leads
  <1>4. c \in Channels
    BY <1>3 DEF Watched
  <1>5. poll_list_[position[c] + 1].fd = fd_[c] /\ position[c] + 1 = i
    BY <1>1, <1>3 DEF Records, AtPosition
  <1> QED BY <1>1, <1>2, <1>4, <1>5

(* An update of a channel in use or not yet used, in both pollers. *)
Updates(c, events) ==
  /\ c \notin retired /\ retired' = retired
  /\ SetEvents(c, events) /\ Poll!UpdateChannel(c, events)

(* The same from epoll's side. *)
LEMMA UpdateFacts ==
  ASSUME PollerInv, NEW c \in Channels, NEW events \in SUBSET Bits, Updates(c, events)
  PROVE  /\ events_' = [events_ EXCEPT ![c] = events] /\ events_'[c] = events
         /\ Alive(c) /\ c \notin retired /\ retired' = retired /\ fd_' = fd_
         /\ fd_[c] \in Fds /\ index_'[c] # "kNew"
         /\ index_'[c] = "kDeleted" => events = {}
         /\ \A d \in Channels : d # c => index_'[d] = index_[d]
         /\ phase \in {"user", "io"} /\ phase' \in {phase, "dead"}
         /\ Poll!UpdateChannel(c, events)
  <1>1. /\ events_' = [events_ EXCEPT ![c] = events] /\ events_'[c] = events
        /\ Alive(c) /\ fd_' = fd_ /\ fd_[c] \in Fds /\ phase \in {"user", "io"}
    BY DEF Updates, SetEvents, Alive, PollerInv, TypeOK
  <1>2. /\ index_'[c] # "kNew" /\ (index_'[c] = "kDeleted" => events = {})
        /\ \A d \in Channels : d # c => index_'[d] = index_[d]
    BY DEF Updates, SetEvents, UpdateChannel, PollerInv, TypeOK
  <1>3. phase' \in {phase, "dead"}
    BY DEF Updates, SetEvents, UpdateChannel, Update
  <1> QED BY <1>1, <1>2, <1>3 DEF Updates

(* UpdateChannel adds an entry at the end, or rewrites the one the channel has. *)
LEMMA RecordsUpdate ==
  ASSUME PollerInv, Records, NEW c \in Channels, NEW events \in SUBSET Bits, Updates(c, events)
  PROVE  Records' /\ Watched' = Watched \cup {c}
  <1>1. /\ events_' = [events_ EXCEPT ![c] = events] /\ events_'[c] = events
        /\ Alive(c) /\ c \notin retired /\ retired' = retired /\ fd_' = fd_
        /\ fd_[c] \in Fds /\ index_'[c] # "kNew"
        /\ index_'[c] = "kDeleted" => events = {}
        /\ \A d \in Channels : d # c => index_'[d] = index_[d]
        /\ Poll!UpdateChannel(c, events)
    BY UpdateFacts
  <1> DEFINE entry == [fd |-> fd_[c], events |-> events]
             n == Len(poll_list_)
  <1>2. entry \in Entries /\ entry.fd = fd_[c] /\ entry.events = events
    BY <1>1 DEF Entries
  <1>3. /\ n \in Nat /\ position \in [Channels -> Nat \cup {-1}]
        /\ poll_list_ \in Seq(Entries) /\ poll_maps \in [Fds -> Channels \cup {NoChannel}]
        /\ retired \subseteq Channels
        /\ events_ \in [Channels -> SUBSET Bits]
    BY DEF Records, ListTypes, PollerInv, TypeOK
  <1>4. \A d \in Channels : d # c => events_'[d] = events_[d]
    BY <1>1, <1>3
  <1>5. \A i \in 1..n : /\ poll_list_[i].fd \in Fds /\ poll_maps[poll_list_[i].fd] \in Channels
                        /\ fd_[poll_maps[poll_list_[i].fd]] = poll_list_[i].fd
    BY EntryFd
  <1>6. \A d \in Channels : fd_[d] = fd_[c] => d = c
    BY <1>1 DEF PollerInv, UniqueFds
  <1> HIDE DEF entry
  <1>7. CASE position[c] = -1
    <2>1. /\ poll_list_' = Append(poll_list_, entry)
          /\ position' = [position EXCEPT ![c] = n]
          /\ poll_maps' = [poll_maps EXCEPT ![fd_[c]] = c]
      BY <1>1, <1>7 DEF Poll!UpdateChannel, Poll!NewIndex, entry
    <2>2. /\ poll_list_' \in Seq(Entries) /\ Len(poll_list_') = n + 1 /\ poll_list_'[n + 1] = entry
          /\ \A i \in 1..n : poll_list_'[i] = poll_list_[i]
      BY <1>2, <1>3, <2>1
    <2>3. /\ position' \in [Channels -> Nat \cup {-1}] /\ position'[c] = n
          /\ \A d \in Channels : d # c => position'[d] = position[d]
      BY <1>3, <2>1
    <2>4. /\ poll_maps' \in [Fds -> Channels \cup {NoChannel}] /\ poll_maps'[fd_[c]] = c
          /\ \A g \in Fds : g # fd_[c] => poll_maps'[g] = poll_maps[g]
      BY <1>1, <1>3, <2>1
    <2>5. ListTypes'
      BY <1>1, <1>3, <2>1, <2>2, <2>3, <2>4 DEF ListTypes
    <2>6. c \notin Watched /\ Watched' = Watched \cup {c}
      BY <1>1, <1>3, <1>7, <2>3 DEF Watched, Alive
    <2>7. InUse'
      BY <1>1, <1>3, <1>4, <2>3 DEF Records, InUse, Alive
    <2>8. AtPosition'
      <3> SUFFICES ASSUME NEW d \in Watched'
                   PROVE  /\ position'[d] + 1 \in 1..Len(poll_list_')
                          /\ poll_list_'[position'[d] + 1].fd = fd_[d]
                          /\ poll_list_'[position'[d] + 1].events = events_'[d]
        BY <1>1 DEF AtPosition
      <3>1. CASE d = c
        BY <1>1, <1>2, <1>3, <2>2, <2>3, <3>1
      <3>2. CASE d # c
        <4>1. d \in Watched /\ d \in Channels
          BY <2>6, <3>2 DEF Watched
        <4>2. /\ position[d] + 1 \in 1..n /\ poll_list_[position[d] + 1].fd = fd_[d]
              /\ poll_list_[position[d] + 1].events = events_[d]
          BY <4>1 DEF Records, AtPosition
        <4> QED BY <1>3, <1>4, <2>2, <2>3, <3>2, <4>1, <4>2
      <3> QED BY <3>1, <3>2
    <2>9. Leads'
      <3> SUFFICES ASSUME NEW i \in 1..Len(poll_list_')
                   PROVE  /\ poll_maps'[poll_list_'[i].fd] \in Watched'
                          /\ position'[poll_maps'[poll_list_'[i].fd]] = i - 1
        BY DEF Leads
      <3>1. CASE i = n + 1
        BY <1>2, <1>3, <2>2, <2>3, <2>4, <2>6, <3>1
      <3>2. CASE i # n + 1
        <4>1. i \in 1..n /\ poll_list_'[i] = poll_list_[i]
          BY <1>3, <2>2, <3>2
        <4>2. poll_maps[poll_list_[i].fd] \in Watched /\ position[poll_maps[poll_list_[i].fd]] = i - 1
          BY <4>1 DEF Records, Leads
        <4>3. poll_list_[i].fd # fd_[c]
          BY <1>5, <1>6, <2>6, <4>1, <4>2
        <4> QED BY <1>5, <2>3, <2>4, <2>6, <4>1, <4>2, <4>3
      <3> QED BY <3>1, <3>2
    <2> QED BY <2>5, <2>6, <2>7, <2>8, <2>9 DEF Records
  <1>8. CASE position[c] # -1
    <2> DEFINE p == position[c] + 1
    <2>1. c \in Watched /\ p \in 1..n /\ position[c] \in Nat
      BY <1>1, <1>3, <1>8 DEF Watched, Records, AtPosition
    <2>2. /\ poll_list_' = [poll_list_ EXCEPT ![p] = entry]
          /\ UNCHANGED <<position, poll_maps>>
      BY <1>1, <2>1 DEF Poll!UpdateChannel, Poll!Rewritten, entry
    <2>3. /\ poll_list_' \in Seq(Entries) /\ Len(poll_list_') = n /\ poll_list_'[p] = entry
          /\ \A i \in 1..n : i # p => poll_list_'[i] = poll_list_[i]
      BY <1>2, <1>3, <2>1, <2>2
    <2>4. Watched' = Watched
      BY <1>1, <2>2 DEF Watched, Alive
    <2>5. ListTypes'
      BY <1>1, <1>3, <2>2, <2>3 DEF ListTypes
    <2>6. InUse'
      BY <1>1, <1>4, <1>8, <2>2 DEF Records, InUse, Alive
    <2>7. \A i \in 1..n : poll_list_'[i].fd = poll_list_[i].fd
      BY <1>2, <2>1, <2>3 DEF Records, AtPosition
    <2>8. AtPosition'
      <3> SUFFICES ASSUME NEW d \in Watched
                   PROVE  /\ position[d] + 1 \in 1..n
                          /\ poll_list_'[position[d] + 1].fd = fd_[d]
                          /\ poll_list_'[position[d] + 1].events = events_'[d]
        BY <1>1, <2>2, <2>3, <2>4 DEF AtPosition
      <3>1. /\ position[d] + 1 \in 1..n /\ poll_list_[position[d] + 1].fd = fd_[d]
            /\ poll_list_[position[d] + 1].events = events_[d] /\ d \in Channels
        BY DEF Records, AtPosition, Watched
      <3>2. CASE d = c
        BY <1>1, <1>2, <2>1, <2>3, <3>2
      <3>3. CASE d # c
        <4>1. position[d] + 1 # p
          BY <1>6, <2>1, <3>1, <3>3 DEF Records, AtPosition
        <4> QED BY <1>4, <2>3, <3>1, <3>3, <4>1
      <3> QED BY <3>2, <3>3
    <2>9. Leads'
      BY <2>2, <2>3, <2>4, <2>7 DEF Records, Leads
    <2> QED BY <2>1, <2>4, <2>5, <2>6, <2>8, <2>9 DEF Records
  <1> QED BY <1>7, <1>8

(* RemoveChannel moves the last entry into the gap, and the index_ of its channel *)
(* with it.                                                                       *)
LEMMA RecordsRemove ==
  ASSUME PollerInv, Records, NEW c \in Channels, c \notin retired, position[c] # -1,
         BothRemove(c)
  PROVE  Records' /\ Watched' = Watched \ {c} /\ c \in Watched
  <1> DEFINE n == Len(poll_list_)
             p == position[c] + 1
             last == poll_list_[n]
             m == poll_maps[last.fd]
  <1>1. /\ Alive(c) /\ c \notin retired /\ position[c] # -1
        /\ retired' = retired \cup {c} /\ UNCHANGED <<fd_, events_, poll_maps>>
        /\ poll_list_' = Poll!Front([poll_list_ EXCEPT ![p] = last])
        /\ position' = IF position[c] = n - 1 THEN position ELSE [position EXCEPT ![m] = position[c]]
    BY DEF BothRemove, RemoveChannel, MayRemove, Poll!RemoveChannel, Poll!ListWithout, Poll!Moved,
           Poll!Last
  <1>2. /\ index_'[c] = "kNew" /\ \A d \in Channels : d # c => index_'[d] = index_[d]
    BY DEF BothRemove, RemoveChannel, PollerInv, TypeOK
  <1>3. /\ n \in Nat /\ position \in [Channels -> Nat \cup {-1}]
        /\ poll_list_ \in Seq(Entries) /\ poll_maps \in [Fds -> Channels \cup {NoChannel}]
        /\ retired \subseteq Channels
    BY DEF Records, ListTypes
  <1>4. c \in Watched /\ p \in 1..n /\ position[c] \in Nat /\ n \in 1..n
    BY <1>1, <1>3 DEF Watched, Records, AtPosition
  <1>5. m \in Watched /\ m \in Channels /\ position[m] = n - 1
    BY <1>4, EntryFd DEF Records, Leads
  <1>6. /\ poll_list_' \in Seq(Entries) /\ Len(poll_list_') = n - 1
        /\ \A i \in 1..(n - 1) : poll_list_'[i] = IF i = p THEN last ELSE poll_list_[i]
    <2> DEFINE s == [poll_list_ EXCEPT ![p] = last]
    <2>1. last \in Entries
      BY <1>3, <1>4
    <2>2. /\ s \in Seq(Entries) /\ Len(s) = n
          /\ \A i \in 1..n : s[i] = IF i = p THEN last ELSE poll_list_[i]
      BY <1>3, <1>4, <2>1
    <2>3. poll_list_' = SubSeq(s, 1, n - 1)
      BY <1>1, <2>2 DEF Poll!Front
    <2> HIDE DEF s, last
    <2>4. SubSeq(s, 1, n - 1) \in Seq(Entries) /\ Len(SubSeq(s, 1, n - 1)) = n - 1
          /\ \A i \in 1..(n - 1) : SubSeq(s, 1, n - 1)[i] = s[i]
      BY <1>3, <1>4, <2>2
    <2> QED BY <1>3, <2>2, <2>3, <2>4
  <1> HIDE DEF last, n, m
  (* A channel still in use keeps its position, or was last and takes c's. *)
  <1>7. /\ position' \in [Channels -> Nat \cup {-1}]
        /\ \A d \in Channels : position'[d] =
             IF d = m /\ position[c] # n - 1 THEN position[c] ELSE position[d]
    BY <1>1, <1>3, <1>4, <1>5
  <1>8. Watched' = Watched \ {c}
    <2>1. \A d \in Channels : (position'[d] = -1) <=> (position[d] = -1)
      BY <1>3, <1>4, <1>5, <1>7
    <2> QED BY <1>1, <2>1 DEF Watched, Alive
  <1>9. \A d \in Watched : \A e \in Watched : position[d] = position[e] => d = e
    <2> SUFFICES ASSUME NEW d \in Watched, NEW e \in Watched, position[d] = position[e]
                 PROVE  d = e
      OBVIOUS
    <2>1. fd_[d] = fd_[e] /\ d \in Channels /\ e \in Channels /\ Alive(d)
      BY DEF Records, AtPosition, Watched
    <2> QED BY <2>1 DEF PollerInv, UniqueFds
  <1>10. ListTypes'
    BY <1>1, <1>3, <1>6, <1>7 DEF ListTypes
  <1>11. InUse'
    BY <1>1, <1>2, <1>3, <1>4, <1>5, <1>7 DEF Records, InUse, Alive, Watched
  <1>12. AtPosition'
    <2> SUFFICES ASSUME NEW d \in Watched, d # c
                 PROVE  /\ position'[d] + 1 \in 1..(n - 1)
                        /\ poll_list_'[position'[d] + 1].fd = fd_[d]
                        /\ poll_list_'[position'[d] + 1].events = events_[d]
      BY <1>1, <1>6, <1>8 DEF AtPosition
    <2>1. /\ position[d] + 1 \in 1..n /\ poll_list_[position[d] + 1].fd = fd_[d]
          /\ poll_list_[position[d] + 1].events = events_[d]
          /\ d \in Channels /\ position[d] \in Nat
      BY <1>3 DEF Records, AtPosition, Watched, n
    <2>2. position[d] # position[c]
      BY <1>4, <1>9
    <2>3. CASE d = m
      <3>1. position[d] = n - 1 /\ position'[d] = position[c] /\ position[d] + 1 = n
        BY <1>3, <1>5, <1>7, <2>1, <2>2, <2>3
      <3>2. p \in 1..(n - 1)
        <4>1. n \in Nat /\ position[c] \in Nat /\ position[c] + 1 \in 1..n /\ position[c] # n - 1
          BY <1>3, <1>4, <2>2, <3>1
        <4> QED BY <4>1
      <3>3. poll_list_'[p] = last
        BY <1>6, <3>2
      <3> QED BY <2>1, <3>1, <3>2, <3>3 DEF last
    <2>4. CASE d # m
      <3>1. position[d] # n - 1
        BY <1>5, <1>9, <2>4
      <3>2. position'[d] = position[d]
        BY <1>7, <2>1, <2>4
      <3>3. position[d] + 1 \in 1..(n - 1) /\ position[d] + 1 # p
        <4>1. n \in Nat /\ position[c] \in Nat /\ position[d] \in Nat
          BY <1>3, <1>4, <2>1
        <4> QED BY <2>1, <2>2, <3>1, <4>1
      <3>4. poll_list_'[position[d] + 1] = poll_list_[position[d] + 1]
        BY <1>6, <3>3
      <3> QED BY <2>1, <3>2, <3>3, <3>4
    <2> QED BY <2>3, <2>4
  <1>13. Leads'
    <2> SUFFICES ASSUME NEW i \in 1..(n - 1)
                 PROVE  /\ poll_maps[poll_list_'[i].fd] \in Watched \ {c}
                        /\ position'[poll_maps[poll_list_'[i].fd]] = i - 1
      BY <1>1, <1>6, <1>8 DEF Leads
    <2>1. i \in 1..n /\ i # n
      BY <1>3
    <2>2. poll_maps[poll_list_[i].fd] \in Watched /\ position[poll_maps[poll_list_[i].fd]] = i - 1
      BY <2>1 DEF Records, Leads, n
    <2>3. CASE i = p
      <3>1. poll_list_'[i] = last /\ position[c] # n - 1 /\ m # c
        BY <1>3, <1>4, <1>5, <1>6, <2>1, <2>3
      <3> QED BY <1>4, <1>5, <1>7, <2>3, <3>1 DEF m
    <2>4. CASE i # p
      <3>1. poll_list_'[i] = poll_list_[i]
        BY <1>6, <2>4
      <3> DEFINE d == poll_maps[poll_list_[i].fd]
      <3>2. d \in Channels /\ d # c /\ d # m
        BY <1>3, <1>4, <1>5, <2>1, <2>2, <2>4 DEF Watched
      <3> QED BY <1>7, <2>2, <3>1, <3>2
    <2> QED BY <2>3, <2>4
  <1> QED BY <1>4, <1>8, <1>10, <1>11, <1>12, <1>13 DEF Records

(* An update during a pass or between passes: what waits stays in use. *)
LEMMA ListUpdateStep ==
  ASSUME PollerInv, ListInv, NEW c \in Channels, BothUpdate(c)
  PROVE  ListInv'
  <1>1. events_[c] \subseteq Bits /\ {"read", "write"} \subseteq Bits /\ events_ \in [Channels -> SUBSET Bits]
    BY DEF PollerInv, TypeOK, Bits
  <1>2. PICK events \in SUBSET Bits : SetEvents(c, events)
    BY <1>1 DEF BothUpdate, EnableRead, DisableRead, EnableWrite, DisableWrite, DisableAll
  <1>3. events_'[c] = events
    BY <1>1, <1>2 DEF SetEvents
  <1>4. Updates(c, events) /\ UNCHANGED <<poll_active, pooled, closing, retired>>
    BY <1>2, <1>3 DEF BothUpdate, Updates, owners
  <1>5. Records' /\ Watched' = Watched \cup {c}
    BY <1>4, RecordsUpdate DEF ListInv
  <1>6. phase \in {"user", "io"} /\ phase' \in {phase, "dead"}
    BY <1>4, UpdateFacts
  <1>7. PassTypes' /\ PassInv'
    BY <1>4, <1>5, <1>6 DEF ListInv, PassTypes, PassInv
  <1>8. CloseInv'
    BY <1>4, <1>5, <1>6 DEF ListInv, CloseInv
  <1> QED BY <1>5, <1>7, <1>8 DEF ListInv

(* What is left of a pass after its first channel. *)
LEMMA PassTail ==
  ASSUME PassTypes, PassInv, poll_active # <<>>, poll_active' = Tail(poll_active)
  PROVE  /\ poll_active' \in Seq(Channels)
         /\ Head(poll_active) \in Watched
         /\ \A k \in 1..Len(poll_active') :
              /\ poll_active'[k] \in Watched /\ poll_active'[k] # Head(poll_active)
              /\ \E j \in 1..Len(poll_active) : poll_active'[k] = poll_active[j]
         /\ \A j, k \in 1..Len(poll_active') : poll_active'[j] = poll_active'[k] => j = k
         /\ \E k \in 1..Len(poll_active) : poll_active[k] = Head(poll_active)
  <1>1. /\ poll_active' \in Seq(Channels) /\ Len(poll_active') = Len(poll_active) - 1
        /\ Len(poll_active) \in Nat /\ 1 \in 1..Len(poll_active)
        /\ Head(poll_active) = poll_active[1]
        /\ \A k \in 1..Len(poll_active') : poll_active'[k] = poll_active[k + 1]
    BY DEF PassTypes
  <1>2. \A k \in 1..Len(poll_active') : k + 1 \in 1..Len(poll_active) /\ k \in Nat /\ k + 1 # 1
    BY <1>1
  <1>3. \A k \in 1..Len(poll_active') :
          poll_active'[k] \in Watched /\ poll_active'[k] # Head(poll_active)
    BY <1>1, <1>2 DEF PassInv
  <1>4. \A j, k \in 1..Len(poll_active') : poll_active'[j] = poll_active'[k] => j = k
    <2> SUFFICES ASSUME NEW j \in 1..Len(poll_active'), NEW k \in 1..Len(poll_active'),
                        poll_active'[j] = poll_active'[k]
                 PROVE  j = k
      OBVIOUS
    <2>1. j + 1 = k + 1
      BY <1>1, <1>2 DEF PassInv
    <2> QED BY <1>2, <2>1
  <1> QED BY <1>1, <1>2, <1>3, <1>4 DEF PassInv

(* A connection closes: one more removal is under way, of a channel in use.  On the *)
(* server's own loop it is the first, as the channel's event was still waiting.      *)
LEMMA ListCloseStep ==
  ASSUME PollerInv, ListInv, NEW c \in Channels, HandleClose(c)
  PROVE  ListInv'
  <1>1. /\ phase = "io" /\ poll_active # <<>> /\ c = Head(poll_active)
        /\ poll_active' = Tail(poll_active)
        /\ SetEvents(c, {}) /\ Poll!UpdateChannel(c, {})
        /\ closing' = [closing EXCEPT ![c] = @ + 1]
        /\ UNCHANGED <<pooled, retired>>
    BY DEF HandleClose, DisableAll
  <1>2. /\ poll_active' \in Seq(Channels) /\ c \in Watched
        /\ \A k \in 1..Len(poll_active') :
             /\ poll_active'[k] \in Watched /\ poll_active'[k] # c
             /\ \E j \in 1..Len(poll_active) : poll_active'[k] = poll_active[j]
        /\ \A j, k \in 1..Len(poll_active') : poll_active'[j] = poll_active'[k] => j = k
        /\ \E k \in 1..Len(poll_active) : poll_active[k] = c
    BY <1>1, PassTail DEF ListInv
  <1>3. {} \in SUBSET Bits /\ Updates(c, {})
    BY <1>1, <1>2 DEF Updates, Watched
  <1>4. Records' /\ Watched' = Watched
    BY <1>2, <1>3, RecordsUpdate DEF ListInv
  <1>5. phase' \in {"io", "dead"}
    BY <1>1, <1>3, UpdateFacts
  <1>6. /\ closing' \in [Channels -> Nat] /\ closing[c] \in Nat /\ closing'[c] = closing[c] + 1
        /\ \A d \in Channels : d # c => closing'[d] = closing[d]
    BY <1>1 DEF ListInv, PassTypes
  <1>7. ~pooled => ~(closing[c] > 0)
    BY <1>2 DEF ListInv, CloseInv
  <1>8. PassTypes' /\ PassInv'
    BY <1>2, <1>4, <1>5, <1>6 DEF PassTypes, PassInv
  <1>9. CloseInv'
    <2> SUFFICES ASSUME NEW d \in Channels, closing'[d] > 0
                 PROVE  /\ d \in Watched \cup retired
                        /\ ~pooled => /\ closing'[d] = 1 /\ d \in Watched
                                      /\ \A k \in 1..Len(poll_active') : poll_active'[k] # d
      BY <1>1, <1>4, <1>5 DEF CloseInv
    <2>1. CASE d = c
      BY <1>2, <1>6, <1>7, <2>1
    <2>2. CASE d # c
      <3>1. closing[d] > 0 /\ closing'[d] = closing[d]
        BY <1>6, <2>2
      <3> QED BY <1>2, <3>1 DEF ListInv, CloseInv
    <2> QED BY <2>1, <2>2
  <1> QED BY <1>4, <1>8, <1>9 DEF ListInv

(* The first removal of a channel. *)
LEMMA ListRemoveStep ==
  ASSUME PollerInv, ListInv, NEW c \in Channels, c \notin retired,
         OwnerRemoves(c) \/ ConnectionDestroyed(c)
  PROVE  ListInv'
  <1>1. BothRemove(c) /\ position[c] # -1
    BY DEF OwnerRemoves, ConnectionDestroyed, ListInv, CloseInv, Watched
  <1>2. Records' /\ Watched' = Watched \ {c} /\ c \in Watched
    BY <1>1, RecordsRemove DEF ListInv
  <1>3. /\ retired' = retired \cup {c} /\ UNCHANGED <<poll_active, pooled>>
        /\ phase = "user" /\ phase' = "user"
    BY <1>1 DEF BothRemove, RemoveChannel, MayRemove, Update
  <1>4. poll_active = <<>> /\ poll_active \in Seq(Channels) /\ closing \in [Channels -> Nat]
    BY <1>3 DEF ListInv, PassInv, PassTypes
  <1>5. /\ closing' \in [Channels -> Nat] /\ closing[c] \in Nat
        /\ closing'[c] > 0 => closing[c] = closing'[c] + 1
        /\ \A d \in Channels : d # c => closing'[d] = closing[d]
    <2>1. CASE OwnerRemoves(c)
      BY <1>4, <2>1 DEF OwnerRemoves
    <2>2. CASE ConnectionDestroyed(c)
      <3>1. closing[c] > 0 /\ closing[c] \in Nat /\ closing' = [closing EXCEPT ![c] = closing[c] - 1]
        BY <1>4, <2>2 DEF ConnectionDestroyed
      <3>2. closing[c] - 1 \in Nat
        BY <3>1
      <3>3. closing'[c] = closing[c] - 1
        BY <1>4, <3>1
      <3> QED BY <1>4, <3>1, <3>2, <3>3
    <2> QED BY <2>1, <2>2
  <1>6. PassTypes' /\ PassInv'
    BY <1>3, <1>4, <1>5 DEF PassTypes, PassInv
  <1>7. CloseInv'
    <2> SUFFICES ASSUME NEW d \in Channels, closing'[d] > 0
                 PROVE  /\ d \in (Watched \ {c}) \cup (retired \cup {c})
                        /\ ~pooled => closing'[d] = 1 /\ d \in Watched \ {c}
      BY <1>2, <1>3, <1>4 DEF CloseInv
    <2>1. CASE d = c
      <3>1. closing[c] \in Nat /\ closing[c] > 1
        BY <1>4, <1>5, <2>1
      <3> QED BY <2>1, <3>1 DEF ListInv, CloseInv
    <2>2. CASE d # c
      BY <1>5, <2>2 DEF ListInv, CloseInv
    <2> QED BY <2>1, <2>2
  <1> QED BY <1>2, <1>6, <1>7 DEF ListInv

(* A channel is constructed or destroyed while it is not in use. *)
LEMMA ListLifeStep ==
  ASSUME PollerInv, ListInv, NEW c \in Channels,
         (\E fd \in Fds : BothConstruct(c, fd)) \/ BothDestroy(c)
  PROVE  ListInv'
  <1>1. /\ UNCHANGED <<poll_list_, poll_maps, poll_active, phase>>
        /\ c \notin Watched /\ c \notin retired'
        /\ \A d \in Channels : d # c =>
             /\ fd_'[d] = fd_[d] /\ events_'[d] = events_[d] /\ index_'[d] = index_[d]
             /\ position'[d] = position[d] /\ (d \in retired' <=> d \in retired)
        /\ (Alive(c)' => position'[c] = -1 /\ index_'[c] = "kNew" /\ events_'[c] = {})
        /\ position' \in [Channels -> Nat \cup {-1}] /\ retired' \subseteq Channels
        /\ UNCHANGED <<pooled, closing>> /\ ~(closing[c] > 0)
    <2>0. /\ position \in [Channels -> Nat \cup {-1}] /\ retired \subseteq Channels
          /\ \A d \in retired : Alive(d)
          /\ fd_ \in [Channels -> Fds \cup {NoFd}] /\ events_ \in [Channels -> SUBSET Bits]
          /\ index_ \in [Channels -> Index]
      BY DEF ListInv, Records, ListTypes, InUse, PollerInv, TypeOK
    <2>1. ASSUME NEW fd \in Fds, BothConstruct(c, fd)
          PROVE  /\ fd_' = [fd_ EXCEPT ![c] = fd] /\ events_' = [events_ EXCEPT ![c] = {}]
                 /\ index_' = [index_ EXCEPT ![c] = "kNew"] /\ ~Alive(c)
                 /\ position' = [position EXCEPT ![c] = -1]
                 /\ UNCHANGED <<poll_list_, poll_maps, poll_active, phase, retired, pooled, closing>>
      BY <2>1 DEF BothConstruct, Construct, Poll!Construct, owners
    <2>2. CASE \E fd \in Fds : BothConstruct(c, fd)
      BY <2>0, <2>1, <2>2 DEF Watched, Alive, ListInv, CloseInv
    <2>3. CASE BothDestroy(c)
      <3>1. /\ fd_' = [fd_ EXCEPT ![c] = NoFd] /\ retired' = retired \ {c}
            /\ c \in retired \/ position[c] = -1
            /\ closing[c] = 0 /\ UNCHANGED <<pooled, closing>>
            /\ UNCHANGED <<events_, index_, position, poll_list_, poll_maps, poll_active, phase>>
        BY <2>3 DEF BothDestroy, Destroy, pollvars
      <3> QED BY <2>0, <3>1 DEF Watched, Alive
    <2> QED BY <2>2, <2>3
  <1>2. Watched' = Watched
    BY <1>1 DEF Watched, Alive
  <1>3. ListTypes' /\ PassTypes'
    BY <1>1 DEF ListInv, Records, ListTypes, PassTypes
  <1>4. InUse'
    BY <1>1 DEF ListInv, Records, InUse, Alive
  <1>5. \A d \in Watched : d \in Channels /\ d # c
    BY <1>1 DEF Watched
  <1>6. AtPosition' /\ Leads' /\ PassInv'
    BY <1>1, <1>2, <1>5 DEF ListInv, Records, AtPosition, Leads, PassInv
  <1>7. CloseInv'
    BY <1>1, <1>2 DEF ListInv, CloseInv
  <1> QED BY <1>3, <1>4, <1>6, <1>7 DEF ListInv, Records

(* A pass: the channels of different entries are different.  The server's own loop *)
(* starts it with no removal under way.                                            *)
LEMMA ListPassStep ==
  ASSUME PollerInv, ListInv,
         \/ BothStartPoll \/ BothPolling \/ Ends
         \/ EpollHandleEvent \/ PollHandleEvent \/ BothDispatchDone
  PROVE  ListInv'
  <1>0. poll_active \in Seq(Channels) /\ closing \in [Channels -> Nat]
    BY DEF ListInv, PassTypes
  <1>1. UNCHANGED <<fd_, events_, index_, position, poll_list_, poll_maps, retired>>
    BY DEF BothStartPoll, BothPolling, Ends, PollingFails, OutOfList, EpollHandleEvent,
           PollHandleEvent, BothDispatchDone, StartPoll, Polling, HandleEvent, DispatchDone,
           chanvars, vars, pollvars, owners, Poll!Polling, Poll!poller
  <1>2. Watched' = Watched
    BY <1>1 DEF Watched, Alive
  <1>3. Records'
    BY <1>1, <1>2 DEF ListInv, Records, ListTypes, InUse, AtPosition, Leads, Alive
  <1>4. poll_active' \in Seq(Channels) /\ closing' = closing /\ PassInv' /\ CloseInv'
    <2>1. CASE BothStartPoll
      <3>1. /\ phase' = "poll" /\ poll_active' = <<>> /\ UNCHANGED <<closing, pooled>>
            /\ ~pooled => \A c \in Channels : closing[c] = 0
        BY <2>1 DEF BothStartPoll, StartPoll, MayPoll, owners
      <3>2. PassInv'
        BY <3>1 DEF PassInv
      <3>3. CloseInv'
        BY <1>1, <1>2, <3>1 DEF ListInv, CloseInv
      <3> QED BY <3>1, <3>2, <3>3
    <2>2. CASE Ends \/ EpollHandleEvent \/ BothDispatchDone
      <3>1. /\ UNCHANGED <<poll_active, closing, pooled>> /\ phase' # "poll"
            /\ phase' = "user" => phase = "user" \/ poll_active = <<>>
        BY <2>2 DEF Ends, PollingFails, OutOfList, EpollHandleEvent, HandleEvent, BothDispatchDone,
                    DispatchDone, pollvars, owners
      <3>2. PassInv'
        BY <1>2, <3>1 DEF ListInv, PassInv
      <3>3. CloseInv'
        BY <1>1, <1>2, <3>1 DEF ListInv, CloseInv
      <3> QED BY <1>0, <3>1, <3>2, <3>3
    <2>3. CASE PollHandleEvent
      <3>1. /\ phase' = "io" /\ poll_active # <<>> /\ poll_active' = Tail(poll_active)
            /\ UNCHANGED <<closing, pooled>>
        BY <2>3 DEF PollHandleEvent, vars, owners
      <3>2. /\ poll_active' \in Seq(Channels)
            /\ \A k \in 1..Len(poll_active') :
                 /\ poll_active'[k] \in Watched
                 /\ \E j \in 1..Len(poll_active) : poll_active'[k] = poll_active[j]
            /\ \A j, k \in 1..Len(poll_active') : poll_active'[j] = poll_active'[k] => j = k
        BY <3>1, PassTail DEF ListInv
      <3>3. PassInv'
        BY <1>2, <3>1, <3>2 DEF PassInv
      <3>4. CloseInv'
        BY <1>1, <1>2, <3>1, <3>2 DEF ListInv, CloseInv
      <3> QED BY <3>1, <3>2, <3>3, <3>4
    <2>4. CASE BothPolling
      <3>0. PICK n \in 0..Len(poll_list_) : \E s \in [1..n -> Poll!Found] :
              /\ \A i, j \in 1..n : i < j => s[i] < s[j]
              /\ poll_active' = Poll!FillActiveChannnels(s)
        BY <2>4 DEF BothPolling, Poll!Polling
      <3>1. PICK s \in [1..n -> Poll!Found] :
              /\ \A i, j \in 1..n : i < j => s[i] < s[j]
              /\ poll_active' = Poll!FillActiveChannnels(s)
        BY <3>0
      <3>2. Len(s) = n /\ n \in Nat
        BY <3>1
      <3> DEFINE ch(i) == poll_maps[poll_list_[i].fd]
      <3>3. poll_active' = [k \in 1..n |-> ch(s[k])]
        BY <3>1, <3>2 DEF Poll!FillActiveChannnels
      <3>4. \A i \in 1..Len(poll_list_) : ch(i) \in Watched /\ ch(i) \in Channels /\ position[ch(i)] = i - 1
        BY EntryFd DEF ListInv, Records, Leads
      <3>5. \A k \in 1..n : s[k] \in 1..Len(poll_list_) /\ s[k] \in Nat
        BY <3>1 DEF Poll!Found
      <3> HIDE DEF ch
      <3>6. poll_active' \in Seq(Channels) /\ Len(poll_active') = n
        BY <3>2, <3>3, <3>4, <3>5
      <3>7. \A j, k \in 1..n : poll_active'[j] = poll_active'[k] => j = k
        <4> SUFFICES ASSUME NEW j \in 1..n, NEW k \in 1..n, poll_active'[j] = poll_active'[k]
                     PROVE  j = k
          OBVIOUS
        <4>1. s[j] - 1 = s[k] - 1
          BY <3>3, <3>4, <3>5
        <4>2. s[j] = s[k]
          BY <3>5, <4>1
        <4> QED BY <3>1, <3>2, <3>5, <4>2
      <3>8. phase' = "io"
        BY <2>4 DEF BothPolling, Polling
      <3>9. closing' = closing /\ pooled' = pooled /\ phase = "poll"
        BY <2>4 DEF BothPolling, Polling, owners
      <3>10. PassInv'
        BY <1>2, <3>3, <3>4, <3>5, <3>6, <3>7, <3>8 DEF PassInv
      <3>11. CloseInv'
        BY <1>1, <1>2, <3>8, <3>9 DEF ListInv, CloseInv
      <3> QED BY <3>6, <3>9, <3>10, <3>11
    <2> QED BY <2>1, <2>2, <2>3, <2>4
  <1>5. PassTypes'
    BY <1>0, <1>4 DEF PassTypes
  <1> QED BY <1>3, <1>4, <1>5 DEF ListInv

(* On the server's own loop a channel under removal has not been removed yet. *)
LEMMA RemovalIsFirst ==
  ASSUME ListInv, ~pooled, NEW c \in Channels, OwnerRemoves(c) \/ ConnectionDestroyed(c)
  PROVE  c \notin retired
  BY DEF OwnerRemoves, ConnectionDestroyed, ListInv, CloseInv, Watched

(* Until a removed channel is used the records are right, and on the server's own *)
(* loop it is not used by a removal.                                              *)
UseInv ==
  /\ misuse = {} => ListInv
  /\ ~pooled => "removal" \notin misuse

(* UseInv holds throughout. *)
LEMMA ListInvariant == BothSpec => []UseInv
  <1>1. BothInit => UseInv
    <2> SUFFICES ASSUME BothInit PROVE UseInv
      OBVIOUS
    <2>1. /\ position = [c \in Channels |-> -1] /\ poll_list_ = <<>> /\ poll_active = <<>>
          /\ poll_maps = [fd \in Fds |-> NoChannel] /\ retired = {} /\ misuse = {}
          /\ closing = [c \in Channels |-> 0]
          /\ \A c \in Channels : ~Alive(c)
      BY DEF BothInit, Init, Poll!Init, Alive
    <2>2. ListTypes /\ PassTypes
      BY <2>1 DEF ListTypes, PassTypes
    <2>3. InUse /\ AtPosition /\ Leads /\ PassInv /\ CloseInv
      BY <2>1 DEF InUse, AtPosition, Leads, PassInv, CloseInv, Watched
    <2> QED BY <2>1, <2>2, <2>3 DEF UseInv, ListInv, Records
  <1>2. PollerInv /\ UseInv /\ [BothNext]_allvars => UseInv'
    <2> SUFFICES ASSUME PollerInv, UseInv, [BothNext]_allvars PROVE UseInv'
      OBVIOUS
    <2>1. CASE UNCHANGED allvars
      <3>1. UNCHANGED <<fd_, events_, index_, phase, position, poll_list_, poll_maps, poll_active,
                        pooled, closing, retired, misuse>>
        BY <2>1 DEF allvars, vars, chanvars, pollvars, owners
      <3>2. Watched' = Watched
        BY <3>1 DEF Watched, Alive
      <3>3. ListInv => ListInv'
        BY <3>1, <3>2 DEF ListInv, Records, ListTypes, InUse, AtPosition, Leads, PassTypes,
                          PassInv, CloseInv, Alive
      <3> QED BY <3>1, <3>3 DEF UseInv
    <2>2. CASE BothNext
      <3>0. misuse = {} /\ ListInv
        BY <2>2 DEF BothNext, UseInv
      <3>1. ASSUME NEW c \in Channels,
                   \/ \E fd \in Fds : BothConstruct(c, fd)
                   \/ BothDestroy(c) \/ BothUpdate(c)
            PROVE  UseInv'
        <4>1. misuse' = misuse
          BY <3>1 DEF BothConstruct, BothDestroy, BothUpdate, owners
        <4>2. ListInv'
          BY <3>0, <3>1, ListLifeStep, ListUpdateStep
        <4> QED BY <3>0, <4>1, <4>2 DEF UseInv
      <3>2. ASSUME NEW c \in Channels, LateEnableWrite(c) PROVE UseInv'
        <4>1. misuse' = {"update"}
          BY <3>0, <3>2 DEF LateEnableWrite, Uses
        <4> QED BY <4>1 DEF UseInv
      <3>3. ASSUME NEW c \in Channels, HandleClose(c) PROVE UseInv'
        <4>1. misuse' \in {{}, {"update"}}
          BY <3>0, <3>3 DEF HandleClose, Uses
        <4>2. ListInv'
          BY <3>0, <3>3, ListCloseStep
        <4> QED BY <4>1, <4>2 DEF UseInv
      <3>4. ASSUME NEW c \in Channels, OwnerRemoves(c) \/ ConnectionDestroyed(c) PROVE UseInv'
        <4>1. misuse' = (IF c \in retired THEN {"removal"} ELSE {}) /\ pooled' = pooled
          BY <3>0, <3>4 DEF OwnerRemoves, ConnectionDestroyed, BothRemove, Uses
        <4>2. c \notin retired => ListInv'
          BY <3>0, <3>4, ListRemoveStep
        <4>3. ~pooled => c \notin retired
          BY <3>0, <3>4, RemovalIsFirst
        <4> QED BY <4>1, <4>2, <4>3 DEF UseInv
      <3>5. ASSUME \/ BothStartPoll \/ BothPolling \/ Ends
                   \/ EpollHandleEvent \/ PollHandleEvent \/ BothDispatchDone
            PROVE  UseInv'
        <4>1. misuse' = misuse
          BY <3>5 DEF BothStartPoll, BothPolling, Ends, PollingFails, OutOfList, EpollHandleEvent,
                      PollHandleEvent, BothDispatchDone, owners
        <4>2. ListInv'
          BY <3>0, <3>5, ListPassStep
        <4> QED BY <3>0, <4>1, <4>2 DEF UseInv
      <3> QED BY <2>2, <3>1, <3>2, <3>3, <3>4, <3>5 DEF BothNext, Ends
    <2> QED BY <2>1, <2>2
  <1> QED BY <1>1, <1>2, BothInvariant, PTL DEF BothSpec

(* PollPoller's index_ is the channel's subscript in poll_list_, the entry there is   *)
(* the channel's, no other entry is polled, and a pass dispatches channels in use,     *)
(* each once: through RemoveChannel's swaps, descriptor reuse, the entries it leaves   *)
(* in channel_maps_ and hang-ups on closed connections, until a removed channel is     *)
(* used.  On the server's own loop ConnectionDestroyed never does so.                  *)
THEOREM PositionsAreTrue == BothSpec => []IndexIsPosition
  <1>1. PollerInv /\ UseInv => IndexIsPosition
    <2> SUFFICES ASSUME PollerInv, ListInv
                 PROVE  /\ Poll!EntriesAreAtIndex(Watched) /\ Poll!EntriesAreWatched(Watched)
                        /\ Poll!ActiveAreWatched(Watched)
      BY DEF UseInv, IndexIsPosition
    <2>1. Poll!EntriesAreAtIndex(Watched)
      <3> SUFFICES ASSUME NEW c \in Watched
                   PROVE  /\ position[c] \in 0..(Len(poll_list_) - 1)
                          /\ poll_list_[position[c] + 1] = [fd |-> fd_[c], events |-> events_[c]]
        BY DEF Poll!EntriesAreAtIndex
      <3>1. /\ position[c] + 1 \in 1..Len(poll_list_) /\ position[c] \in Nat \cup {-1}
            /\ poll_list_ \in Seq(Entries)
            /\ poll_list_[position[c] + 1].fd = fd_[c]
            /\ poll_list_[position[c] + 1].events = events_[c]
        BY DEF ListInv, Records, ListTypes, AtPosition, Watched
      <3>2. poll_list_[position[c] + 1] \in Entries
        BY <3>1
      <3> QED BY <3>1, <3>2 DEF Entries
    <2>2. Poll!EntriesAreWatched(Watched)
      BY DEF ListInv, Records, Leads, Poll!EntriesAreWatched
    <2>3. Poll!ActiveAreWatched(Watched)
      <3>1. DOMAIN poll_active = 1..Len(poll_active)
        BY DEF ListInv, PassTypes
      <3> QED BY <3>1 DEF ListInv, PassInv, Poll!ActiveAreWatched, Poll!IsInjective
    <2> QED BY <2>1, <2>2, <2>3
  <1> QED BY <1>1, BothInvariant, ListInvariant, PTL

(* After the same calls the two pollers know the same channels and watch them for the  *)
(* same events; what poll(2) has beyond epoll's list are the disabled channels.  This  *)
(* too is so until a removed channel is used.                                          *)
THEOREM PollersAgree == BothSpec => []PollKeepsDisabled
  <1>1. PollerInv /\ UseInv => PollKeepsDisabled
    <2> SUFFICES ASSUME PollerInv, ListInv, NEW c \in Channels, Alive(c), c \notin retired
                 PROVE  /\ (position[c] # -1) <=> (index_[c] # "kNew")
                        /\ index_[c] = "kAdded" =>
                             poll_list_[position[c] + 1].events = kevents[fd_[c]]
                        /\ index_[c] = "kDeleted" => poll_list_[position[c] + 1].events = {}
      BY DEF UseInv, PollKeepsDisabled
    <2>1. /\ (position[c] # -1) <=> (index_[c] # "kNew")
          /\ index_[c] = "kDeleted" => events_[c] = {}
      BY DEF ListInv, Records, InUse
    <2>2. index_[c] # "kNew" => poll_list_[position[c] + 1].events = events_[c]
      BY <2>1 DEF ListInv, Records, AtPosition, Watched
    <2>3. index_[c] = "kAdded" => kevents[fd_[c]] = events_[c]
      BY DEF PollerInv, KernelMask
    <2> QED BY <2>1, <2>2, <2>3
  <1> QED BY <1>1, BothInvariant, ListInvariant, PTL
=============================================================================
