----------------------------- MODULE EpollPoller -----------------------------
(***************************************************************************)
(* Channels and the epoll poller of one EventLoop (src/src/channel.cc,     *)
(* src/src/epoll_poller.cc): the three records of which channel is watched *)
(* for what, namely a channel's own index_ and events_, the poller's       *)
(* channel_maps_, and the kernel's interest list, through every sequence   *)
(* of Enable/Disable/Remove, dispatch, destruction and descriptor reuse.   *)
(*                                                                         *)
(* All operations run on the loop thread.  phase says what it may do:      *)
(*   "user"  functors and timer callbacks, or code outside Loop(): channels *)
(*           may be updated and removed,                                   *)
(*   "poll"  in epoll_wait,                                                *)
(*   "io"    in the for loop over active_channels_: handlers update        *)
(*           channels; a removal is queued for later (tcp_server.cc:79),   *)
(*   "dead"  LOG_FATAL has aborted the process.                            *)
(***************************************************************************)
EXTENDS Naturals, FiniteSets

CONSTANTS
  Channels,        \* Channel objects (addresses, which may be reused)
  Fds,             \* file descriptors (which the kernel reuses)
  NoFd, NoChannel, \* "not constructed" and the null pointer
  kInitEventSize   \* initial size of the array epoll_wait fills

ASSUME NoFdAssumption == NoFd \notin Fds
ASSUME NoChannelAssumption == NoChannel \notin Channels
ASSUME FdsAssumption == IsFiniteSet(Fds)
ASSUME EventSizeAssumption == kInitEventSize \in Nat \ {0}

Bits == {"read", "write"}     \* EPOLLIN|EPOLLPRI and EPOLLOUT
Index == {"kNew", "kAdded", "kDeleted"}
Phases == {"user", "poll", "io", "dead"}

VARIABLES
  fd_, events_, index_,        \* of each channel
  channel_maps_,               \* poller: fd -> channel
  kchannel, kevents,           \* kernel: fd -> registered data.ptr and events
  phase, active_channels_,
  event_size,                  \* events_.size() of the poller
  ctl_error                    \* history: an epoll_ctl call has failed

chanvars == <<fd_, events_, index_>>
kernel   == <<kchannel, kevents>>
polling  == <<active_channels_, event_size>>
vars     == <<chanvars, channel_maps_, kernel, phase, polling, ctl_error>>

TypeOK ==
  /\ fd_ \in [Channels -> Fds \cup {NoFd}]
  /\ events_ \in [Channels -> SUBSET Bits]
  /\ index_ \in [Channels -> Index]
  /\ channel_maps_ \in [Fds -> Channels \cup {NoChannel}]
  /\ kchannel \in [Fds -> Channels \cup {NoChannel}]
  /\ kevents \in [Fds -> SUBSET Bits]
  /\ phase \in Phases
  /\ active_channels_ \subseteq Channels
  /\ event_size \in Nat \ {0}
  /\ ctl_error \in BOOLEAN

Alive(c) == fd_[c] # NoFd

Init ==
  /\ fd_ = [c \in Channels |-> NoFd]
  /\ events_ = [c \in Channels |-> {}]
  /\ index_ = [c \in Channels |-> "kNew"]
  /\ channel_maps_ = [fd \in Fds |-> NoChannel]
  /\ kchannel = [fd \in Fds |-> NoChannel]
  /\ kevents = [fd \in Fds |-> {}]
  /\ phase = "user"
  /\ active_channels_ = {}
  /\ event_size = kInitEventSize
  /\ ctl_error = FALSE

-----------------------------------------------------------------------------
(* A channel is constructed on a descriptor the kernel has just handed out, and *)
(* destroyed, its descriptor closed, after its owner has removed it from the    *)
(* poller (event_loop.cc:41, acceptor.cc:26, tcp_connection.cc:134).  Closing   *)
(* the last descriptor of a file takes it off the kernel's interest list.       *)

Construct(c, fd) ==
  /\ phase # "dead"
  /\ ~Alive(c)
  /\ \A d \in Channels : fd_[d] # fd
  /\ fd_' = [fd_ EXCEPT ![c] = fd]
  /\ events_' = [events_ EXCEPT ![c] = {}]
  /\ index_' = [index_ EXCEPT ![c] = "kNew"]
  /\ UNCHANGED <<channel_maps_, kernel, phase, polling, ctl_error>>

Destroy(c) ==
  /\ phase # "dead"
  /\ Alive(c) /\ index_[c] = "kNew"
  /\ fd_' = [fd_ EXCEPT ![c] = NoFd]
  /\ kchannel' = [kchannel EXCEPT ![fd_[c]] = NoChannel]
  /\ kevents' = [kevents EXCEPT ![fd_[c]] = {}]
  /\ UNCHANGED <<events_, index_, channel_maps_, phase, polling, ctl_error>>

-----------------------------------------------------------------------------
(* epoll_ctl fails with EEXIST or ENOENT; a failed ADD or MOD is fatal, a failed *)
(* DEL is logged.                                                               *)

Update(operation, c, events) ==
  LET fd == fd_[c]
      present == kchannel[fd] # NoChannel
      fails == IF operation = "ADD" THEN present ELSE ~present
  IN  /\ ctl_error' = (ctl_error \/ fails)
      /\ phase' = IF fails /\ operation # "DEL" THEN "dead" ELSE phase
      /\ IF fails
         THEN UNCHANGED kernel
         ELSE /\ kchannel' = [kchannel EXCEPT ![fd] = IF operation = "DEL" THEN NoChannel ELSE c]
              /\ kevents' = [kevents EXCEPT ![fd] = IF operation = "DEL" THEN {} ELSE events]

(* What a registered channel's update asks of epoll_ctl. *)
CtlOf_AlwaysMod(events) == "MOD"
CtlOf(events) == IF events = {} THEN "DEL" ELSE "MOD"

UpdateChannel(c, events) ==
  IF index_[c] \in {"kNew", "kDeleted"}
  THEN /\ channel_maps_' = IF index_[c] = "kNew"
                           THEN [channel_maps_ EXCEPT ![fd_[c]] = c] ELSE channel_maps_
       /\ index_' = [index_ EXCEPT ![c] = "kAdded"]
       /\ Update("ADD", c, events)
  ELSE /\ index_' = [index_ EXCEPT ![c] = IF events = {} THEN "kDeleted" ELSE "kAdded"]
       /\ Update(CtlOf(events), c, events)
       /\ UNCHANGED channel_maps_

(* Channel::Update: store the new mask and hand the channel to the poller. *)
SetEvents_UpdateFirst(c, events) ==
  /\ phase \in {"user", "io"}
  /\ Alive(c)
  /\ events_' = [events_ EXCEPT ![c] = events]
  /\ UpdateChannel(c, events_[c])
  /\ UNCHANGED <<fd_, polling>>

SetEvents(c, events) ==
  /\ phase \in {"user", "io"}
  /\ Alive(c)
  /\ events_' = [events_ EXCEPT ![c] = events]
  /\ UpdateChannel(c, events)
  /\ UNCHANGED <<fd_, polling>>

EnableRead(c)   == SetEvents(c, events_[c] \cup {"read"})
DisableRead(c)  == SetEvents(c, events_[c] \ {"read"})
EnableWrite(c)  == SetEvents(c, events_[c] \cup {"write"})
DisableWrite(c) == SetEvents(c, events_[c] \ {"write"})
DisableAll(c)   == SetEvents(c, {})

(* No handler removes a channel: TcpServer queues the removal as a functor. *)
MayRemove_InHandler == phase \in {"user", "io"}
MayRemove == phase = "user"

RemoveChannel(c) ==
  /\ MayRemove
  /\ Alive(c)
  /\ channel_maps_' = [channel_maps_ EXCEPT ![fd_[c]] = NoChannel]
  /\ IF index_[c] = "kAdded" THEN Update("DEL", c, events_[c])
                             ELSE UNCHANGED <<kernel, phase, ctl_error>>
  /\ index_' = [index_ EXCEPT ![c] = "kNew"]
  /\ UNCHANGED <<fd_, events_, polling>>

-----------------------------------------------------------------------------
(* The loop's passes over the poller. *)

StartPoll ==
  /\ phase = "user"
  /\ phase' = "poll"
  /\ active_channels_' = {}
  /\ UNCHANGED <<chanvars, channel_maps_, kernel, event_size, ctl_error>>

(* The descriptors epoll_wait has entries for, and the array's next size. *)
Reportable == {fd \in Fds : kchannel[fd] # NoChannel}

Grown_Always(n) == event_size * 2
Grown(n) == IF n = event_size THEN event_size * 2 ELSE event_size

(* The data.ptr of each reported event. *)
FillActiveChannels(R) == {kchannel[fd] : fd \in R}

(* epoll_wait reports at most event_size of the registered descriptors, each by *)
(* its data.ptr; hang-ups and errors are reported whatever the mask.            *)
Polling ==
  /\ phase = "poll"
  /\ phase' = "io"
  /\ \E R \in SUBSET Reportable :
       /\ Cardinality(R) <= event_size
       /\ active_channels_' = FillActiveChannels(R)
       /\ event_size' = Grown(Cardinality(R))
  /\ UNCHANGED <<chanvars, channel_maps_, kernel, ctl_error>>

(* Channel::HandleEvent: what the handlers do are further SetEvents steps. *)
HandleEvent(c) ==
  /\ phase = "io"
  /\ c \in active_channels_
  /\ active_channels_' = active_channels_ \ {c}
  /\ UNCHANGED <<chanvars, channel_maps_, kernel, phase, event_size, ctl_error>>

DispatchDone ==
  /\ phase = "io" /\ active_channels_ = {}
  /\ phase' = "user"
  /\ UNCHANGED <<chanvars, channel_maps_, kernel, polling, ctl_error>>

Next ==
  \/ \E c \in Channels :
       \/ \E fd \in Fds : Construct(c, fd)
       \/ Destroy(c)
       \/ EnableRead(c) \/ DisableRead(c) \/ EnableWrite(c) \/ DisableWrite(c) \/ DisableAll(c)
       \/ RemoveChannel(c)
       \/ HandleEvent(c)
  \/ StartPoll \/ Polling \/ DispatchDone

Spec == Init /\ [][Next]_vars

-----------------------------------------------------------------------------
(* Properties *)

(* Poller::HasChannel. *)
HasChannel(c) == channel_maps_[fd_[c]] = c

(* The comment at epoll_poller.cc:10-16 on index_: kNew, not in channel_maps_;  *)
(* kAdded, in the map and registered with epoll; kDeleted, in the map only.  It *)
(* relates three records kept by three parties and must survive descriptor      *)
(* reuse, repeated disabling and removal without disabling.                     *)
IndexMeaning ==
  \A c \in Channels : Alive(c) =>
    /\ (index_[c] # "kNew") <=> HasChannel(c)
    /\ (index_[c] = "kAdded") <=> (kchannel[fd_[c]] = c)

(* The kernel watches a channel for exactly the events the channel asked for. *)
KernelMask ==
  \A c \in Channels : Alive(c) /\ index_[c] = "kAdded" => kevents[fd_[c]] = events_[c]

(* No epoll_ctl call fails: UpdateChannel never adds twice and never modifies or *)
(* deletes what is not there, so its LOG_FATAL never aborts the process.         *)
CtlNeverFails == ~ctl_error

(* Every pointer in active_channels_ is to a live channel when its turn comes:   *)
(* no handler of the same pass can have destroyed it.                            *)
NoDanglingDispatch == \A c \in active_channels_ : Alive(c)

(* The array for epoll_wait doubles only while it can be filled: its size stays  *)
(* within twice the number of descriptors (or its initial size).                 *)
EventListBounded ==
  event_size <= kInitEventSize \/ event_size <= 2 * Cardinality(Fds)
=============================================================================
