------------------------------- MODULE Pollers -------------------------------
(***************************************************************************)
(* The two implementations of Poller, given the same calls.  Channels and   *)
(* the loop's phases are EpollPoller's; every update, removal and poll goes *)
(* to both.  Each poller reports what it likes of what it watches; epoll's  *)
(* list is dispatched first, poll's after it.                              *)
(*                                                                         *)
(* Who removes channels: their owners once (event_loop.cc:40-42,            *)
(* acceptor.cc:25-26, ~TcpServer), and TcpServer once for every HandleClose *)
(* of a connection.  poll(2) reports a hang-up on a closed connection,      *)
(* whose mask is empty, in every pass until it is removed, and each report  *)
(* is another HandleClose.  On the server's own loop the removal comes      *)
(* before the next pass; a loop of the pool (pooled) asks the server's loop *)
(* for it and goes on polling meanwhile.  A removed channel may also be     *)
(* updated, by a SendInLoop that comes late.  Both are recorded in misuse,   *)
(* and end what is modelled.                                               *)
(***************************************************************************)
EXTENDS EpollPoller, Integers, Sequences, FiniteSetsExt

CONSTANT MaxCloses        \* bound: removals of connections under way at once

ASSUME MaxClosesAssumption == MaxCloses \in Nat

VARIABLES
  position, poll_list_, poll_maps, poll_active,   \* index_ and the rest of PollPoller
  pooled,                                         \* the loop is one of the pool's
  closing,     \* of each channel: RemoveConnection calls not yet carried out
  retired,     \* channels removed and not yet destroyed
  misuse       \* history: what was done to a removed channel

Poll == INSTANCE PollPoller WITH
  index_ <- position, channel_maps_ <- poll_maps, active_channels_ <- poll_active

pollvars == <<position, poll_list_, poll_maps, poll_active>>
owners   == <<pooled, closing, retired, misuse>>
allvars  == <<vars, pollvars, owners>>

BothInit ==
  /\ Init /\ Poll!Init
  /\ pooled \in BOOLEAN
  /\ closing = [c \in Channels |-> 0]
  /\ retired = {} /\ misuse = {}

Uses(c, how) == misuse' = IF c \in retired THEN misuse \cup {how} ELSE misuse

-----------------------------------------------------------------------------
(* Channels *)

BothConstruct(c, fd) ==
  /\ phase # "poll"
  /\ Construct(c, fd) /\ Poll!Construct(c)
  /\ UNCHANGED <<poll_active, owners>>

(* A functor that is to remove the channel keeps its connection. *)
BothDestroy(c) ==
  /\ phase # "poll"
  /\ c \in retired \/ position[c] = -1
  /\ closing[c] = 0
  /\ Destroy(c)
  /\ retired' = retired \ {c}
  /\ UNCHANGED <<pollvars, pooled, closing, misuse>>

BothUpdate(c) ==
  /\ c \notin retired
  /\ EnableRead(c) \/ DisableRead(c) \/ EnableWrite(c) \/ DisableWrite(c) \/ DisableAll(c)
  /\ Poll!UpdateChannel(c, events_'[c])
  /\ UNCHANGED <<poll_active, owners>>

(* A functor of SendInLoop that runs after ConnectionDestroyed. *)
LateEnableWrite(c) ==
  /\ c \in retired /\ phase = "user"
  /\ EnableWrite(c)
  /\ Poll!UpdateChannel(c, events_'[c])
  /\ Uses(c, "update")
  /\ UNCHANGED <<poll_active, pooled, closing, retired>>

BothRemove(c) ==
  /\ RemoveChannel(c) /\ Poll!RemoveChannel(c)
  /\ retired' = retired \cup {c}
  /\ Uses(c, "removal")
  /\ UNCHANGED <<poll_active, pooled>>

(* ~EventLoop, ~Acceptor, and ~TcpServer for a connection still in its map. *)
OwnerRemoves(c) ==
  /\ position[c] # -1 /\ c \notin retired /\ closing[c] = 0
  /\ BothRemove(c)
  /\ UNCHANGED closing

(* The functor that RemoveconnectionInLoop has queued. *)
ConnectionDestroyed(c) ==
  /\ closing[c] > 0
  /\ closing' = [closing EXCEPT ![c] = @ - 1]
  /\ BothRemove(c)

(* The same two calls when the removed channel's subscript lies beyond poll_list_. *)
OutOfList(c) ==
  /\ phase = "user" /\ c \in retired /\ ~Poll!InList(c)
  /\ phase' = "dead"
  /\ UNCHANGED <<chanvars, channel_maps_, kernel, polling, ctl_error, pollvars, owners>>

-----------------------------------------------------------------------------
(* The loop *)

(* Functors queued while events are handled run before the loop polls again.  They *)
(* include the removals on the server's own loop, which RunInLoop and QueueInLoop   *)
(* put there at once; a loop of the pool gets them when the server's loop has run.  *)
MayPoll_Early == TRUE
MayPoll == pooled \/ \A c \in Channels : closing[c] = 0

(* active_channels_ is cleared before Polling. *)
BothStartPoll ==
  /\ MayPoll
  /\ StartPoll
  /\ poll_active' = <<>>
  /\ UNCHANGED <<position, poll_list_, poll_maps, owners>>

BothPolling == Polling /\ Poll!Polling /\ UNCHANGED owners

(* poll fails, if only because a signal came: LOG_ERROR and then LOG_FATAL. *)
PollingFails ==
  /\ phase = "poll"
  /\ phase' = "dead"
  /\ UNCHANGED <<chanvars, channel_maps_, kernel, polling, ctl_error, pollvars, owners>>

EpollHandleEvent ==
  /\ \E c \in Channels : HandleEvent(c)
  /\ UNCHANGED <<pollvars, owners>>

PollHandleEvent ==
  /\ phase = "io" /\ active_channels_ = {} /\ poll_active # <<>>
  /\ poll_active' = Tail(poll_active)
  /\ UNCHANGED <<vars, position, poll_list_, poll_maps, owners>>

(* The event is the connection's end: TcpConnection::HandleClose, once per event. *)
HandleClose(c) ==
  /\ phase = "io" /\ active_channels_ = {} /\ poll_active # <<>> /\ c = Head(poll_active)
  /\ poll_active' = Tail(poll_active)
  /\ DisableAll(c) /\ Poll!UpdateChannel(c, {})
  /\ MapThenSumSet(LAMBDA d : closing[d], Channels) < MaxCloses
  /\ closing' = [closing EXCEPT ![c] = @ + 1]
  /\ Uses(c, "update")
  /\ UNCHANGED <<pooled, retired>>

BothDispatchDone ==
  /\ poll_active = <<>>
  /\ DispatchDone
  /\ UNCHANGED <<pollvars, owners>>

(* A behaviour is followed up to its first misuse, that step included: from then on  *)
(* poll_list_ and the channels no longer belong together, and nothing is claimed.    *)
BothNext ==
  /\ misuse = {}
  /\ \/ \E c \in Channels :
          \/ \E fd \in Fds : BothConstruct(c, fd)
          \/ BothDestroy(c) \/ BothUpdate(c) \/ LateEnableWrite(c)
          \/ OwnerRemoves(c) \/ ConnectionDestroyed(c) \/ OutOfList(c) \/ HandleClose(c)
     \/ BothStartPoll \/ BothPolling \/ PollingFails
     \/ EpollHandleEvent \/ PollHandleEvent \/ BothDispatchDone

BothSpec == BothInit /\ [][BothNext]_allvars

-----------------------------------------------------------------------------
(* Properties *)

(* In use: updated at least once and not yet removed. *)
Watched == {c \in Channels : Alive(c) /\ c \notin retired /\ position[c] # -1}

(* poll_poller.cc:10: index_ is the channel's subscript in poll_list_.  The entry  *)
(* there has the channel's descriptor and the events it asked for, no other entry  *)
(* is polled, and every channel about to be dispatched is one of them and comes up *)
(* once: through swaps, descriptor reuse, stale entries of channel_maps_, and      *)
(* hang-ups on closed connections, for as long as no removed channel is used.      *)
(* Nothing keeps a late SendInLoop from that, nor, on a loop of the pool, a second *)
(* removal; on the server's own loop none is removed twice, however many hang-ups. *)
IndexIsPosition ==
  /\ ~pooled => "removal" \notin misuse
  /\ misuse = {} =>
       /\ Poll!EntriesAreAtIndex(Watched)
       /\ Poll!EntriesAreWatched(Watched)
       /\ Poll!ActiveAreWatched(Watched)

(* After the same calls both pollers know the same channels, and what epoll watches *)
(* poll watches for the same events.  What poll watches beyond that are channels    *)
(* with an empty mask: epoll takes them off the kernel's list, poll_list_ keeps     *)
(* them, and poll(2) goes on reporting hang-ups on them until they are removed.     *)
PollKeepsDisabled ==
  misuse = {} =>
    \A c \in Channels : Alive(c) /\ c \notin retired =>
      /\ (position[c] # -1) <=> (index_[c] # "kNew")
      /\ index_[c] = "kAdded" => poll_list_[position[c] + 1].events = kevents[fd_[c]]
      /\ index_[c] = "kDeleted" => poll_list_[position[c] + 1].events = {}
=============================================================================
