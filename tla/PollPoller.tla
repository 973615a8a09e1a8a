------------------------------ MODULE PollPoller ------------------------------
(***************************************************************************)
(* The poll(2) poller (src/src/poll_poller.cc), which default_poller.cc     *)
(* chooses instead of EpollPoller in a USE_POLL build.  Here a channel's    *)
(* index_ is its position in poll_list_, which moves when another channel   *)
(* is removed: the last entry is swapped into the gap.  RemoveChannel        *)
(* leaves the removed channel's index_ and its entry in channel_maps_ as     *)
(* they were, and what a later call for it does is done to the entry that    *)
(* has come to that place.                                                  *)
(*                                                                         *)
(* This module is the class; who calls it, and when, is in Pollers.tla,      *)
(* which also says what becomes of active_channels_ while it is called.     *)
(***************************************************************************)
EXTENDS Integers, Sequences, SequencesExt

CONSTANTS Channels, Fds, NoFd, NoChannel    \* as in EpollPoller

VARIABLES
  fd_, events_,             \* of each channel, set by Channel
  index_,                   \* of each channel; counts from 0, -1 is new
  poll_list_, channel_maps_,
  active_channels_

poller == <<index_, poll_list_, channel_maps_>>

Init ==
  /\ index_ = [c \in Channels |-> -1]
  /\ poll_list_ = <<>>
  /\ channel_maps_ = [fd \in Fds |-> NoChannel]
  /\ active_channels_ = <<>>

(* The Channel constructor. *)
Construct(c) ==
  /\ index_' = [index_ EXCEPT ![c] = -1]
  /\ UNCHANGED <<poll_list_, channel_maps_>>

-----------------------------------------------------------------------------
(* The position a channel's entry gets when it is added at the end. *)
NewIndex == Len(poll_list_)

(* The entry of a channel that is in the list already. *)
Rewritten_UnlessEmpty(c, entry) ==
  IF entry.events = {} THEN poll_list_ ELSE [poll_list_ EXCEPT ![index_[c] + 1] = entry]
Rewritten(c, entry) == [poll_list_ EXCEPT ![index_[c] + 1] = entry]

(* A subscript beyond the list, which a removed channel may have, is undefined. *)
InList(c) == index_[c] < Len(poll_list_)

(* events is the channel's new mask; an empty one stays in the list. *)
UpdateChannel(c, events) ==
  LET entry == [fd |-> fd_[c], events |-> events] IN
  IF index_[c] < 0
  THEN /\ poll_list_' = Append(poll_list_, entry)
       /\ index_' = [index_ EXCEPT ![c] = NewIndex]
       /\ channel_maps_' = [channel_maps_ EXCEPT ![fd_[c]] = c]
  ELSE /\ InList(c)
       /\ poll_list_' = Rewritten(c, entry)
       /\ UNCHANGED <<index_, channel_maps_>>

(* What removing entry idx does to the list, and which channel then moves. *)
ListWithout(idx) == Front([poll_list_ EXCEPT ![idx + 1] = Last(poll_list_)])

Moved_None(idx) == index_
Moved(idx) ==
  IF idx = Len(poll_list_) - 1 THEN index_
  ELSE [index_ EXCEPT ![channel_maps_[Last(poll_list_).fd]] = idx]

RemoveChannel(c) ==
  /\ InList(c)
  /\ poll_list_' = ListWithout(index_[c])
  /\ index_' = Moved(index_[c])
  /\ UNCHANGED channel_maps_

(* The entries whose descriptor is found in channel_maps_. *)
Found == {i \in 1..Len(poll_list_) : channel_maps_[poll_list_[i].fd] # NoChannel}

(* The channels of the entries with an event that are found, given as their *)
(* positions.                                                               *)
FillActiveChannnels(s) == [k \in 1..Len(s) |-> channel_maps_[poll_list_[s[k]].fd]]

(* In the order of the list.  Hang-ups and errors are reported whatever the mask; *)
(* n = 0 is the timeout.                                                          *)
Polling ==
  /\ \E n \in 0..Len(poll_list_) : \E s \in [1..n -> Found] :
       /\ \A i, j \in 1..n : i < j => s[i] < s[j]
       /\ active_channels_' = FillActiveChannnels(s)
  /\ UNCHANGED poller

-----------------------------------------------------------------------------
(* The poller's records of the channels in use, given as the set watched.       *)

(* Each channel's entry, at its index_, has its descriptor and mask, *)
EntriesAreAtIndex(watched) ==
  \A c \in watched :
    /\ index_[c] \in 0..(Len(poll_list_) - 1)
    /\ poll_list_[index_[c] + 1] = [fd |-> fd_[c], events |-> events_[c]]

(* every entry leads through channel_maps_ to its channel, *)
EntriesAreWatched(watched) ==
  \A i \in 1..Len(poll_list_) :
    LET c == channel_maps_[poll_list_[i].fd] IN c \in watched /\ index_[c] = i - 1

(* and what is to be dispatched are such channels, each once. *)
ActiveAreWatched(watched) ==
  /\ \A k \in 1..Len(active_channels_) : active_channels_[k] \in watched
  /\ IsInjective(active_channels_)
=============================================================================
