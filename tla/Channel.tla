------------------------------- MODULE Channel -------------------------------
(***************************************************************************)
(* One Channel (src/src/Channel.cpp, src/include/Channel.hpp) together     *)
(* with what EpollPoller (src/src/EpollPoller.cpp) and the kernel know of  *)
(* it.  All of it is touched by the loop's thread only, so the operations  *)
(* are operators from the channel before to the channel after.             *)
(*                                                                         *)
(*   events   events_: what the owner wants to be told about               *)
(*   index    index_                                                       *)
(*   listed   the descriptor is a key of Poller::channels_                 *)
(*   watched  the kernel has the descriptor in the epoll set               *)
(*   mask     the events the kernel was last given for it                  *)
(*   revents  revents_: what the last epoll_wait reported                  *)
(***************************************************************************)

ReadEvent  == "IN"
WriteEvent == "OUT"

ChannelType == [events  : SUBSET {ReadEvent, WriteEvent},
                index   : {"NEW", "ADDED", "DELETED"},
                listed  : BOOLEAN,
                watched : BOOLEAN,
                mask    : SUBSET {ReadEvent, WriteEvent},
                revents : SUBSET {"IN", "OUT", "HUP", "ERR"}]

(* Channel::Channel *)
NewChannel == [events |-> {}, index |-> "NEW", listed |-> FALSE,
               watched |-> FALSE, mask |-> {}, revents |-> {}]

IsNoneEvent(ch) == ch.events = {}
IsWriting(ch)   == WriteEvent \in ch.events

(* EpollPoller::update.  A failing epoll_ctl is only logged: adding a      *)
(* watched descriptor or changing an unwatched one has no effect.          *)
EpollAdd(ch) == IF ch.watched THEN ch
                ELSE [ch EXCEPT !.watched = TRUE, !.mask = ch.events]
EpollMod(ch) == IF ch.watched THEN [ch EXCEPT !.mask = ch.events] ELSE ch
EpollDel(ch) == [ch EXCEPT !.watched = FALSE, !.mask = {}]

(* EpollPoller::updateChannel, through Channel::update *)
UpdateChannel(ch) ==
    CASE ch.index = "NEW"     -> EpollAdd([ch EXCEPT !.listed = TRUE, !.index = "ADDED"])
      [] ch.index = "DELETED" -> EpollAdd([ch EXCEPT !.index = "ADDED"])
      [] OTHER                -> IF IsNoneEvent(ch)
                                 THEN [EpollDel(ch) EXCEPT !.index = "DELETED"]
                                 ELSE EpollMod(ch)

(* Mutant: index_ is left as it was. *)
RemoveKeepsIndex(ch) ==
    LET unwatched == IF ch.index = "ADDED" THEN EpollDel(ch) ELSE ch
    IN  [unwatched EXCEPT !.listed = FALSE]

(* EpollPoller::removeChannel, through Channel::remove *)
RemoveChannel(ch) ==
    LET unwatched == IF ch.index = "ADDED" THEN EpollDel(ch) ELSE ch
    IN  [unwatched EXCEPT !.listed = FALSE, !.index = "NEW"]

(* Mutants: the change of events_ is not passed on, or not made. *)
EnableWithoutUpdate(ch) == [ch EXCEPT !.events = @ \union {WriteEvent}]
KeepWriting(ch)         == ch

(* The operations of Channel.hpp. *)
EnableReading(ch)  == UpdateChannel([ch EXCEPT !.events = @ \union {ReadEvent}])
EnableWriting(ch)  == UpdateChannel([ch EXCEPT !.events = @ \union {WriteEvent}])
DisableWriting(ch) == UpdateChannel([ch EXCEPT !.events = @ \ {WriteEvent}])
DisableAll(ch)     == UpdateChannel([ch EXCEPT !.events = {}])

(* What epoll_wait reports of a descriptor in the condition `ready': hang  *)
(* up and error are reported whatever the mask.                            *)
Reported(ch, ready) ==
    IF ch.watched THEN ready \intersect (ch.mask \union {"HUP", "ERR"}) ELSE {}

(* The channel and the kernel agree on what is watched, and index_ says    *)
(* whether the descriptor is in the epoll set and in channels_.            *)
Consistent(ch) == /\ ch.index = "ADDED" <=> ch.watched
                  /\ ch.index # "NEW" <=> ch.listed
                  /\ ch.watched => ch.mask = ch.events

(* The callbacks of Channel::handleEventWithGuard, in the order of its     *)
(* tests.                                                                  *)
Callbacks == {"close", "error", "read", "write"}

Due(revents) == {k \in Callbacks :
                    \/ k = "close" /\ "HUP" \in revents /\ "IN" \notin revents
                    \/ k = "error" /\ "ERR" \in revents
                    \/ k = "read"  /\ "IN" \in revents
                    \/ k = "write" /\ "OUT" \in revents}

(* The first of the callbacks that are still to be called. *)
IsNext(k, due) == /\ k \in due
                  /\ k = "error" => "close" \notin due
                  /\ k = "read"  => due \intersect {"close", "error"} = {}
                  /\ k = "write" => due = {"write"}
=============================================================================
