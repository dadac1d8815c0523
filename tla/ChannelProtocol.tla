--------------------------- MODULE ChannelProtocol ---------------------------
(***************************************************************************)
(* What a session promises its client about one set of channels.  A        *)
(* request on a closed channel is answered by exactly one acknowledgement  *)
(* or error; an open channel ends with exactly one closing message; the    *)
(* server gives a channel id free again only after the client has seen it  *)
(* close, and nothing is ever sent on a closed channel.                    *)
(***************************************************************************)
CONSTANT Channels

VARIABLES view,  \* the client's view: "closed", "requested" or "open"
          busy   \* channel ids that the server has taken

Init == view = [c \in Channels |-> "closed"] /\ busy = {}

See(c, from, to) == view[c] = from /\ view' = [view EXCEPT ![c] = to]

Request(c) == See(c, "closed", "requested") /\ UNCHANGED busy

\* The server reserves the channel of a request.
Take(c) ==
  /\ view[c] = "requested" /\ c \notin busy
  /\ busy' = busy \cup {c}
  /\ UNCHANGED view

\* A request is refused, or completed at once.
Answer(c) == See(c, "requested", "closed") /\ busy' \in {busy, busy \ {c}}

Open(c) == c \in busy /\ See(c, "requested", "open") /\ UNCHANGED busy

\* Opened and closed within one step of the server.
Fail(c) == c \in busy /\ See(c, "requested", "closed") /\ UNCHANGED busy

Close(c) == c \in busy /\ See(c, "open", "closed") /\ UNCHANGED busy

\* Released channels have been closed towards the client; an id may be
\* requested again before the server has released it.
Release ==
  \E S \in SUBSET busy :
    /\ \A c \in S : view[c] # "open"
    /\ busy' = busy \ S
    /\ UNCHANGED view

Next ==
  \/ \E c \in Channels : Request(c) \/ Take(c) \/ Answer(c) \/ Open(c)
                         \/ Fail(c) \/ Close(c)
  \/ Release

Spec == Init /\ [][Next]_<<view, busy>>

=============================================================================
