---------------------------- MODULE MessageBoard ----------------------------
(***************************************************************************)
(* What a reader of the Slack workspace is promised, whatever the workers  *)
(* do: messages are only posted and edited in place (README.md:7), a       *)
(* message stands for one alert or for a burst above the threshold, and    *)
(* keeps the alerts it was posted for and its place for ever.  An edit     *)
(* changes nothing but the statuses it shows.                              *)
(***************************************************************************)
EXTENDS Buckets

CONSTANT Groups

VARIABLE messages

Card == [group : Groups, channel : Channel, where : Channel, shows : [Alerts -> Status]]

Shown(card) == {a \in Alerts : card.shows[a] # Absent}

Init == messages = << >>

(* One message is added at the end.                                        *)
Post == /\ Len(messages') = Len(messages) + 1
        /\ messages' = Append(messages, messages'[Len(messages')])
        /\ messages'[Len(messages')] \in Card
        /\ LegalSize(Shown(messages'[Len(messages')]))

(* One message shows other statuses of the same alerts.                    *)
Edit == \E i \in DOMAIN messages :
          /\ messages' = [messages EXCEPT ![i].shows = messages'[i].shows]
          /\ messages'[i] \in Card
          /\ Shown(messages'[i]) = Shown(messages[i])

Next == Post \/ Edit

Spec == Init /\ [][Next]_messages
=============================================================================
