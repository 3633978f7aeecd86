------------------------------- MODULE Topics -------------------------------
(***************************************************************************)
(* Topics and what a client makes of a publish (srad-types/src/topic.rs,   *)
(* srad-client/src/utils.rs, types.rs, and the kinds of message the        *)
(* application accepts, srad-app/src/events.rs).  A topic is the sequence  *)
(* of its parts between slashes; the part "\\xff" stands for one that is   *)
(* not UTF-8.                                                              *)
(***************************************************************************)
EXTENDS Values

NotUtf8 == "\\xff"
Namespace == "spBv1.0"

(* A source is [group, node] or [group, node, device]; a host has a host id *)
NodeTopic(group, verb, node) == <<Namespace, group, "N" \o verb, node>>
DeviceTopic(group, verb, node, device) == <<Namespace, group, "D" \o verb, node, device>>
StateHostTopic(host) == <<Namespace, "STATE", host>>

(* Subscription filters, and whether a topic matches one ("+" stands for   *)
(* one part and "#" for any number of them).                               *)
FilterNode(group, node) == <<Namespace, group, "+", node, "#">>
FilterGroup(group) == <<Namespace, group, "+", "#">>
FilterState == StateHostTopic("#")
FilterAll == <<Namespace, "#">>
Matches(filter, topic) ==
  LET open == Last(filter) = "#"
      n    == IF open THEN Len(filter) - 1 ELSE Len(filter)
  IN  /\ IF open THEN Len(topic) >= n ELSE Len(topic) = n
      /\ \A i \in 1..n : filter[i] \in {"+", topic[i]}

(* A name of one part that no filter gives a meaning. *)
ValidateName(name) == name # "" /\ name \notin {"#", "+", "/"}

(* What a publish's bytes are: a payload, a state document or neither.     *)
MessageParts ==
  [NBIRTH |-> <<"Node", "Birth">>, NDEATH |-> <<"Node", "Death">>,
   NDATA  |-> <<"Node", "Data">>,  NCMD   |-> <<"Node", "Cmd">>,
   DBIRTH |-> <<"Device", "Birth">>, DDEATH |-> <<"Device", "Death">>,
   DDATA  |-> <<"Device", "Data">>,  DCMD   |-> <<"Device", "Cmd">>,
   NRECORD |-> <<"Node", "Other">>, DRECORD |-> <<"Device", "Other">>]

Invalid == [event |-> "InvalidPublish"]

BuildMessage(event, kind, payload, decode) ==
  IF decode /\ payload.is # "Payload" THEN Invalid
  ELSE event @@ [kind |-> kind, decoded |-> decode, payload |-> payload]

StateEvent(topic, payload) ==
  IF Len(topic) < 3 \/ payload.is # "State" THEN Invalid
  ELSE IF topic[3] = NotUtf8 THEN Invalid
  ELSE [event |-> "State", host |-> topic[3], online |-> payload.online, ts |-> payload.ts]

(* The two kinds of producer, by how many parts their topics have.         *)
MessageEvent(topic, payload, decode) ==
  LET of == [group |-> topic[2], node |-> topic[4]]
      part == MessageParts[topic[3]]
      built(from) == BuildMessage(from, part[2], payload, decode)
  IN  CASE part[1] = "Node" /\ Len(topic) = 4 -> built(of @@ [event |-> "Node"])
        [] part[1] = "Device" /\ Len(topic) = 5 ->
             built(of @@ [event |-> "Device", device |-> topic[5]])
        [] OTHER -> Invalid

(* The namespace part is not looked at; neither are parts after a host id. *)
ToEvent(topic, payload, decode) ==
  IF Len(topic) < 2 THEN Invalid
  ELSE IF topic[2] = "STATE" THEN StateEvent(topic, payload)
  ELSE IF \/ Len(topic) < 4
          \/ topic[3] \notin DOMAIN MessageParts
          \/ NotUtf8 \in ToSet(Tail(topic))
       THEN Invalid
  ELSE MessageEvent(topic, payload, decode)

(* The application: commands and unknown verbs are not its business, and   *)
(* an undecoded payload is decoded before it is used.                      *)
AppEvent(e) ==
  IF e.event \notin {"Node", "Device"} THEN Ok(e.event)
  ELSE IF e.kind \in {"Cmd", "Other"} THEN Err("UnsupportedVerb")
  ELSE IF e.payload.is # "Payload" THEN Err("DecodePayload")
  ELSE Ok(e.kind)

(* STATE and death certificates. *)
StateDocument(online, ts) == [is |-> "State", online |-> online, ts |-> ts]
LastWillNode(group, node, payload) ==
  [topic |-> NodeTopic(group, "DEATH", node), retain |-> FALSE, payload |-> payload]
LastWillApp(host, ts) ==
  [topic |-> StateHostTopic(host), retain |-> TRUE, payload |-> StateDocument(FALSE, ts)]
=============================================================================
