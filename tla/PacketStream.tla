---------------------------- MODULE PacketStream ----------------------------
(***************************************************************************)
(* What the handlers of messages rely on: the packets of a connection      *)
(* arrive one by one, in the order the client sent them.  A packet whose   *)
(* header is not acceptable is skipped, and the server may close the       *)
(* connection instead of delivering the next packet.  The promise ends     *)
(* with the connection, or after an unacceptable packet.                   *)
(***************************************************************************)
EXTENDS Naturals, Sequences

CONSTANTS Lengths, Acceptable(_)

VARIABLES sent, next, delivered, open

Init == sent = <<>> /\ next = 1 /\ delivered = <<>> /\ open = TRUE

Send(len) ==
    /\ sent' = Append(sent, len)
    /\ UNCHANGED <<next, delivered, open>>

Deliver ==
    /\ open /\ next <= Len(sent) /\ Acceptable(sent[next])
    /\ delivered' = Append(delivered, next)
    /\ next' = next + 1
    /\ UNCHANGED <<sent, open>>

Skip ==
    /\ open /\ next <= Len(sent) /\ ~Acceptable(sent[next])
    /\ next' = next + 1
    /\ UNCHANGED <<sent, delivered, open>>

Close ==
    /\ open
    /\ open' = FALSE
    /\ next' \in {next, next + 1}
    /\ UNCHANGED <<sent, delivered>>

Next == (\E len \in Lengths : Send(len)) \/ Deliver \/ Skip \/ Close

Spec == Init /\ [][Next]_<<sent, next, delivered, open>>

=============================================================================
