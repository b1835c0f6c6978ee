--------------------------- MODULE TopicStatistics ---------------------------
(***************************************************************************)
(* TopicStatistics of include/ignition/transport/TopicStatistics.hh: the  *)
(* per-topic statistics a subscriber keeps.  Update(_sender, _meta) is     *)
(* called once per received publication; it feeds the publisher-stamp     *)
(* interval and the subscriber-clock interval into two Statistics objects *)
(* and counts dropped messages from per-sender sequence numbers.          *)
(*                                                                         *)
(* The environment around it: every sender (a publisher address) stamps   *)
(* each publication with its own clock and a sequence number that grows   *)
(* by one; publications travel to the subscriber over one FIFO channel per *)
(* sender, where any of them may be lost; the deliveries of different     *)
(* senders interleave arbitrarily.  uint64_t is modelled with Width bits  *)
(* so that wrap-around is reachable.                                       *)
(***************************************************************************)
EXTENDS Integers, Sequences, SequencesExt

CONSTANTS
    Senders,        \* publisher addresses (model values)
    MaxPublished,   \* publications per sender
    MaxStamp,       \* bound on publisher stamps and on the subscriber clock
    Width,          \* bits of the modelled uint64_t
    NoMetaSenders,  \* senders whose publications carry PublicationMetadata{}
    MaxRestarts     \* bound on publisher restarts

Modulus == 2^Width

ASSUME /\ MaxPublished \in Nat /\ Width \in Nat \ {0}
       /\ NoMetaSenders \subseteq Senders /\ MaxRestarts \in Nat
       /\ MaxStamp \in 1..(Modulus - 1)

LOCAL S == INSTANCE Statistics WITH SampleValues <- 0..(Modulus - 1),
                                     MaxSamples <- 0,
                                     stat <- 0, samples <- <<>>

VARIABLES
    \* members of TopicStatistics
    seq,                   \* std::map<std::string, uint64_t> seq
    publication,           \* Statistics publication
    receive,               \* Statistics receive
    droppedMsgCount,
    prevPublicationStamp,
    prevReceiveStamp,
    \* environment
    published,             \* publications made by each sender's current process
    pubClock,              \* each sender's clock (last stamp used)
    chan,                  \* per-sender FIFO of PublicationMetadata in flight
    now,                   \* the subscriber's steady clock, in ms
    restarts,              \* publisher restarts so far
    \* history
    deliveries,            \* calls of Update so far
    lossPending,           \* a publication of s was lost since s's last delivery
    gaps,                  \* loss runs ended by a delivery after the first one
    lostFollowed,          \* lost publications followed by a later delivery
                           \* of the same sender, after the first delivery
    lostUnseen,            \* lost publications not yet followed by a delivery
    firstStamp,            \* stamp of the first delivered publication
    firstNow               \* subscriber clock at the first delivery

codeVars == <<seq, publication, receive, droppedMsgCount,
              prevPublicationStamp, prevReceiveStamp>>
envVars == <<published, pubClock, chan, now, restarts>>
histVars == <<deliveries, lossPending, gaps, lostFollowed, lostUnseen,
              firstStamp, firstNow>>
vars == <<codeVars, envVars, histVars>>

Meta == [stamp : 0..MaxStamp, seq : 0..(Modulus - 1)]

\* PublicationMetadata{}: both members default to 0.
DefaultMeta == [stamp |-> 0, seq |-> 0]

-----------------------------------------------------------------------------

\* The member initialisers; std::map operator[] yields 0 for an absent key,
\* so an empty map is the function that is 0 everywhere.
Init ==
    /\ seq = [s \in Senders |-> 0]
    /\ publication = S!StatInit
    /\ receive = S!StatInit
    /\ droppedMsgCount = 0
    /\ prevPublicationStamp = 0
    /\ prevReceiveStamp = 0
    /\ published = [s \in Senders |-> 0]
    /\ pubClock = [s \in Senders |-> 1]
    /\ chan = [s \in Senders |-> <<>>]
    /\ now = 0
    /\ restarts = 0
    /\ deliveries = 0
    /\ lossPending = [s \in Senders |-> FALSE]
    /\ gaps = 0
    /\ lostFollowed = 0
    /\ lostUnseen = [s \in Senders |-> 0]
    /\ firstStamp = 0
    /\ firstNow = 0

\* Seeded fault: the publication interval subtracted the wrong way round.
PubIntervalSwapped(_meta) == (prevPublicationStamp - _meta.stamp) % Modulus

\* _meta.stamp - this->prevPublicationStamp, as uint64_t.
PubInterval(_meta) == (_meta.stamp - prevPublicationStamp) % Modulus

\* now - this->prevReceiveStamp, as uint64_t; now is the steady clock in ms.
RecvInterval == (now - prevReceiveStamp) % Modulus

\* Seeded fault: seq + 1 compared without the uint64_t wrap.
IsGapNoWrap(_sender, _meta) == seq[_sender] + 1 # _meta.seq

\* this->seq[_sender] + 1 != _meta.seq, with the uint64_t wrap of + 1.
IsGap(_sender, _meta) == (seq[_sender] + 1) % Modulus # _meta.seq

\* The body of if (this->prevPublicationStamp != 0).
FeedIntervals(_sender, _meta) ==
    /\ publication' = S!StatUpdate(publication, PubInterval(_meta))
    /\ receive' = S!StatUpdate(receive, RecvInterval)
    /\ droppedMsgCount' = IF IsGap(_sender, _meta) THEN droppedMsgCount + 1
                                                    ELSE droppedMsgCount

\* Seeded faults: prevReceiveStamp not saved after the first message; the
\* publication stamp not saved; the expected next seq stored instead of
\* the received one.
SaveLastKeepsReceiveStamp(_sender, _meta) ==
    /\ prevPublicationStamp' = _meta.stamp
    /\ prevReceiveStamp' = IF prevReceiveStamp = 0 THEN now ELSE prevReceiveStamp
    /\ seq' = [seq EXCEPT ![_sender] = _meta.seq]

SaveLastNoStamp(_sender, _meta) ==
    /\ prevPublicationStamp' = prevPublicationStamp
    /\ prevReceiveStamp' = now
    /\ seq' = [seq EXCEPT ![_sender] = _meta.seq]

SaveLastExpectedNext(_sender, _meta) ==
    /\ prevPublicationStamp' = _meta.stamp
    /\ prevReceiveStamp' = now
    /\ seq' = [seq EXCEPT ![_sender] = _meta.seq + 1]

\* The tail of Update: the stamps and the sender's sequence number saved.
SaveLast(_sender, _meta) ==
    /\ prevPublicationStamp' = _meta.stamp
    /\ prevReceiveStamp' = now
    /\ seq' = [seq EXCEPT ![_sender] = _meta.seq]

\* TopicStatistics::Update(_sender, _meta), one atomic step.
Update(_sender, _meta) ==
    /\ IF prevPublicationStamp # 0
         THEN FeedIntervals(_sender, _meta)
         ELSE UNCHANGED <<publication, receive, droppedMsgCount>>
    /\ SaveLast(_sender, _meta)

\* TopicStatistics::YamlString(): the values it prints, left unformatted.
YamlString ==
    [dropped_message_count |-> droppedMsgCount,
     publication_statistics |-> S!StatReport(publication),
     receive_statistics |-> S!StatReport(receive)]

-----------------------------------------------------------------------------
(* Environment                                                             *)

\* What sender s puts in its next publication: a stamp t from its clock
\* and the next sequence number, or, for a sender that fills in no
\* metadata, the default-constructed PublicationMetadata.
MetaOf(s, t) ==
    IF s \in NoMetaSenders THEN DefaultMeta
    ELSE [stamp |-> t, seq |-> (published[s] + 1) % Modulus]

\* Sender s publishes, with a stamp from its own non-decreasing clock.
Publish(s) ==
    /\ published[s] < MaxPublished
    /\ \E t \in pubClock[s]..MaxStamp :
          /\ chan' = [chan EXCEPT ![s] = Append(@, MetaOf(s, t))]
          /\ pubClock' = [pubClock EXCEPT ![s] = t]
    /\ published' = [published EXCEPT ![s] = @ + 1]
    /\ UNCHANGED <<codeVars, now, restarts, histVars>>

\* The publisher at address s restarts once its earlier publications are
\* delivered or lost: the new process numbers its publications from 1
\* again, while its clock goes on.
Restart(s) ==
    /\ restarts < MaxRestarts
    /\ published[s] > 0
    /\ chan[s] = <<>>
    /\ published' = [published EXCEPT ![s] = 0]
    /\ restarts' = restarts + 1
    /\ UNCHANGED <<codeVars, pubClock, chan, now, histVars>>

\* The oldest publication in flight from s is lost.  Losing a later one is
\* the same as delivering the ones before it first, then losing it.
Lose(s) ==
    /\ chan[s] # <<>>
    /\ chan' = [chan EXCEPT ![s] = Tail(@)]
    /\ lossPending' = [lossPending EXCEPT ![s] = TRUE]
    /\ lostUnseen' = [lostUnseen EXCEPT ![s] = @ + 1]
    /\ UNCHANGED <<codeVars, published, pubClock, now, restarts, deliveries,
                   gaps, lostFollowed, firstStamp, firstNow>>

\* The subscriber's steady clock advances by one millisecond.
Tick ==
    /\ now < MaxStamp
    /\ now' = now + 1
    /\ UNCHANGED <<codeVars, published, pubClock, chan, restarts, histVars>>

\* The oldest publication from s reaches the subscriber, which calls
\* TopicStatistics::Update(s, meta).
Receive(s) ==
    /\ chan[s] # <<>>
    /\ Update(s, Head(chan[s]))
    /\ chan' = [chan EXCEPT ![s] = Tail(@)]
    /\ deliveries' = deliveries + 1
    /\ gaps' = IF lossPending[s] /\ deliveries > 0 THEN gaps + 1 ELSE gaps
    /\ lostFollowed' = IF deliveries > 0 THEN lostFollowed + lostUnseen[s]
                                          ELSE lostFollowed
    /\ lossPending' = [lossPending EXCEPT ![s] = FALSE]
    /\ lostUnseen' = [lostUnseen EXCEPT ![s] = 0]
    /\ firstStamp' = IF deliveries = 0 THEN Head(chan[s]).stamp ELSE firstStamp
    /\ firstNow' = IF deliveries = 0 THEN now ELSE firstNow
    /\ UNCHANGED <<published, pubClock, now, restarts>>

Next ==
    \/ \E s \in Senders : Publish(s) \/ Restart(s) \/ Lose(s) \/ Receive(s)
    \/ Tick

Spec == Init /\ [][Next]_vars

-----------------------------------------------------------------------------
(* Properties                                                              *)

TypeOK ==
    /\ seq \in [Senders -> 0..(Modulus - 1)]
    /\ droppedMsgCount \in Nat
    /\ prevPublicationStamp \in 0..MaxStamp
    /\ prevReceiveStamp \in 0..MaxStamp
    /\ publication.count = receive.count
    /\ chan \in [Senders -> Seq(Meta)]
    /\ now \in 0..MaxStamp

\* droppedMsgCount grows by exactly one for every run of consecutive lost
\* publications of a sender that ends in a delivery from that sender, once
\* the topic has received its first publication: the seq map, its default
\* 0 for a new sender, the uint64 wrap of seq + 1 and the
\* prevPublicationStamp != 0 guard together count each gap once, whatever
\* the interleaving of senders.
DroppedCountsLossRuns == droppedMsgCount = gaps

\* The receive statistics telescope: the mean receive interval times the
\* number of intervals is the subscriber-clock time from the first to the
\* latest delivery, across all senders.
RecvMeanSpansClock ==
    receive.count > 0 =>
        S!RMul(receive.average, S!IntR(receive.count))
            = S!IntR(prevReceiveStamp - firstNow)

\* The publication statistics telescope the same way over publisher
\* stamps: the mean publication interval times the number of intervals is
\* the stamp of the latest delivery minus the stamp of the first.
PubMeanSpansStamps ==
    publication.count > 0 =>
        S!RMul(publication.average, S!IntR(publication.count))
            = S!IntR(prevPublicationStamp - firstStamp)

\* droppedMsgCount is the number of dropped messages (the class comment
\* and the member's comment): every publication lost after the first
\* delivery and followed by a delivery from its sender is counted.
DroppedIsLostMessages == droppedMsgCount = lostFollowed

\* Every delivery after the first feeds one interval into the statistics:
\* the prevPublicationStamp != 0 test, which stands for "a message was
\* received before", is false at the first call of Update only.
IntervalPerDelivery == deliveries > 0 => publication.count = deliveries - 1

\* A dropped message is counted only where a publication really was lost:
\* droppedMsgCount never exceeds the lost publications that a later
\* delivery from the same sender could reveal.
DroppedNotAboveLost == droppedMsgCount <= lostFollowed

\* Once an interval has been recorded, YamlString() reports numbers: no
\* avg_hz or std_deviation of either statistics is inf or nan.
ReportIsNumeric ==
    publication.count > 0 =>
        \A part \in {"publication_statistics", "receive_statistics"} :
            \A f \in {"avg_hz", "std_deviation"} :
                YamlString[part][f] \notin {S!NaN, S!Inf}

=============================================================================
