------------------------------ MODULE MCLanes -------------------------------
(* The lanes of one daemon: a behaviour is of its queue, with one key for    *)
(* each lane, or of its embed lane alone, in the detail of EmbedLane.        *)
EXTENDS MCEmbedLane

CONSTANTS ingest, summary

VARIABLE part  \* which of the two this behaviour is of

MCLaneKindOf == [k \in Key |-> CASE k = ingest -> "ingest_session"
                                 [] k = summary -> "summarize"
                                 [] OTHER -> "embed"]

mcvars == <<part, allVars>>

MCInit ==
  \/ /\ part = "queue"
     /\ Init /\ calls = NoCalls /\ broken = NoneBroken /\ stored = {}
  \/ /\ part = "embed"
     /\ LaneInit /\ \A i \in DOMAIN jobs : KindOf[jobs[i].key] = "embed"

OfQueue(A) == part = "queue" /\ A /\ UNCHANGED <<part, laneVars>>
OfEmbed(A) == part = "embed" /\ A /\ UNCHANGED part

\* Next, for one key of each lane.
Asked == {ingest, summary, garbled}

QueueNext ==
  \/ \E d \in Daemon : Boot(d) \/ Work(d) \/ Stop(d)
  \/ SessionEnds \/ Purge
  \/ \E k \in Asked : Cancel(k) \/ \E pr \in Priority, ready \in BOOLEAN : Enqueue(k, k, pr, ready)
  \/ \E i \in JobId : TimePasses(i)

MCNext == OfQueue(QueueNext) \/ OfEmbed(LaneNext)

\* The fairness of FairSpec.
MCSpec ==
  /\ MCInit /\ [][MCNext]_mcvars
  /\ \A d \in Daemon, lane \in Lane : WF_mcvars(OfQueue(Claim(d, lane)))
  /\ \A d \in Daemon : WF_mcvars(OfEmbed(ClaimBatch(d)))
  /\ \A i \in JobId : WF_mcvars(TimePasses(i) /\ UNCHANGED <<part, laneVars>>)
=============================================================================
