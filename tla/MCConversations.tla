--------------------------- MODULE MCConversations --------------------------
(* From a session file to stored turns: a behaviour is of one conversation's *)
(* ingests, or of the poller over one session with a sidecar, or of the     *)
(* poller over two sessions for one submission; the rest stands still.      *)
EXTENDS MCConvoIngest, MCConvoPoller

VARIABLE part  \* which of the three this behaviour is of

MCSessionFile == {<<1, 1>>, <<1, 2>>}
MCSidecar == {<<1, 2>>}

\* A session not there yet, with a sidecar of no records.
Alone == INSTANCE ConvoPoller WITH
  File <- MCSessionFile, Later <- MCSidecar, Bare <- MCSessionFile, Cold <- {},
  Wordless <- MCSidecar, Mislaid <- {}, Cap <- 1, StallPasses <- 2,
  Changes <- {"line", "part", "touch", "replace"}, MaxWrites <- 2, MaxIds <- 6,
  MishapBudget <- MCMishaps({"fail", "restart"}), MaxMishaps <- 1

ASSUME Alone!PollerAssumption

mcvars == <<part, vars, pvars>>

\* The old session was read up to its last line; of the one whose jobs never
\* find its file nothing was ever read.
MCInit ==
  /\ Init
  /\ \/ part \in {"ingest", "alone"} /\ Alone!PollerInit
     \/ part = "pair" /\ PollerInit /\ offsets[<<1, 1>>] # Nothing /\ offsets[<<2, 1>>] = Nothing

Ingests(A) == part = "ingest" /\ A /\ UNCHANGED <<part, pvars>>
PollsAlone(A) == part = "alone" /\ A /\ UNCHANGED <<part, vars>>
PollsPair(A) == part = "pair" /\ A /\ UNCHANGED <<part, vars>>

\* A bound: two sessions meet a write, a fault, or a third job of one of them.
OneMishap ==
  LET jobs == {row'[s].id : s \in {1, 2}}
  IN  writes' + mishaps'["pass"] + mishaps'["retry"] <= IF 3 \in jobs THEN 0 ELSE 1

MCNext == Ingests(Next) \/ PollsAlone(Alone!PollerNext) \/ PollsPair(PollerNext /\ OneMishap)

\* The fairness of the two specifications, of the part that runs.
MCSpec ==
  /\ MCInit /\ [][MCNext]_mcvars
  /\ WF_mcvars(Ingests(PollerSubmits))
  /\ \A a \in Address : WF_mcvars(Ingests(Advance(a)))
  /\ WF_mcvars(PollsAlone(Alone!PassStep))
  /\ WF_mcvars(PollsAlone(Alone!JobStep(1)))

\* FilesSettle of ConvoPoller, where no session is out of its reach.
EveryFileSettles == <>[](part = "alone" => Alone!AllSettled)
=============================================================================
