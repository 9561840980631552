------------------------------- MODULE MCStreams -------------------------------
(***************************************************************************)
(* Model-checking instance of the coordinator's streams: `kind` says which *)
(* of the two kinds moves.                                                 *)
(***************************************************************************)
EXTENDS Streams

VARIABLE kind

channelVars == <<status, failures, logs, entry, attached, sends, client, stream, forwarded, endedBy, breaks>>
allVars == <<kind, vars, channelVars>>

StreamsInit == kind \in {"results", "messages"} /\ Init /\ Channel!Init

StreamsNext ==
    /\ \/ kind = "results" /\ Next /\ UNCHANGED channelVars
       \/ kind = "messages" /\ Channel!Next /\ UNCHANGED vars
    /\ UNCHANGED kind

\* Results: every task and thread of the coordinator and of the client runs
\* on; a message that is read again and again is read in the end (a stream is
\* first in, first out, which the model's order-free streams leave to this);
\* faults need not stop, the bound on them stops them.
Results(A) == kind = "results" /\ A /\ UNCHANGED <<kind, channelVars>>

Fairness ==
    /\ WF_allVars(Results(EvictSubscriber)) /\ WF_allVars(Results(SendHeartbeat))
    /\ WF_allVars(Results(GoesStale /\ reader = "ended"))
    /\ \A m \in Answers \cup {Heartbeat, EndOfStream} : WF_allVars(Results(Forward(m)))
    /\ WF_allVars(Results(\E M \in SUBSET DOMAIN unacked : Resend(M)))
    /\ WF_allVars(Results(SenderEnds)) /\ WF_allVars(Results(OpenSub))
    /\ \A w \in {"reader", "asker"} :
          WF_allVars(Results(UpdateSub(w) \/ UpdateNotFound(w) \/ AddSubscriptions(w)))
    /\ WF_allVars(Results(ReadHeartbeat)) /\ WF_allVars(Results(ReadEndOfStream))
    /\ \A a \in Answers : SF_allVars(Results(ReadAnswer(a[1], a[2])))
    /\ WF_allVars(Results(~Healthy /\ Reopen))

StreamsSpec == StreamsInit /\ [][StreamsNext]_allVars /\ Fairness

--------------------------------------------------------------------------------
AnswerArrives ==
    \A t \in Tasks : (t \notin to_ask /\ (gone \/ task[t] # "live")) ~> (told[t] # {} \/ reader = "ended")
SenderCollected == (reader = "ended") ~> (handler = 0 /\ sub = 0)

\* The caller of a subscription learns of every task it subscribed that is
\* over, through lost calls, evicted entries, reopened streams and messages
\* given up after their resends, as long as the client reads (subscriber in
\* client.rs; add_subscriptions answers for tasks that are already over).  A
\* client that is gone leaves nothing behind: the coordinator evicts its entry
\* and the sender task ends, whatever was not acknowledged.
SubscriptionsServed == AnswerArrives /\ SenderCollected
================================================================================
