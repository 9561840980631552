-------------------------------- MODULE Streams --------------------------------
(***************************************************************************)
(* The two kinds of stream the coordinator serves: task results            *)
(* (Subscribers) and task messages (TaskChannel).  They share no state.    *)
(***************************************************************************)
EXTENDS Subscribers

CONSTANTS Readers, Payloads, MaxBreaks, MaxRetries

VARIABLES status, failures, logs, entry, attached, sends, client, stream, forwarded, endedBy, breaks

Channel == INSTANCE TaskChannel

ASSUME PayloadsAssumption == Channel!Eos \notin Payloads

\* The types of a subscription, and: what a caller is told of a task is what the
\* task became (notify_subscribers, add_subscriptions).
AnswersAreTrue == TypeOK /\ ToldTheTruth

\* A reader of a task's messages gets a prefix of what was kept, in order and
\* once, gets the end of the stream only after the last of it, and has an end
\* coming whenever the task sends no more (attach_subscriber, push,
\* close_task_channel, drive_message_stream).
ReadersFollow == Channel!ReaderFollowsLog /\ Channel!EndMeansAll /\ Channel!StreamWillEnd

\* What the first run of a task sends is kept (send_task_message).
FirstRunLosesNothing == Channel!FirstRunLosesNothing
================================================================================
