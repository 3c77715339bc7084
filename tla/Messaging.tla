----------------------------- MODULE Messaging ------------------------------
(***************************************************************************)
(* WhatsApp messages to and from one customer (whatsapp/messages.ts,       *)
(* whatsapp/inbound.ts, whatsapp/compliance.ts, whatsapp/connections.ts,   *)
(* conversations.ts, customers.ts) over the job queue: one job sends a     *)
(* message, one takes in an event of Meta's.                               *)
(*                                                                         *)
(* The queue appears as far as a handler meets it: a job is run by one     *)
(* worker at a time, again after its handler threw (up to MaxTries) and    *)
(* again after its worker died.  The service window and the templates only *)
(* refuse a message before anything is written and are left out.           *)
(***************************************************************************)
EXTENDS Naturals

CONSTANTS
  Outs,       \* messages to the customer
  Ins,        \* messages from the customer
  Saying,     \* what each of those says: [Ins -> {"text", "stop", "start"}]
  Hands,      \* workers
  MaxTries,   \* jobs.max_attempts
  MaxDeaths,  \* bound: handlers whose process dies
  MaxErrors,  \* bound: database calls of a handler that fail
  Told,       \* bound: what Meta may tell of a copy
  NoTask

ASSUME MessagingAssumption ==
  /\ Saying \in [Ins -> {"text", "stop", "start"}]
  /\ MaxTries \in Nat \ {0} /\ MaxDeaths \in Nat /\ MaxErrors \in Nat
  /\ Outs \cap Ins = {} /\ NoTask \notin Outs \cup Ins

VARIABLES
  out,         \* messages, outbound: status, wa_message_id, and where queueMessage stands
  inbox,       \* messages, inbound
  claimed,     \* webhook_events
  thread,      \* the customer, the conversation, the opt-out
  connection,  \* whatsapp_connections.status
  task,        \* jobs
  hand,        \* where each handler stands
  copies,      \* history: how often Meta took the message
  recorded,    \* history: copies whose id was written down and left alone since
  reported,    \* history: what Meta told of a copy
  mishaps      \* deaths and errors so far

messageVars == <<out, inbox, claimed, thread, connection, task, hand, copies, recorded, reported, mishaps>>

MaxCopies == MaxTries + MaxDeaths

\* DELIVERED stands for READ as well.
Verdicts == {"SENT", "DELIVERED", "FAILED"}

\* wa: the copy the row knows the id of, 0 for none.
Out == [call : {"idle", "checked", "threaded", "stored", "over"},
        status : {"NONE", "QUEUED", "SENT"} \cup Verdicts, wa : 0..MaxCopies]

SendSteps == {"read", "post", "record", "mark", "fail", "error", "fail401", "error401"}
ReceiveSteps == {"claim", "customer", "newCustomer", "conversation", "newConversation",
                 "message", "comply"}

MessagingTypeOK ==
  /\ out \in [Outs -> Out]
  /\ inbox \subseteq Ins /\ claimed \subseteq Ins
  /\ thread \in [customer : BOOLEAN, conversation : BOOLEAN, optedOut : BOOLEAN]
  /\ connection \in {"CONNECTED", "REAUTH_REQUIRED", "DISCONNECTED"}
  /\ task \in [Outs \cup Ins -> [at : {"absent", "due", "running", "over"}, tries : 0..MaxCopies]]
  /\ hand \in [Hands -> [at : {"idle"} \cup SendSteps \cup ReceiveSteps, on : Outs \cup Ins \cup {NoTask}]]
  /\ copies \in [Outs -> 0..MaxCopies]
  /\ recorded \subseteq Outs \X (1..MaxCopies)
  /\ reported \subseteq Outs \X (1..MaxCopies) \X Verdicts
  /\ mishaps \in [deaths : 0..MaxDeaths, errors : 0..MaxErrors]

MessagingInit ==
  /\ out = [m \in Outs |-> [call |-> "idle", status |-> "NONE", wa |-> 0]]
  /\ inbox = {} /\ claimed = {}
  /\ thread = [customer |-> FALSE, conversation |-> FALSE, optedOut |-> FALSE]
  /\ connection = "CONNECTED"
  /\ task = [t \in Outs \cup Ins |-> [at |-> "absent", tries |-> 0]]
  /\ hand = [h \in Hands |-> [at |-> "idle", on |-> NoTask]]
  /\ copies = [m \in Outs |-> 0]
  /\ recorded = {} /\ reported = {}
  /\ mishaps = [deaths |-> 0, errors |-> 0]

-----------------------------------------------------------------------------
(* The job queue.                                                          *)

At(h, step) == hand[h].at = step

Free(h) == hand' = [hand EXCEPT ![h] = [at |-> "idle", on |-> NoTask]]

Enqueued(t) == task' = [task EXCEPT ![t].at = "due"]

TakeUp(h, t) ==
  /\ hand[h].at = "idle" /\ task[t].at = "due"
  /\ hand' = [hand EXCEPT ![h] = [at |-> IF t \in Outs THEN "read" ELSE "claim", on |-> t]]
  /\ task' = [task EXCEPT ![t] = [at |-> "running", tries |-> @.tries + 1]]
  /\ UNCHANGED <<out, inbox, claimed, thread, connection, copies, recorded, reported, mishaps>>

Finish(h) == Free(h) /\ task' = [task EXCEPT ![hand[h].on].at = "over"]

\* Mutant: one try more.
TriesLeftMutant(t) == task[t].tries <= MaxTries

TriesLeft(t) == task[t].tries < MaxTries

Throw(h) ==
  /\ Free(h)
  /\ task' = [task EXCEPT ![hand[h].on].at =
                IF @ = "running" /\ TriesLeft(hand[h].on) THEN "due" ELSE "over"]

GoOn(h, step) == hand' = [hand EXCEPT ![h].at = step] /\ UNCHANGED task

\* The process dies; the sweep puts its job back.
Die(h) ==
  /\ hand[h].at # "idle" /\ mishaps.deaths < MaxDeaths
  /\ Free(h) /\ Enqueued(hand[h].on)
  /\ mishaps' = [mishaps EXCEPT !.deaths = @ + 1]
  /\ UNCHANGED <<out, inbox, claimed, thread, connection, copies, recorded, reported>>

\* A database call fails.  The catch of sendQueuedMessage also covers what
\* follows the post, and then writes FAILED over SENT.
Fail(h) ==
  /\ hand[h].at \notin {"idle", "post"} /\ mishaps.errors < MaxErrors
  /\ IF hand[h].at \in {"record", "mark"} THEN GoOn(h, "fail") ELSE Throw(h)
  /\ recorded' = IF At(h, "mark") THEN recorded \ {<<hand[h].on, copies[hand[h].on]>>} ELSE recorded
  /\ mishaps' = [mishaps EXCEPT !.errors = @ + 1]
  /\ UNCHANGED <<out, inbox, claimed, thread, connection, copies, reported>>

-----------------------------------------------------------------------------
(* queueMessage: checks, then the thread, the row and the job.             *)

Advance(m, from, to) == out[m].call = from /\ out' = [out EXCEPT ![m].call = to]

QueueCheck(m) ==
  /\ connection = "CONNECTED" /\ ~thread.optedOut
  /\ Advance(m, "idle", "checked")
  /\ UNCHANGED <<inbox, claimed, thread, connection, task, hand, copies, recorded, reported, mishaps>>

\* findOrCreateCustomer, findOrCreateConversation: the loser of a race is not
\* told apart from a caller that gives up.
QueueThread(m) ==
  /\ Advance(m, "checked", "threaded")
  /\ thread' = [thread EXCEPT !.customer = TRUE, !.conversation = TRUE]
  /\ UNCHANGED <<inbox, claimed, connection, task, hand, copies, recorded, reported, mishaps>>

QueueRow(m) ==
  /\ out[m].call = "threaded"
  /\ out' = [out EXCEPT ![m] = [call |-> "stored", status |-> "QUEUED", wa |-> 0]]
  /\ UNCHANGED <<inbox, claimed, thread, connection, task, hand, copies, recorded, reported, mishaps>>

QueueJob(m) ==
  /\ Advance(m, "stored", "over")
  /\ Enqueued(m)
  /\ UNCHANGED <<inbox, claimed, thread, connection, hand, copies, recorded, reported, mishaps>>

-----------------------------------------------------------------------------
(* sendQueuedMessage, the handler.                                         *)

\* Mutant: the status is not looked at.
SendableMutant(m) == TRUE

Sendable(m) == out[m].status \in {"QUEUED", "FAILED"}

SendRead(h) ==
  LET m == hand[h].on IN
  /\ At(h, "read")
  /\ \/ ~Sendable(m) /\ Finish(h)
     \/ Sendable(m) /\ connection # "CONNECTED" /\ Throw(h)
     \/ Sendable(m) /\ connection = "CONNECTED" /\ GoOn(h, "post")
  /\ UNCHANGED <<out, inbox, claimed, thread, connection, copies, recorded, reported, mishaps>>

\* Meta takes the message, and is heard or not, or refuses it.
SendPost(h) ==
  LET m == hand[h].on IN
  /\ At(h, "post")
  /\ \/ /\ copies' = [copies EXCEPT ![m] = @ + 1]
        /\ GoOn(h, "record") \/ GoOn(h, "fail")
     \/ /\ GoOn(h, "fail") \/ GoOn(h, "fail401")
        /\ UNCHANGED copies
  /\ UNCHANGED <<out, inbox, claimed, thread, connection, recorded, reported, mishaps>>

SendRecord(h) ==
  LET m == hand[h].on IN
  /\ At(h, "record")
  /\ out' = [out EXCEPT ![m].status = "SENT", ![m].wa = copies[m]]
  /\ recorded' = recorded \cup {<<m, copies[m]>>}
  /\ GoOn(h, "mark")
  /\ UNCHANGED <<inbox, claimed, thread, connection, copies, reported, mishaps>>

\* markSendSuccess, markMarketplaceEnquiryResponded, recordUsage.
SendMark(h) ==
  /\ At(h, "mark")
  /\ Finish(h)
  /\ UNCHANGED <<out, inbox, claimed, thread, connection, copies, recorded, reported, mishaps>>

SendFail(h) ==
  /\ hand[h].at \in {"fail", "fail401"}
  /\ out' = [out EXCEPT ![hand[h].on].status = "FAILED"]
  /\ GoOn(h, IF At(h, "fail") THEN "error" ELSE "error401")
  /\ UNCHANGED <<inbox, claimed, thread, connection, copies, recorded, reported, mishaps>>

\* markError: by id, whatever happened to the connection meanwhile.
SendError(h) ==
  /\ hand[h].at \in {"error", "error401"}
  /\ connection' = IF At(h, "error401") THEN "REAUTH_REQUIRED" ELSE connection
  /\ Throw(h)
  /\ UNCHANGED <<out, inbox, claimed, thread, copies, recorded, reported, mishaps>>

\* Meta tells what became of a copy, in any order; each report comes through
\* once.  The claim and the update behind it: a handler that dies between
\* them loses the report.
Report(m, i, v) ==
  /\ v \in Told
  /\ i \in 1..copies[m] /\ <<m, i, v>> \notin reported
  /\ v # "SENT" => \A u \in Verdicts \ {"SENT"} : <<m, i, u>> \notin reported
  /\ reported' = reported \cup {<<m, i, v>>}
  /\ \/ /\ out' = IF out[m].wa = i THEN [out EXCEPT ![m].status = v] ELSE out
        /\ UNCHANGED mishaps
     \/ /\ mishaps.deaths < MaxDeaths
        /\ mishaps' = [mishaps EXCEPT !.deaths = @ + 1]
        /\ UNCHANGED out
  /\ UNCHANGED <<inbox, claimed, thread, connection, task, hand, copies, recorded>>

-----------------------------------------------------------------------------
(* The webhook route and processInboundEvent, the handler.                 *)

\* Meta delivers again and again; the dedupe key leaves one job.
Receive(e) ==
  /\ task[e].at = "absent"
  /\ Enqueued(e)
  /\ UNCHANGED <<out, inbox, claimed, thread, connection, hand, copies, recorded, reported, mishaps>>

Quiet == UNCHANGED <<out, connection, copies, recorded, reported, mishaps>>

InboundClaim(h) ==
  LET e == hand[h].on IN
  /\ At(h, "claim")
  /\ IF e \in claimed THEN Finish(h) ELSE GoOn(h, "customer")
  /\ claimed' = claimed \cup {e}
  /\ UNCHANGED <<inbox, thread>> /\ Quiet

InboundLookUp(h) ==
  /\ \/ At(h, "customer") /\ GoOn(h, IF thread.customer THEN "conversation" ELSE "newCustomer")
     \/ At(h, "conversation") /\ GoOn(h, IF thread.conversation THEN "message" ELSE "newConversation")
  /\ UNCHANGED <<inbox, claimed, thread>> /\ Quiet

\* Refused by the unique index, it reads the customer again.
InboundCustomer(h) ==
  /\ At(h, "newCustomer")
  /\ thread' = [thread EXCEPT !.customer = TRUE]
  /\ GoOn(h, "conversation")
  /\ UNCHANGED <<inbox, claimed>> /\ Quiet

\* Refused by the unique index, it throws.
InboundConversation(h) ==
  /\ At(h, "newConversation")
  /\ IF thread.conversation THEN Throw(h) ELSE GoOn(h, "message")
  /\ thread' = [thread EXCEPT !.conversation = TRUE]
  /\ UNCHANGED <<inbox, claimed>> /\ Quiet

InboundMessage(h) ==
  /\ At(h, "message")
  /\ inbox' = inbox \cup {hand[h].on}
  /\ GoOn(h, "comply")
  /\ UNCHANGED <<claimed, thread>> /\ Quiet

\* applyInboundCompliance; the counters, the event and the payment report follow.
InboundComply(h) ==
  LET says == Saying[hand[h].on] IN
  /\ At(h, "comply")
  /\ thread' = [thread EXCEPT !.optedOut = says = "stop" \/ (@ /\ says # "start")]
  /\ Finish(h)
  /\ UNCHANGED <<inbox, claimed>> /\ Quiet

-----------------------------------------------------------------------------
(* connections.ts: upsertConnection; disconnect and revokeByMetaUserId;    *)
(* checkTokenHealth.                                                       *)

Connection(from, to) ==
  /\ connection \in from /\ connection' = to
  /\ UNCHANGED <<out, inbox, claimed, thread, task, hand, copies, recorded, reported, mishaps>>

UpsertConnection == Connection({"REAUTH_REQUIRED", "DISCONNECTED"}, "CONNECTED")
Disconnect == Connection({"CONNECTED", "REAUTH_REQUIRED"}, "DISCONNECTED")
CheckTokenHealth == Connection({"CONNECTED"}, "REAUTH_REQUIRED")

SendStep(h) ==
  SendRead(h) \/ SendPost(h) \/ SendRecord(h) \/ SendMark(h) \/ SendFail(h) \/ SendError(h)

InboundStep(h) ==
  \/ InboundClaim(h) \/ InboundLookUp(h) \/ InboundCustomer(h)
  \/ InboundConversation(h) \/ InboundMessage(h) \/ InboundComply(h)

MessagingNext ==
  \/ \E h \in Hands :
       SendStep(h) \/ InboundStep(h) \/ Die(h) \/ Fail(h) \/ \E t \in Outs \cup Ins : TakeUp(h, t)
  \/ \E m \in Outs :
       \/ QueueCheck(m) \/ QueueThread(m) \/ QueueRow(m) \/ QueueJob(m)
       \/ \E i \in 1..MaxCopies, v \in Verdicts : Report(m, i, v)
  \/ \E e \in Ins : Receive(e)
  \/ UpsertConnection \/ Disconnect \/ CheckTokenHealth

MessagingSpec == MessagingInit /\ [][MessagingNext]_messageVars

-----------------------------------------------------------------------------
(* Properties.                                                             *)

\* "SENT/DELIVERED/READ mean Meta already accepted it - a retry would double-send"
\* (sendQueuedMessage): however handlers throw and die, Meta is not given a message
\* again whose id was written down, unless Meta itself reported that copy failed, or
\* the catch that also covers the bookkeeping took the handler back.
NoDoubleSend ==
  [][\A m \in Outs : copies'[m] # copies[m] =>
       \A i \in 1..copies[m] : <<m, i>> \in recorded => <<m, i, "FAILED">> \in reported]_messageVars
=============================================================================
