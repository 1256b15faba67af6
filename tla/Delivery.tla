------------------------------ MODULE Delivery ------------------------------
(***************************************************************************)
(* Sending a page (notifyAfterCreate in pkg/store/sqlite.go), the notices  *)
(* of a recovery (markResolvedAndNotify in resolve.go) and the buttons     *)
(* under a Telegram message (pkg/alerter/telegram_actions.go, the callback *)
(* handler of cmd/server).                                                 *)
(*                                                                         *)
(* A page goes out channel by channel while p.mu is held, so nothing of    *)
(* the store happens in between; a recovery's notices are goroutines of    *)
(* their own, which nobody waits for.  Any request may get lost, be        *)
(* refused, or be acted on without its answer coming back; and one whose   *)
(* answer its client has waited for in vain, 5 s, may still be acted on    *)
(* when the page has gone on, the incident is over or the agent restarted. *)
(* The incidents are successive ones of one condition on one node; the     *)
(* node's owner is not the administrator.  Settings are those of one owner *)
(* and stay.                                                               *)
(***************************************************************************)
EXTENDS Integers, FiniteSets, Functions, SequencesExt

CONSTANTS
  Ids,            \* ids of incidents, in the order they are given
  Confs,          \* settings: channel -> "none", "good" or "bad" (an URL that is no chat's)
  Owner,
  Secrets,        \* callback secrets; NoSecret among them where none is set
  NoSecret,
  maxRetries,
  MaxLate,        \* bound: requests ever given up on while they are under way
  MaxPages,       \* bound: pages ever begun
  MaxRestarts     \* bound: restarts in the middle of a page

Audited == {"webhook", "slack", "discord"}
Channels == {"telegram"} \cup Audited
Chats == {"slack", "discord"}
Told == {"telegram", "webhook"}      \* who is told of a recovery, too

ASSUME DeliveryAssumption ==
  /\ Ids \in Seq(STRING \ {""}) /\ IsInjective(Ids)
  /\ Confs \subseteq [Channels -> {"none", "good", "bad"}]
  /\ \A c \in Confs : c["telegram"] # "bad" /\ c["webhook"] # "bad"
  /\ Owner \in Nat /\ Owner > 1
  /\ maxRetries \in Nat /\ MaxLate \in Nat /\ MaxPages \in Nat /\ MaxRestarts \in Nat

VARIABLES
  conf,        \* user_settings of the owner
  secret,      \* Dispatcher.callbackSecret
  incident,    \* rows: [st, acked, snoozed]
  page,        \* the notifyAfterCreate that holds p.mu: [id, todo (channels left), tries]
  notice,      \* goroutines with a recovery's notice: [id, channel, tries]
  inbox,       \* what those receivers acted on, in order
  late,        \* requests under way that nobody waits for any more
  audit,       \* rows recorded: [user, id, channel, status, ok]
  begun, done, \* history: pages of an incident, and those that ran to their end
  taken,       \* history: pages a channel answered with success
  posts,       \* history: requests made since p.mu was taken
  pressed,     \* history: the button the last step pressed, and the answer
  cut          \* history: pages of an incident cut off by a restart

delivVars == <<conf, secret, incident, page, notice, inbox, late, audit, begun, done, taken,
               posts, pressed, cut>>

NoPage == [id |-> "", todo |-> <<>>, tries |-> 0]
NotPressed == [button |-> NoSecret, answer |-> ""]

Known == ToSet(Ids)
Pages == SumFunctionOnSet(begun, Known)

(* p.mu is free.                                                           *)
Unlocked == page = NoPage

OneIfSet(c) == IF conf[c] # "none" THEN <<c>> ELSE <<>>
Configured == OneIfSet("telegram") \o OneIfSet("webhook") \o OneIfSet("slack") \o OneIfSet("discord")

-----------------------------------------------------------------------------
(* Buttons.  The HMAC is the pair of what it is computed from.             *)
Sign(s, body) == [body |-> body, sig |-> IF s = NoSecret THEN <<>> ELSE <<s, body>>]

Actions == {<<"ack">>, <<"resolve">>, <<"snooze", "1h">>}

(* SignSnoozeCallback puts the duration after the id.                      *)
BuildIncidentButtons(id, s) ==
  {[does |-> a[1], id |-> id, by |-> s, data |-> Sign(s, <<a[1], id>> \o Tail(a))] : a \in Actions}

Signed(s, d) == IF d.sig = <<>> THEN s = NoSecret ELSE s # NoSecret /\ d.sig = <<s, d.body>>

(* The id is whatever follows the last colon.                              *)
VerifyCallbackData(s, d) == [action |-> d.body[1], id |-> Last(d.body), ok |-> Signed(s, d)]

\* Bug: the snooze's id is taken like those of the other actions.
VerifySnoozeCallbackLast(s, d) == [id |-> Last(d.body), ok |-> Signed(s, d)]
VerifySnoozeCallback(s, d) == [id |-> d.body[2], ok |-> Signed(s, d) /\ Len(d.body) = 3]

Message(event, id) ==
  [event |-> event, id |-> id, late |-> FALSE,
   buttons |-> IF event = "created" THEN BuildIncidentButtons(id, secret) ELSE {}]

(* What becomes of a POST: when it is acted on, if at all, and what the    *)
(* sender learns.                                                          *)
Fates == [acted : {"now"}, heard : {"success", "network"}]
              \cup [acted : {"later"}, heard : {"network"}]
              \cup [acted : {"never"}, heard : {"refused", "network"}]

GivenUp ==
  Cardinality(late)
    + SumFunction([c \in Told |-> Cardinality({k \in DOMAIN inbox[c] : inbox[c][k].late})])

Post(c, event, id, acted) ==
  \/ /\ acted = "now"
     /\ inbox' = [inbox EXCEPT ![c] = Append(@, Message(event, id))] /\ UNCHANGED late
  \/ /\ acted = "later"
     /\ GivenUp < MaxLate
     /\ late' = late \cup {[channel |-> c, message |-> Message(event, id), nth |-> GivenUp]}
     /\ UNCHANGED inbox
  \/ acted = "never" /\ UNCHANGED <<inbox, late>>

(* Its receiver gets to a request that nobody waits for.                   *)
ActLate(r) ==
  /\ inbox' = [inbox EXCEPT ![r.channel] = Append(@, [r.message EXCEPT !.late = TRUE])]
  /\ late' = late \ {r}
  /\ pressed' = NotPressed
  /\ UNCHANGED <<conf, secret, incident, page, notice, audit, begun, done, taken, posts, cut>>

-----------------------------------------------------------------------------
(* CreateIncident, once it has decided to notify: for a new row or for an  *)
(* open one whose cooldown is over.                                        *)
NextId == SelectInSeq(Ids, LAMBDA i : incident[i].st = "none")

PageBegins(id) ==
  /\ page' = [id |-> id, todo |-> Configured, tries |-> 0]
  /\ begun' = [begun EXCEPT ![id] = @ + 1]
  /\ posts' = 0 /\ pressed' = NotPressed

Insert ==
  LET id == Ids[NextId] IN
  /\ Unlocked /\ Pages < MaxPages
  /\ \A i \in Known : incident[i].st # "open"
  /\ NextId # 0
  /\ incident' = [incident EXCEPT ![id].st = "open"]
  /\ PageBegins(id)
  /\ UNCHANGED <<conf, secret, notice, inbox, late, audit, done, taken, cut>>

NotifyAgain(id) ==
  /\ Unlocked /\ Pages < MaxPages
  /\ incident[id].st = "open"
  /\ PageBegins(id)
  /\ UNCHANGED <<conf, secret, incident, notice, inbox, late, audit, done, taken, cut>>

GoOn(todo) == page' = [page EXCEPT !.todo = todo, !.tries = 0]

RecordRow(c, user, status) ==
  audit' = Append(audit, [user |-> user, id |-> page.id, channel |-> c, status |-> status,
                          ok |-> status = "success"])

(* One POST; an error is logged and forgotten, a refusal not even noticed. *)
SendTelegram(o) ==
  /\ page.todo # <<>> /\ Head(page.todo) = "telegram"
  /\ Post("telegram", "created", page.id, o.acted)
  /\ GoOn(Tail(page.todo))
  /\ posts' = posts + 1
  /\ UNCHANGED <<conf, secret, incident, notice, audit, begun, done, taken, pressed, cut>>

LastTry(tries) == tries = maxRetries

(* WebhookRecorder.DispatchSigned, attempt by attempt: refusals are        *)
(* retried like everything else.                                           *)
AttemptWebhook(o) ==
  LET over == o.heard = "success" \/ LastTry(page.tries) IN
  /\ page.todo # <<>> /\ Head(page.todo) = "webhook"
  /\ Post("webhook", "created", page.id, o.acted)
  /\ IF over
     THEN GoOn(Tail(page.todo)) /\ RecordRow("webhook", Owner, o.heard)
     ELSE page' = [page EXCEPT !.tries = @ + 1] /\ UNCHANGED audit
  /\ taken' = IF o.heard = "success" THEN [taken EXCEPT !["webhook"][page.id] = @ + 1] ELSE taken
  /\ posts' = posts + 1
  /\ UNCHANGED <<conf, secret, incident, notice, begun, done, pressed, cut>>

(* "ok":false in an answer of status 200.                                  *)
ChatAnswers(c) == {"success", "refused", "network"} \cup IF c = "slack" THEN {"rejected"} ELSE {}

\* Bug: a channel that cannot be reached ends the fan-out.
dispatchToChannelOrStop(c, heard) ==
  /\ page.todo # <<>> /\ Head(page.todo) = c
  /\ conf[c] = "good"
  /\ RecordRow(c, 0, heard)
  /\ GoOn(IF heard = "network" THEN <<>> ELSE Tail(page.todo))
  /\ taken' = IF heard = "success" THEN [taken EXCEPT ![c][page.id] = @ + 1] ELSE taken
  /\ posts' = posts + 1
  /\ UNCHANGED <<conf, secret, incident, notice, inbox, late, begun, done, pressed, cut>>
(* One attempt.  The row's user is 0.                                      *)
dispatchToChannel(c, heard) ==
  /\ page.todo # <<>> /\ Head(page.todo) = c
  /\ conf[c] = "good"
  /\ RecordRow(c, 0, heard)
  /\ GoOn(Tail(page.todo))
  /\ taken' = IF heard = "success" THEN [taken EXCEPT ![c][page.id] = @ + 1] ELSE taken
  /\ posts' = posts + 1
  /\ UNCHANGED <<conf, secret, incident, notice, inbox, late, begun, done, pressed, cut>>

(* An URL of another host, or not https: a row, but no POST.               *)
RefuseChatURL(c) ==
  /\ page.todo # <<>> /\ Head(page.todo) = c
  /\ conf[c] = "bad"
  /\ RecordRow(c, 0, "invalid")
  /\ GoOn(Tail(page.todo))
  /\ UNCHANGED <<conf, secret, incident, notice, inbox, late, begun, done, taken, posts, pressed,
                 cut>>

PageEnds ==
  /\ page.id # "" /\ page.todo = <<>>
  /\ page' = NoPage
  /\ done' = [done EXCEPT ![page.id] = @ + 1]
  /\ UNCHANGED <<conf, secret, incident, notice, inbox, late, audit, begun, taken, posts, pressed,
                 cut>>

-----------------------------------------------------------------------------
(* The condition has cleared: one UPDATE under p.mu, then a goroutine for  *)
(* Telegram and one for the webhook; the chats are not told.               *)
\* Bug: p.mu is not waited for.
markResolvedAndNotifyAnytime(id) ==
  /\ incident[id].st = "open"
  /\ incident' = [incident EXCEPT ![id].st = "resolved"]
  /\ notice' = notice \cup {[id |-> id, channel |-> c, tries |-> 0] :
                              c \in Told \cap ToSet(Configured)}
  /\ pressed' = NotPressed
  /\ UNCHANGED <<conf, secret, page, inbox, late, audit, begun, done, taken, posts, cut>>
markResolvedAndNotify(id) ==
  /\ Unlocked
  /\ incident[id].st = "open"
  /\ incident' = [incident EXCEPT ![id].st = "resolved"]
  /\ notice' = notice \cup {[id |-> id, channel |-> c, tries |-> 0] :
                              c \in Told \cap ToSet(Configured)}
  /\ pressed' = NotPressed
  /\ UNCHANGED <<conf, secret, page, inbox, late, audit, begun, done, taken, posts, cut>>

(* An attempt of a goroutine; the webhook's is not audited.                *)
SendNotice(g, o) ==
  LET over == g.channel = "telegram" \/ o.heard = "success" \/ LastTry(g.tries) IN
  /\ Post(g.channel, "resolved", g.id, o.acted)
  /\ notice' = (notice \ {g}) \cup IF over THEN {} ELSE {[g EXCEPT !.tries = @ + 1]}
  /\ pressed' = NotPressed
  /\ UNCHANGED <<conf, secret, incident, page, audit, begun, done, taken, posts, cut>>

-----------------------------------------------------------------------------
(* POST /telegram/callback with the data of a button some message carries. *)
Buttons == UNION {m.buttons : m \in ToSet(inbox["telegram"])}

Pressed(b, answer) ==
  /\ pressed' = [button |-> b, answer |-> answer]
  /\ UNCHANGED <<conf, secret, page, notice, inbox, late, audit, begun, done, taken, posts, cut>>

PressForbidden(b) ==
  /\ ~VerifyCallbackData(secret, b.data).ok
  /\ Pressed(b, "forbidden")
  /\ UNCHANGED incident

PressVerified(b, action) ==
  /\ Unlocked
  /\ VerifyCallbackData(secret, b.data).ok
  /\ VerifyCallbackData(secret, b.data).action = action

(* AcknowledgeIncident.                                                    *)
PressAck(b) ==
  LET id == VerifyCallbackData(secret, b.data).id IN
  /\ PressVerified(b, "ack")
  /\ \/ /\ id \in Known /\ incident[id].st = "open" /\ ~incident[id].acked
        /\ incident' = [incident EXCEPT ![id].acked = TRUE]
        /\ Pressed(b, "done")
     \/ /\ ~(id \in Known /\ incident[id].st = "open" /\ ~incident[id].acked)
        /\ UNCHANGED incident
        /\ Pressed(b, "already")

(* ResolveIncident for the administrator: of any row, resolved or not, and *)
(* without a notice.                                                       *)
PressResolve(b) ==
  LET id == VerifyCallbackData(secret, b.data).id IN
  /\ PressVerified(b, "resolve")
  /\ incident' = [incident EXCEPT ![id].st = "resolved"]
  /\ Pressed(b, "done")

(* SnoozeIncident, once the data has been verified a second time.          *)
PressSnooze(b) ==
  LET v == VerifySnoozeCallback(secret, b.data) IN
  /\ PressVerified(b, "snooze")
  /\ \/ /\ v.ok /\ v.id \in Known /\ incident[v.id].st = "open"
        /\ incident' = [incident EXCEPT ![v.id].snoozed = TRUE]
        /\ Pressed(b, "done")
     \/ /\ ~(v.ok /\ v.id \in Known /\ incident[v.id].st = "open")
        /\ UNCHANGED incident
        /\ Pressed(b, "already")

(* Whatever was being sent is forgotten, and a request that is under way   *)
(* may be acted on later, as one given up on just before; the row keeps    *)
(* its stamp.                                                              *)
DelivRestart(s) ==
  /\ \/ Unlocked /\ UNCHANGED cut
     \/ ~Unlocked /\ SumFunction(cut) < MaxRestarts /\ cut' = [cut EXCEPT ![page.id] = @ + 1]
  /\ secret' = s
  /\ page' = NoPage /\ notice' = {}
  /\ pressed' = NotPressed
  /\ UNCHANGED <<conf, incident, inbox, late, audit, begun, done, taken, posts>>

DelivInit ==
  /\ conf \in Confs /\ secret \in Secrets
  /\ incident = [i \in Known |-> [st |-> "none", acked |-> FALSE, snoozed |-> FALSE]]
  /\ page = NoPage /\ notice = {}
  /\ inbox = [c \in Told |-> <<>>] /\ late = {}
  /\ audit = <<>>
  /\ begun = [i \in Known |-> 0] /\ done = begun
  /\ taken = [c \in Audited |-> begun]
  /\ posts = 0 /\ pressed = NotPressed /\ cut = begun

DelivNext ==
  \/ Insert
  \/ \E id \in Known : NotifyAgain(id) \/ markResolvedAndNotify(id)
  \/ \E o \in Fates :
       SendTelegram(o) \/ AttemptWebhook(o) \/ \E g \in notice : SendNotice(g, o)
  \/ \E r \in late : ActLate(r)
  \/ \E c \in Chats : RefuseChatURL(c) \/ \E heard \in ChatAnswers(c) : dispatchToChannel(c, heard)
  \/ PageEnds
  \/ \E b \in Buttons : PressForbidden(b) \/ PressAck(b) \/ PressResolve(b) \/ PressSnooze(b)
  \/ \E s \in Secrets : DelivRestart(s)

DelivSpec == DelivInit /\ [][DelivNext]_delivVars

-----------------------------------------------------------------------------
RowsOf(id, c) == {k \in 1 .. Len(audit) : audit[k].id = id /\ audit[k].channel = c}

Answers == {"success", "refused", "network", "rejected", "invalid"}

DelivTypeOK ==
  /\ conf \in Confs /\ secret \in Secrets
  /\ incident \in [Known -> [st : {"none", "open", "resolved"}, acked : BOOLEAN, snoozed : BOOLEAN]]
  /\ page.id \in Known \cup {""} /\ page.tries \in 0 .. maxRetries
  /\ ToSet(page.todo) \subseteq Channels
  /\ notice \subseteq [id : Known, channel : Told, tries : 0 .. maxRetries]
  /\ \A r \in late : r.channel \in Told /\ r.message.id \in Known
  /\ \A k \in 1 .. Len(audit) :
       audit[k] \in [user : {0, Owner}, id : Known, channel : Audited, status : Answers, ok : BOOLEAN]
  /\ begun \in [Known -> Nat] /\ done \in [Known -> Nat]
  /\ cut \in [Known -> Nat] /\ posts \in Nat

(* The audit rows of pages that ran to their end.                          *)
FannedOut ==
  Unlocked => \A id \in Known :
    /\ begun[id] = done[id] + cut[id]
    /\ cut[id] = 0 => \A c \in Audited :
         /\ Cardinality(RowsOf(id, c)) = IF conf[c] = "none" THEN 0 ELSE done[id]
         /\ Cardinality({k \in RowsOf(id, c) : audit[k].ok}) = taken[c][id]

(* A channel that has heard that an incident is over hears of it again     *)
(* only through a request of before that its sender gave up on: neither a  *)
(* page under way, nor its retries, nor a restart sends one after the      *)
(* recovery's notice.                                                      *)
RecoveryLast ==
  \A c \in Told : \A i, j \in DOMAIN inbox[c] :
    /\ i < j
    /\ inbox[c][i].id = inbox[c][j].id
    /\ inbox[c][i].event = "resolved" /\ inbox[c][j].event = "created"
    => inbox[c][j].late

(* The requests made with p.mu held.                                       *)
LockHeldBriefly ==
  posts <= Cardinality({c \in {"telegram"} \cup Chats : conf[c] = "good"})
             + (IF conf["webhook"] = "good" THEN maxRetries + 1 ELSE 0)

(* Every page that ran to its end left one row for each channel that is    *)
(* configured, marked successful as often as the channel said so: none is  *)
(* skipped or done twice because of what became of another ("a Slack       *)
(* misconfig never blocks Discord").  Only a restart cuts a page off.  And *)
(* p.mu is held for a bounded number of requests meanwhile ("the           *)
(* worst-case cost per incident is bounded").  A row is there once it has  *)
(* been handed to Record, whose buffer loses it when full: WebhookAudit    *)
(* counts those.                                                           *)
EveryChannelTried == FannedOut /\ LockHeldBriefly

(* What a button of b's label makes of an open incident's row.             *)
Labelled(b, row) ==
  CASE b.does = "ack" -> [row EXCEPT !.acked = TRUE]
    [] b.does = "resolve" -> [row EXCEPT !.st = "resolved"]
    [] b.does = "snooze" -> [row EXCEPT !.snoozed = TRUE]

(* A button does to its message's incident what its label says, if that is *)
(* open and the secret is still the one it was signed with, and never      *)
(* anything to another incident, however old the message is.  A store      *)
(* error answers 500 to a press that did nothing, and is no step here.     *)
PressDoesWhatItSays ==
  [][pressed' # NotPressed =>
       LET b == pressed'.button IN
         /\ \A i \in Known \ {b.id} : incident'[i] = incident[i]
         /\ b.by # secret => UNCHANGED incident
         /\ b.by = secret /\ incident[b.id].st = "open"
              => incident'[b.id] = Labelled(b, incident[b.id])]_delivVars
=============================================================================
