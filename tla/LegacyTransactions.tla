------------------------- MODULE LegacyTransactions -------------------------
(***************************************************************************)
(* The conversation path without function batches: one parsed intent per   *)
(* message, on either ledger.                                              *)
(*                                                                         *)
(*   core/transaction_service.py               handle_message              *)
(*   integrations/postgres/repository.py       the ledger in PostgreSQL    *)
(*   integrations/google_sheets/repository.py  the ledger in a worksheet   *)
(*   app/telegram_webhook.py                   send the reply, acknowledge *)
(*                                                                         *)
(* A worker is a request thread of one process.  The process remembers, in *)
(* a dictionary, which transaction a message has updated; it forgets when  *)
(* it is restarted, and another process never knew, which to a message     *)
(* delivered there is the same.  All messages are from one user in one     *)
(* chat.                                                                   *)
(***************************************************************************)
EXTENDS Naturals, Sequences, FiniteSets

CONSTANTS
    Message,      \* inbound messages, one per provider message id
    Worker,       \* request threads
    Storage,      \* the ledgers to look at: "postgres", "sheets"
    Bill,         \* date, amount and category of an expense
    Currency,     \* supported currencies
    Description,  \* normalised merchants and notes
    Similar,      \* pairs of descriptions of which one contains the other
    Answer,       \* what parser and validator may make of each message
    Sent,         \* when each message was received: received_at
    Window,       \* RECENT_EXPENSE_RETRY_WINDOW_SECONDS
    MaxFailures,  \* bound: failed calls and restarts
    MaxClock      \* bound: the clock

Item == [bill : Bill, cur : Currency, texts : SUBSET Description]
NoItem == [bill |-> "none", cur |-> "none", texts |-> {}]

(* A message asks to record an item, or to change a field of the latest    *)
(* one, or what was spent, or is answered without a look at the ledger.    *)
Create(item) == [intent |-> "create", item |-> item]
Update(field, value) == [intent |-> "update", field |-> field, value |-> value]
Query == [intent |-> "query"]
Refuse == [intent |-> "refuse"]
NoAnswer == [intent |-> "none"]
AnswerSet ==
    {Create(i) : i \in Item} \cup {Update("cur", c) : c \in Currency}
        \cup {Update("bill", b) : b \in Bill} \cup {Query, Refuse}

ASSUME LegacyAssumption ==
    /\ Storage \subseteq {"postgres", "sheets"}
    /\ Similar \subseteq Description \X Description
    /\ Answer \in [Message -> SUBSET AnswerSet]
    /\ Sent \in [Message -> Nat]
    /\ Window \in Nat /\ MaxFailures \in Nat /\ MaxClock \in Nat

VARIABLES
    storage,  \* settings.storage_backend, for good
    rows,     \* the transactions: [by, item, at], the index is the id
    events,   \* committed 'updated' events: [row, old, new]
    targets,  \* _update_targets_by_message of the process, 0 for no entry
    pc,       \* where each worker is in its request
    job,      \* the message it handles
    answer,   \* parser_result, validated
    goal,     \* the transaction it is about to update or has found, or 0
    known,    \* the process remembered that transaction
    seen,     \* that transaction as it read it before writing
    stamp,    \* created_at of the record it is about to append
    reply,    \* the kind of reply it is about to send
    clock,
    acked,    \* the provider got a 2xx for the message
    effects,  \* history: <<m, row>>, a request for m wrote row
    calm,     \* history: requests one at a time, no restart, no lost answer
    failures

ledgerVars == <<rows, events, effects>>
localVars == <<job, answer, goal, known, seen, stamp, reply>>
outVars == <<storage, clock, acked, failures>>
vars == <<storage, rows, events, targets, pc, job, answer, goal, known, seen,
          stamp, reply, clock, acked, effects, calm, failures>>

NoMessage == "no message"

Init ==
    /\ storage \in Storage
    /\ rows = <<>> /\ events = <<>>
    /\ targets = [m \in Message |-> 0]
    /\ pc = [w \in Worker |-> "idle"]
    /\ job = [w \in Worker |-> NoMessage]
    /\ answer = [w \in Worker |-> NoAnswer]
    /\ goal = [w \in Worker |-> 0]
    /\ known = [w \in Worker |-> FALSE]
    /\ seen = [w \in Worker |-> NoItem]
    /\ stamp = [w \in Worker |-> 0]
    /\ reply = [w \in Worker |-> "none"]
    /\ clock = 0
    /\ acked = [m \in Message |-> FALSE]
    /\ effects = {} /\ calm = TRUE /\ failures = 0

-----------------------------------------------------------------------------
(* What the steps look at *)

Goto(w, label) == pc' = [pc EXCEPT ![w] = label]

(* The reply is ready, format and exchange rate included.                  *)
Say(w, kind) ==
    /\ reply' = [reply EXCEPT ![w] = kind]
    /\ Goto(w, "send")

RowsOf(m) == {r \in DOMAIN rows : rows[r].by = m}

(* Mutant: the unique key of created_from_message_id is missing.           *)
NoKey(m) == {}

(* append_transaction: in PostgreSQL the row of the inbound message is     *)
(* inserted or locked first, then a transaction of the message is looked   *)
(* for; in a worksheet nothing is.                                         *)
Recorded(m) == IF storage = "postgres" THEN RowsOf(m) ELSE {}

(* get_latest_transaction: by created_at; a tie is broken by a random id,  *)
(* or by the position in the worksheet.                                    *)
Latest ==
    LET newest == {r \in DOMAIN rows : \A s \in DOMAIN rows : rows[s].at <= rows[r].at}
    IN  IF storage = "postgres" THEN newest
        ELSE {r \in newest : \A s \in newest : r <= s}

(* Mutant: the memory is not consulted.                                    *)
NoMemory(m) == 0

Recall(m) == targets[m]

(* _was_created_recently *)
Recent(r, m) == rows[r].at <= Sent[m] /\ Sent[m] - rows[r].at <= Window

(* _recent_expense_retry_decision: the same bill in another currency.      *)
Alike(r, item) ==
    rows[r].item.bill = item.bill /\ rows[r].item.cur # item.cur

Shared(r, item) == rows[r].item.texts \cap item.texts # {}
Close(r, item) ==
    \E s \in rows[r].item.texts, t \in item.texts : {<<s, t>>, <<t, s>>} \cap Similar # {}

Decision(r, item, m) ==
    IF ~(Alike(r, item) /\ Recent(r, m)) THEN "none"
    ELSE IF Shared(r, item) THEN "exact"
    ELSE IF Close(r, item) THEN "ambiguous" ELSE "none"

(* Mutant: the row is read without "for update".                           *)
NeverLocked(w, r) == FALSE

(* select ... for update of t, held until the transaction ends.            *)
Locked(w, r) ==
    storage = "postgres"
        /\ \E v \in Worker \ {w} : pc[v] = "write" /\ goal[v] = r

(* Mutant: a retry writes its date and amount where the currency belongs.  *)
SwappedChange(item, a) ==
    IF a.intent = "create" THEN [item EXCEPT !.cur = a.item.bill]
    ELSE IF a.field = "cur" THEN [item EXCEPT !.cur = a.value]
    ELSE [item EXCEPT !.bill = a.value]

(* The requested change of an item; a create corrects the currency only.   *)
Changed(item, a) ==
    CASE a.intent = "create" -> [item EXCEPT !.cur = a.item.cur]
      [] a.intent = "update" /\ a.field = "cur" -> [item EXCEPT !.cur = a.value]
      [] a.intent = "update" /\ a.field = "bill" -> [item EXCEPT !.bill = a.value]

-----------------------------------------------------------------------------
(* handle_message *)

Busy == \E w \in Worker : pc[w] # "idle"

(* The provider delivers, or redelivers, message m.                        *)
Deliver(w, m) ==
    /\ pc[w] = "idle" /\ ~acked[m] /\ clock >= Sent[m]
    /\ job' = [job EXCEPT ![w] = m]
    /\ calm' = (calm /\ ~Busy)
    /\ Goto(w, "find")
    /\ UNCHANGED <<ledgerVars, targets, answer, goal, known, seen, stamp, reply, outVars>>

(* find_by_source_message, before anything else.                           *)
FindMessage(w) ==
    /\ pc[w] = "find"
    /\ IF RowsOf(job[w]) # {}
       THEN Say(w, "recorded")
       ELSE Goto(w, "parse") /\ UNCHANGED reply
    /\ UNCHANGED <<ledgerVars, targets, job, answer, goal, known, seen, stamp, calm,
                   outVars>>

(* The parser answers, the validator agrees, and the memory is looked at.  *)
(* A total is summed and formatted: no effect but the reply.               *)
Parse(w) ==
    LET target == Recall(job[w]) IN
    /\ pc[w] = "parse"
    /\ \E a \in Answer[job[w]] :
        /\ answer' = [answer EXCEPT ![w] = a]
        /\ IF a.intent \in {"create", "update"}
           THEN /\ goal' = [goal EXCEPT ![w] = target]
                /\ known' = [known EXCEPT ![w] = target # 0]
                /\ Goto(w, IF target = 0 THEN "latest" ELSE "read")
                /\ UNCHANGED reply
           ELSE /\ Say(w, IF a.intent = "query" THEN "total" ELSE "refused")
                /\ UNCHANGED <<goal, known>>
    /\ UNCHANGED <<ledgerVars, targets, job, seen, stamp, calm, outVars>>

Aim(w, r) ==
    /\ goal' = [goal EXCEPT ![w] = r]
    /\ Goto(w, "read")

(* get_latest_transaction for an update.                                   *)
ChooseTarget(w) ==
    /\ pc[w] = "latest" /\ answer[w].intent = "update"
    /\ \/ Latest = {} /\ Say(w, "nothing to update") /\ UNCHANGED goal
       \/ \E r \in Latest : Aim(w, r) /\ UNCHANGED reply
    /\ UNCHANGED <<ledgerVars, targets, job, answer, known, seen, stamp, calm, outVars>>

(* _handle_recent_create_retry, the guard before an append; the record it  *)
(* lets through is stamped.                                                *)
GuardCreate(w) ==
    LET verdicts == IF Latest = {} THEN {"none"}
                    ELSE {Decision(r, answer[w].item, job[w]) : r \in Latest}
    IN
    /\ pc[w] = "latest" /\ answer[w].intent = "create"
    /\ \/ /\ "none" \in verdicts
          /\ stamp' = [stamp EXCEPT ![w] = clock]
          /\ Goto(w, "append") /\ UNCHANGED <<goal, reply>>
       \/ /\ "ambiguous" \in verdicts
          /\ Say(w, "similar") /\ UNCHANGED <<goal, stamp>>
       \/ \E r \in Latest :
          /\ Decision(r, answer[w].item, job[w]) = "exact"
          /\ Aim(w, r) /\ UNCHANGED <<stamp, reply>>
    /\ UNCHANGED <<ledgerVars, targets, job, answer, known, seen, calm, outVars>>

(* append_transaction, committed.                                          *)
Insert(w) ==
    LET m == job[w] IN
    IF Recorded(m) # {}
    THEN UNCHANGED ledgerVars
    ELSE /\ rows' = Append(rows, [by |-> m, item |-> answer[w].item, at |-> stamp[w]])
         /\ effects' = effects \cup {<<m, Len(rows) + 1>>}
         /\ UNCHANGED events

AppendRow(w) ==
    /\ pc[w] = "append"
    /\ Insert(w)
    /\ Say(w, "recorded")
    /\ UNCHANGED <<targets, job, answer, goal, known, seen, stamp, calm, outVars>>

(* update_transaction: the row is read, locked in PostgreSQL, ...          *)
ReadTarget(w) ==
    /\ pc[w] = "read" /\ ~Locked(w, goal[w])
    /\ seen' = [seen EXCEPT ![w] = rows[goal[w]].item]
    /\ Goto(w, "write")
    /\ UNCHANGED <<ledgerVars, targets, job, answer, goal, known, stamp, reply, calm,
                   outVars>>

(* ... then written, with its event and the commit in PostgreSQL.          *)
Write(w) ==
    LET r == goal[w] new == Changed(seen[w], answer[w]) IN
    /\ rows' = [rows EXCEPT ![r].item = new]
    /\ events' = IF storage = "postgres"
                 THEN Append(events, [row |-> r, old |-> seen[w], new |-> new])
                 ELSE events
    /\ effects' = effects \cup {<<job[w], r>>}

(* A create that found its target in the memory leaves the memory alone.   *)
WriteTarget(w) ==
    /\ pc[w] = "write"
    /\ Write(w)
    /\ seen' = [seen EXCEPT ![w] = NoItem]
    /\ IF answer[w].intent = "create" /\ known[w]
       THEN Say(w, "updated")
       ELSE Goto(w, "remember") /\ UNCHANGED reply
    /\ UNCHANGED <<targets, job, answer, goal, known, stamp, calm, outVars>>

Remember(w) ==
    /\ pc[w] = "remember"
    /\ targets' = [targets EXCEPT ![job[w]] = goal[w]]
    /\ Say(w, "updated")
    /\ UNCHANGED <<ledgerVars, job, answer, goal, known, seen, stamp, calm, outVars>>

-----------------------------------------------------------------------------
(* The end of a request, and failures *)

(* What a set of workers leaves behind.                                    *)
EndOf(W) ==
    /\ pc' = [w \in Worker |-> IF w \in W THEN "idle" ELSE pc[w]]
    /\ job' = [w \in Worker |-> IF w \in W THEN NoMessage ELSE job[w]]
    /\ answer' = [w \in Worker |-> IF w \in W THEN NoAnswer ELSE answer[w]]
    /\ goal' = [w \in Worker |-> IF w \in W THEN 0 ELSE goal[w]]
    /\ known' = [w \in Worker |-> w \notin W /\ known[w]]
    /\ seen' = [w \in Worker |-> IF w \in W THEN NoItem ELSE seen[w]]
    /\ stamp' = [w \in Worker |-> IF w \in W THEN 0 ELSE stamp[w]]
    /\ reply' = [w \in Worker |-> IF w \in W THEN "none" ELSE reply[w]]

(* Mutant: a message that came to nothing is not acknowledged.             *)
StrictReply(w) ==
    /\ pc[w] = "send"
    /\ acked' = [acked EXCEPT ![job[w]] = reply[w] \in {"recorded", "updated", "total"}]
    /\ EndOf({w})
    /\ UNCHANGED <<ledgerVars, targets, calm, storage, clock, failures>>

(* The reply is sent, and the 2xx.                                         *)
SendReply(w) ==
    /\ pc[w] = "send"
    /\ acked' = [acked EXCEPT ![job[w]] = TRUE]
    /\ EndOf({w})
    /\ UNCHANGED <<ledgerVars, targets, calm, storage, clock, failures>>

Failure == failures < MaxFailures /\ failures' = failures + 1

(* The provider's API refuses the reply: HTTP 502.                         *)
SendFails(w) ==
    /\ pc[w] = "send" /\ Failure
    /\ EndOf({w})
    /\ UNCHANGED <<ledgerVars, targets, calm, storage, clock, acked>>

(* A call of the parser or the repository fails without effect: the user   *)
(* is told so, with a 2xx.                                                 *)
CallFails(w) ==
    /\ pc[w] \in {"find", "parse", "latest", "append", "read", "write"}
    /\ Failure
    /\ Say(w, "failed")
    /\ UNCHANGED <<ledgerVars, targets, job, answer, goal, known, seen, stamp, calm,
                   storage, clock, acked>>

(* The write takes effect, its answer is lost.                             *)
AnswerLost(w) ==
    /\ Failure
    /\ \/ pc[w] = "append" /\ Insert(w)
       \/ pc[w] = "write" /\ Write(w)
    /\ calm' = FALSE
    /\ Say(w, "failed")
    /\ UNCHANGED <<targets, job, answer, goal, known, seen, stamp, storage, clock, acked>>

(* The process is stopped: its requests end, its memory is gone.           *)
Restart ==
    /\ Failure
    /\ EndOf(Worker)
    /\ targets' = [m \in Message |-> 0]
    /\ calm' = FALSE
    /\ UNCHANGED <<ledgerVars, storage, clock, acked>>

Tick ==
    /\ clock < MaxClock
    /\ clock' = clock + 1
    /\ UNCHANGED <<ledgerVars, targets, pc, localVars, calm, storage, acked,
                   failures>>

WorkerStep(w) ==
    \/ FindMessage(w) \/ Parse(w) \/ ChooseTarget(w) \/ GuardCreate(w)
    \/ AppendRow(w) \/ ReadTarget(w) \/ WriteTarget(w) \/ Remember(w) \/ SendReply(w)

Next ==
    \/ \E w \in Worker :
        WorkerStep(w) \/ SendFails(w) \/ CallFails(w) \/ AnswerLost(w)
    \/ \E w \in Worker, m \in Message : Deliver(w, m)
    \/ Restart \/ Tick

Spec == Init /\ [][Next]_vars

(* Threads run, and the provider redelivers what it got no 2xx for.        *)
FairSpec ==
    /\ Spec
    /\ \A w \in Worker : WF_vars(WorkerStep(w))
    /\ \A m \in Message : SF_vars(\E w \in Worker : Deliver(w, m))

-----------------------------------------------------------------------------
(* Properties *)

(* Every variable has its type.                                            *)
LegacyTypeOK ==
    /\ storage \in Storage
    /\ rows \in Seq([by : Message, item : Item, at : Nat])
    /\ events \in Seq([row : DOMAIN rows, old : Item, new : Item])
    /\ targets \in [Message -> DOMAIN rows \cup {0}]
    /\ pc \in [Worker -> {"idle", "find", "parse", "latest", "append", "read",
                          "write", "remember", "send"}]
    /\ job \in [Worker -> Message \cup {NoMessage}]
    /\ answer \in [Worker -> AnswerSet \cup {NoAnswer}]
    /\ goal \in [Worker -> DOMAIN rows \cup {0}]
    /\ known \in [Worker -> BOOLEAN]
    /\ seen \in [Worker -> Item \cup {NoItem}]
    /\ stamp \in [Worker -> Nat]
    /\ reply \in [Worker -> {"none", "recorded", "updated", "similar", "total",
                             "refused", "nothing to update", "failed"}]
    /\ clock \in Nat /\ failures \in Nat
    /\ acked \in [Message -> BOOLEAN]
    /\ effects \subseteq Message \X DOMAIN rows
    /\ calm \in BOOLEAN

(* A message has at most one transaction: in PostgreSQL whatever deliveries*)
(* race, in a worksheet as long as nothing goes wrong.                     *)
RecordedOnce ==
    storage = "postgres" \/ calm => \A m \in Message : Cardinality(RowsOf(m)) <= 1

(* However often a message is handled by one process, and whatever the     *)
(* parser makes of it each time, and though newer transactions came in     *)
(* between, it writes one transaction: the one it recorded or the one it   *)
(* first updated.                                                          *)
OneEffectPerMessage ==
    calm => \A d, e \in effects : d[1] = e[1] => d = e

(* The update events of a transaction tell its whole story: each begins    *)
(* where the one before ended, and the last one ends at what is stored.    *)
AuditChain ==
    storage = "postgres" =>
        \A i \in DOMAIN events :
            LET later == {j \in DOMAIN events : j > i /\ events[j].row = events[i].row}
            IN  IF later = {} THEN rows[events[i].row].item = events[i].new
                ELSE \E j \in later : (\A k \in later : j <= k)
                                      /\ events[j].old = events[i].new

(* Again and again no message that was sent is without an answer: as they  *)
(* are finitely many, each is acknowledged in the end.                     *)
MessageAnswered == []<>(\A m \in Message : clock >= Sent[m] => acked[m])
=============================================================================
