---------------------- MODULE LegacyTransactionsProofs ----------------------
(***************************************************************************)
(* Theorems about the path without function batches, for either ledger and *)
(* any number of messages, request threads, answers and failures.          *)
(*                                                                         *)
(* While calm holds one request runs at a time, and what a message has     *)
(* done is to be seen in the ledger, in the memory of the process, or in   *)
(* the hands of that request (Traced).  In PostgreSQL the row lock makes   *)
(* what a request has read of its target true until it writes (Held).      *)
(***************************************************************************)
EXTENDS LegacyTransactions, FiniteSetTheorems, SequenceTheorems, TLAPS

USE LegacyAssumption

Changing == {"create", "update"}
AtTarget == {"read", "write", "remember"}
PastFind == {"parse", "latest", "append"} \cup AtTarget

(* What a request has in hand at each place.                               *)
InHand(w) ==
    /\ pc[w] # "idle" => job[w] \in Message
    /\ pc[w] \in {"latest", "append"} \cup AtTarget =>
           answer[w] \in AnswerSet /\ answer[w].intent \in Changing
    /\ pc[w] = "append" => answer[w].intent = "create"
    /\ pc[w] \in AtTarget => goal[w] \in DOMAIN rows
    /\ pc[w] = "write" => seen[w] \in Item

Typed == LegacyTypeOK /\ \A w \in Worker : InHand(w)

OneAtATime ==
    calm => \A v, w \in Worker : pc[v] # "idle" /\ pc[w] # "idle" => v = w

(* A request that goes on after its search found no row of its message.    *)
NotRecorded == calm => \A w \in Worker : pc[w] \in PastFind => RowsOf(job[w]) = {}

UniqueRows ==
    storage = "postgres" \/ calm =>
        \A r, s \in DOMAIN rows : rows[r].by = rows[s].by => r = s

Single == OneAtATime /\ NotRecorded /\ UniqueRows

(* A request meets the target of its message, if that has one.             *)
SameTarget ==
    calm => \A w \in Worker :
        /\ pc[w] \in {"latest", "append"} => targets[job[w]] = 0
        /\ pc[w] \in AtTarget => targets[job[w]] \in {0, goal[w]}
        /\ pc[w] \in {"latest"} \cup AtTarget =>
               known[w] = (targets[job[w]] # 0)

(* Where the one effect of a message can be seen.                          *)
Traced ==
    calm => \A e \in effects :
        IF RowsOf(e[1]) # {} THEN e[2] \in RowsOf(e[1])
        ELSE \/ targets[e[1]] = e[2]
             \/ \E w \in Worker : pc[w] = "remember" /\ job[w] = e[1] /\ goal[w] = e[2]

(* The row lock.                                                           *)
Held ==
    storage = "postgres" =>
        \A w \in Worker : pc[w] = "write" =>
            /\ seen[w] = rows[goal[w]].item
            /\ \A v \in Worker : pc[v] = "write" /\ goal[v] = goal[w] => v = w

-----------------------------------------------------------------------------
(* Types *)

(* A change asked for makes another expense of an expense.                 *)
LEMMA ChangedType ==
    ASSUME NEW item \in Item, NEW a \in AnswerSet, a.intent \in Changing
    PROVE  Changed(item, a) \in Item
<1>1. \/ \E i \in Item : a = Create(i)
      \/ \E c \in Currency : a = Update("cur", c)
      \/ \E b \in Bill : a = Update("bill", b)
    BY DEF AnswerSet, Query, Refuse, Changing
<1>2. ASSUME NEW i \in Item, a = Create(i) PROVE Changed(item, a) \in Item
    BY <1>2 DEF Create, Changed, Item
<1>3. ASSUME NEW c \in Currency, a = Update("cur", c) PROVE Changed(item, a) \in Item
    BY <1>3 DEF Update, Changed, Item
<1>4. ASSUME NEW b \in Bill, a = Update("bill", b) PROVE Changed(item, a) \in Item
    BY <1>4 DEF Update, Changed, Item
<1> QED
    BY <1>1, <1>2, <1>3, <1>4

(* A create asks for an expense.                                           *)
LEMMA CreateType ==
    ASSUME NEW a \in AnswerSet, a.intent = "create"
    PROVE  a.item \in Item
BY DEF AnswerSet, Query, Refuse, Create, Update

Row == [by : Message, item : Item, at : Nat]
Event == [row : DOMAIN rows, old : Item, new : Item]
Ledger ==
    /\ rows \in Seq(Row) /\ events \in Seq(Event)
    /\ effects \subseteq Message \X DOMAIN rows

(* What a statement does to the ledger: nothing, ...                       *)
Appended(w) ==
    LET row == [by |-> job[w], item |-> answer[w].item, at |-> stamp[w]] IN
    /\ row \in Row
    /\ Recorded(job[w]) = {}
    /\ rows' = Append(rows, row) /\ Len(rows') = Len(rows) + 1
    /\ DOMAIN rows' = DOMAIN rows \cup {Len(rows) + 1}
    /\ \A r \in DOMAIN rows : rows'[r] = rows[r]
    /\ rows'[Len(rows) + 1] = row
    /\ Len(rows) + 1 \notin DOMAIN rows
    /\ effects' = effects \cup {<<job[w], Len(rows) + 1>>}
    /\ events' = events

LEMMA InsertLedger ==
    ASSUME Typed, NEW w \in Worker, pc[w] = "append", Insert(w)
    PROVE  /\ UNCHANGED ledgerVars \/ Appended(w)
           /\ Ledger'
           /\ DOMAIN rows \subseteq DOMAIN rows'
<1>1. Ledger
    BY DEF Typed, LegacyTypeOK, Ledger, Row, Event
<1>2. CASE UNCHANGED ledgerVars
    BY <1>1, <1>2 DEF ledgerVars, Ledger, Event
<1>3. CASE ~UNCHANGED ledgerVars
  <2> DEFINE row == [by |-> job[w], item |-> answer[w].item, at |-> stamp[w]]
  <2>1. row \in Row
      BY CreateType DEF Typed, InHand, LegacyTypeOK, Row
  <2>2. /\ Recorded(job[w]) = {} /\ rows' = Append(rows, row)
        /\ effects' = effects \cup {<<job[w], Len(rows) + 1>>}
        /\ events' = events
      BY <1>3 DEF Insert
  <2> HIDE DEF row
  <2>3. /\ rows' \in Seq(Row) /\ Len(rows') = Len(rows) + 1
        /\ DOMAIN rows' = DOMAIN rows \cup {Len(rows) + 1}
        /\ \A r \in DOMAIN rows : rows'[r] = rows[r]
        /\ rows'[Len(rows) + 1] = row
        /\ Len(rows) + 1 \notin DOMAIN rows
      BY <1>1, <2>1, <2>2 DEF Ledger
  <2>4. Event \subseteq Event'
      BY <2>3 DEF Event
  <2>5. events' \in Seq(Event)'
      BY <1>1, <2>2, <2>4, SeqMonotonic DEF Ledger
  <2>6. effects' \subseteq Message \X DOMAIN rows'
      BY <1>1, <2>2, <2>3 DEF Ledger, Typed, InHand
  <2> QED
      BY <2>1, <2>2, <2>3, <2>5, <2>6 DEF Ledger, Appended, row
<1> QED
    BY <1>2, <1>3

(* ... or a change of the row the request aims at, with its event.         *)
Changes(w, r, new) ==
    /\ r = goal[w] /\ new = Changed(seen[w], answer[w]) /\ new \in Item
    /\ rows' = [rows EXCEPT ![r].item = new]
    /\ DOMAIN rows' = DOMAIN rows
    /\ \A s \in DOMAIN rows :
           /\ rows'[s].by = rows[s].by
           /\ rows'[s].item = IF s = r THEN new ELSE rows[s].item
    /\ effects' = effects \cup {<<job[w], r>>}
    /\ events' = IF storage = "postgres"
                 THEN Append(events, [row |-> r, old |-> seen[w], new |-> new])
                 ELSE events

LEMMA WriteLedger ==
    ASSUME Typed, NEW w \in Worker, pc[w] = "write", Write(w),
           NEW r, r = goal[w], NEW new, new = Changed(seen[w], answer[w])
    PROVE  Changes(w, r, new) /\ Ledger'
<1>1. Ledger /\ r \in DOMAIN rows /\ job[w] \in Message /\ seen[w] \in Item
    BY DEF Typed, LegacyTypeOK, Ledger, Row, Event, InHand, AtTarget
<1>2. new \in Item
    BY <1>1, ChangedType DEF Typed, InHand, AtTarget
<1>3. /\ rows' = [rows EXCEPT ![r].item = new]
      /\ effects' = effects \cup {<<job[w], r>>}
      /\ events' = IF storage = "postgres"
                   THEN Append(events, [row |-> r, old |-> seen[w], new |-> new])
                   ELSE events
    BY DEF Write
<1>4. /\ rows' \in Seq(Row) /\ DOMAIN rows' = DOMAIN rows
      /\ \A s \in DOMAIN rows :
             /\ rows'[s].by = rows[s].by
             /\ rows'[s].item = IF s = r THEN new ELSE rows[s].item
  <2>1. rows \in [1 .. Len(rows) -> Row] /\ Len(rows) \in Nat
      BY <1>1, SeqDef DEF Ledger
  <2>2. rows' \in [1 .. Len(rows) -> Row]
      BY <1>1, <1>2, <1>3, <2>1 DEF Row
  <2>3. rows' \in Seq(Row)
      BY <2>1, <2>2, SeqDef
  <2>4. \A s \in DOMAIN rows :
            /\ rows'[s].by = rows[s].by
            /\ rows'[s].item = IF s = r THEN new ELSE rows[s].item
      BY <1>3, <2>1 DEF Row
  <2> QED
      BY <2>1, <2>2, <2>3, <2>4
<1>5. Event' = Event
    BY <1>4 DEF Event
<1>6. events' \in Seq(Event)
  <2>1. [row |-> r, old |-> seen[w], new |-> new] \in Event
      BY <1>1, <1>2 DEF Event
  <2> QED
      BY <1>1, <1>3, <2>1 DEF Ledger
<1>7. effects' \subseteq Message \X DOMAIN rows'
    BY <1>1, <1>3, <1>4 DEF Ledger
<1> QED
    BY <1>2, <1>3, <1>4, <1>5, <1>6, <1>7 DEF Changes, Ledger

LEMMA TypedInit == Init => Typed
<1> SUFFICES ASSUME Init PROVE Typed
    OBVIOUS
<1>1. rows \in Seq([by : Message, item : Item, at : Nat])
      /\ events \in Seq([row : DOMAIN rows, old : Item, new : Item])
    BY EmptySeq DEF Init
<1> QED
    BY <1>1 DEF Init, Typed, LegacyTypeOK, InHand, AtTarget

(* A step of one request leaves the others where they are.                 *)
Others(w) ==
    \A v \in Worker \ {w} :
        /\ pc'[v] = pc[v] /\ job'[v] = job[v] /\ answer'[v] = answer[v]
        /\ goal'[v] = goal[v] /\ seen'[v] = seen[v]

LEMMA InHandOthers ==
    ASSUME Typed, NEW w \in Worker, Others(w), DOMAIN rows \subseteq DOMAIN rows'
    PROVE  \A v \in Worker \ {w} : InHand(v)'
BY DEF Typed, Others, InHand

(* The end of a request.                                                   *)
LEMMA EndTyped ==
    ASSUME Typed, NEW W \in SUBSET Worker, EndOf(W), UNCHANGED ledgerVars,
           storage' = storage,
           clock' \in Nat, failures' \in Nat, acked' \in [Message -> BOOLEAN],
           targets' \in [Message -> DOMAIN rows \cup {0}], calm' \in BOOLEAN
    PROVE  Typed'
<1>1. LegacyTypeOK'
    BY DEF EndOf, Typed, LegacyTypeOK, ledgerVars
<1>2. ASSUME NEW w \in Worker PROVE InHand(w)'
    BY <1>2 DEF EndOf, Typed, InHand, ledgerVars, AtTarget
<1> QED
    BY <1>1, <1>2 DEF Typed

LEMMA TypedStep == Typed /\ [Next]_vars => Typed'
<1> SUFFICES ASSUME Typed, [Next]_vars PROVE Typed'
    OBVIOUS
<1>0. Ledger /\ clock \in Nat /\ failures \in Nat
    BY DEF Typed, LegacyTypeOK, Ledger, Row, Event
<1>items. \A r \in DOMAIN rows : rows[r].item \in Item
  <2>1. rows \in [1 .. Len(rows) -> Row]
      BY <1>0, LenProperties DEF Ledger
  <2> QED
      BY <2>1 DEF Row
<1>failure. Failure => failures' \in Nat
    BY <1>0 DEF Failure
<1>tick. Tick => clock' \in Nat
    BY <1>0 DEF Tick
<1> USE DEF Typed, LegacyTypeOK
<1>1. ASSUME NEW w \in Worker, NEW m \in Message, Deliver(w, m) PROVE Typed'
  <2>1. LegacyTypeOK'
      BY <1>1 DEF Deliver, Goto, ledgerVars, outVars
  <2>2. InHand(w)' /\ Others(w) /\ rows' = rows
      BY <1>1 DEF Deliver, Goto, InHand, AtTarget, Others, ledgerVars
  <2> QED
      BY <2>1, <2>2, InHandOthers
<1>2. ASSUME NEW w \in Worker, FindMessage(w) PROVE Typed'
  <2>1. LegacyTypeOK'
      BY <1>2 DEF FindMessage, Say, Goto, ledgerVars, outVars
  <2>2. InHand(w)' /\ Others(w) /\ rows' = rows
      BY <1>2 DEF FindMessage, Say, Goto, InHand, AtTarget, Others, ledgerVars
  <2> QED
      BY <2>1, <2>2, InHandOthers
<1>3. ASSUME NEW w \in Worker, Parse(w) PROVE Typed'
  <2>0. job[w] \in Message /\ targets[job[w]] \in DOMAIN rows \cup {0}
      BY <1>3 DEF Parse, InHand
  <2>1. PICK a \in Answer[job[w]] :
            /\ answer' = [answer EXCEPT ![w] = a]
            /\ IF a.intent \in {"create", "update"}
               THEN /\ goal' = [goal EXCEPT ![w] = targets[job[w]]]
                    /\ known' = [known EXCEPT ![w] = targets[job[w]] # 0]
                    /\ Goto(w, IF targets[job[w]] = 0 THEN "latest" ELSE "read")
                    /\ UNCHANGED reply
               ELSE /\ Say(w, IF a.intent = "query" THEN "total" ELSE "refused")
                    /\ UNCHANGED <<goal, known>>
      BY <1>3 DEF Parse, Recall
  <2>2. a \in AnswerSet
      BY <2>0, <2>1
  <2> HIDE LegacyAssumption
  <2>3. UNCHANGED <<ledgerVars, targets, job, seen, stamp, calm, outVars>>
      BY <1>3 DEF Parse
  <2>4. LegacyTypeOK'
    <3>1. CASE a.intent \in {"create", "update"}
        BY <2>0, <2>1, <2>2, <2>3, <3>1 DEF Goto, ledgerVars, outVars
    <3>2. CASE a.intent \notin {"create", "update"}
        BY <2>0, <2>1, <2>2, <2>3, <3>2 DEF Say, Goto, ledgerVars, outVars
    <3> QED
        BY <3>1, <3>2
  <2>5. Others(w) /\ rows' = rows
      BY <2>1, <2>3 DEF Say, Goto, Others, ledgerVars
  <2>6. InHand(w)'
    <3>1. CASE a.intent \in {"create", "update"}
        BY <2>0, <2>1, <2>2, <2>3, <3>1 DEF Goto, InHand, AtTarget, Changing, ledgerVars
    <3>2. CASE a.intent \notin {"create", "update"}
        BY <2>0, <2>1, <2>2, <2>3, <3>2 DEF Say, Goto, InHand, AtTarget, ledgerVars
    <3> QED
        BY <3>1, <3>2
  <2> QED
      BY <2>4, <2>5, <2>6, InHandOthers
<1>4. ASSUME NEW w \in Worker, ChooseTarget(w) PROVE Typed'
  <2>0. UNCHANGED <<ledgerVars, targets, job, answer, known, seen, stamp, calm, outVars>>
        /\ pc[w] = "latest"
      BY <1>4 DEF ChooseTarget
  <2>1. CASE Say(w, "nothing to update") /\ UNCHANGED goal
    <3>1. LegacyTypeOK'
        BY <2>0, <2>1 DEF Say, Goto, ledgerVars, outVars
    <3>2. InHand(w)' /\ Others(w) /\ rows' = rows
        BY <2>0, <2>1 DEF Say, Goto, InHand, AtTarget, Others, ledgerVars
    <3> QED
        BY <3>1, <3>2, InHandOthers
  <2>2. ASSUME NEW r \in DOMAIN rows, Aim(w, r), UNCHANGED reply PROVE Typed'
    <3>1. LegacyTypeOK'
        BY <2>0, <2>2 DEF Aim, Goto, ledgerVars, outVars
    <3>2. InHand(w)' /\ Others(w) /\ rows' = rows
        BY <2>0, <2>2 DEF Aim, Goto, InHand, AtTarget, Others, ledgerVars
    <3> QED
        BY <3>1, <3>2, InHandOthers
  <2>3. Latest \subseteq DOMAIN rows
      BY DEF Latest
  <2> QED
      BY <1>4, <2>1, <2>2, <2>3 DEF ChooseTarget
<1>5. ASSUME NEW w \in Worker, GuardCreate(w) PROVE Typed'
  <2>0. UNCHANGED <<ledgerVars, targets, job, answer, known, seen, calm, outVars>>
        /\ pc[w] = "latest" /\ answer[w].intent = "create"
      BY <1>5 DEF GuardCreate
  <2>1. CASE stamp' = [stamp EXCEPT ![w] = clock] /\ Goto(w, "append")
             /\ UNCHANGED <<goal, reply>>
    <3>1. LegacyTypeOK'
        BY <2>0, <2>1 DEF Goto, ledgerVars, outVars
    <3>2. InHand(w)' /\ Others(w) /\ rows' = rows
        BY <2>0, <2>1 DEF Goto, InHand, AtTarget, Others, ledgerVars
    <3> QED
        BY <3>1, <3>2, InHandOthers
  <2>2. CASE Say(w, "similar") /\ UNCHANGED <<goal, stamp>>
    <3>1. LegacyTypeOK'
        BY <2>0, <2>2 DEF Say, Goto, ledgerVars, outVars
    <3>2. InHand(w)' /\ Others(w) /\ rows' = rows
        BY <2>0, <2>2 DEF Say, Goto, InHand, AtTarget, Others, ledgerVars
    <3> QED
        BY <3>1, <3>2, InHandOthers
  <2>3. ASSUME NEW r \in DOMAIN rows, Aim(w, r), UNCHANGED <<stamp, reply>> PROVE Typed'
    <3>1. LegacyTypeOK'
        BY <2>0, <2>3 DEF Aim, Goto, ledgerVars, outVars
    <3>2. InHand(w)' /\ Others(w) /\ rows' = rows
        BY <2>0, <2>3 DEF Aim, Goto, InHand, AtTarget, Others, ledgerVars
    <3> QED
        BY <3>1, <3>2, InHandOthers
  <2>4. Latest \subseteq DOMAIN rows
      BY DEF Latest
  <2> QED
      BY <1>5, <2>1, <2>2, <2>3, <2>4 DEF GuardCreate
<1>6. ASSUME NEW w \in Worker, pc[w] = "append", Insert(w),
             calm' \in BOOLEAN, failures' \in Nat, acked' = acked, clock' = clock,
             UNCHANGED <<targets, job, answer, goal, known, seen, stamp, storage>>,
             reply' \in [Worker -> {"none", "recorded", "updated", "similar", "total",
                                    "refused", "nothing to update", "failed"}],
             Goto(w, "send")
      PROVE  Typed'
  <2>1. Ledger' /\ DOMAIN rows \subseteq DOMAIN rows'
      BY <1>6, InsertLedger
  <2>2. LegacyTypeOK'
      BY <1>6, <2>1 DEF Goto, Ledger, Row, Event
  <2>3. InHand(w)' /\ Others(w)
      BY <1>6 DEF Goto, InHand, AtTarget, Others
  <2> QED
      BY <2>1, <2>2, <2>3, InHandOthers
<1>7. ASSUME NEW w \in Worker, AppendRow(w) PROVE Typed'
    BY <1>6, <1>7 DEF AppendRow, Say, outVars
<1>8. ASSUME NEW w \in Worker, ReadTarget(w) PROVE Typed'
  <2>1. rows[goal[w]].item \in Item
      BY <1>8, <1>items DEF ReadTarget, InHand, AtTarget
  <2>2. LegacyTypeOK'
      BY <1>8, <2>1 DEF ReadTarget, Goto, ledgerVars, outVars
  <2>3. InHand(w)' /\ Others(w) /\ rows' = rows
      BY <1>8, <2>1 DEF ReadTarget, Goto, InHand, AtTarget, Others, ledgerVars
  <2> QED
      BY <2>2, <2>3, InHandOthers
<1>9. ASSUME NEW w \in Worker, pc[w] = "write", Write(w), NEW to \in {"send", "remember"},
             Goto(w, to), calm' \in BOOLEAN, failures' \in Nat, acked' = acked,
             clock' = clock, UNCHANGED <<targets, job, answer, goal, known, stamp, storage>>,
             seen' = seen \/ seen' = [seen EXCEPT ![w] = NoItem],
             reply' \in [Worker -> {"none", "recorded", "updated", "similar", "total",
                                    "refused", "nothing to update", "failed"}]
      PROVE  Typed'
  <2>1. Ledger' /\ DOMAIN rows' = DOMAIN rows
      BY <1>9, WriteLedger DEF Changes
  <2>2. LegacyTypeOK'
      BY <1>9, <2>1 DEF Goto, Ledger, Row, Event
  <2>3. InHand(w)' /\ Others(w)
      BY <1>9, <2>1 DEF Goto, InHand, AtTarget, Others
  <2> QED
      BY <2>1, <2>2, <2>3, InHandOthers
<1>10. ASSUME NEW w \in Worker, WriteTarget(w) PROVE Typed'
  <2>1. CASE Say(w, "updated")
      BY <1>9, <1>10, <2>1 DEF WriteTarget, Say, outVars
  <2>2. CASE Goto(w, "remember") /\ UNCHANGED reply
      BY <1>9, <1>10, <2>2 DEF WriteTarget, outVars
  <2> QED
      BY <1>10, <2>1, <2>2 DEF WriteTarget
<1>11. ASSUME NEW w \in Worker, Remember(w) PROVE Typed'
  <2>1. job[w] \in Message /\ goal[w] \in DOMAIN rows
      BY <1>11 DEF Remember, InHand, AtTarget
  <2>2. LegacyTypeOK'
      BY <1>11, <2>1 DEF Remember, Say, Goto, ledgerVars, outVars
  <2>3. InHand(w)' /\ Others(w) /\ rows' = rows
      BY <1>11 DEF Remember, Say, Goto, InHand, AtTarget, Others, ledgerVars
  <2> QED
      BY <2>2, <2>3, InHandOthers
<1>12. ASSUME NEW w \in Worker, SendReply(w) \/ SendFails(w) PROVE Typed'
  <2>1. acked' \in [Message -> BOOLEAN] /\ failures' \in Nat
      BY <1>12, <1>failure DEF SendReply, SendFails
  <2> QED
      BY <1>12, <2>1, EndTyped DEF SendReply, SendFails
<1>13. ASSUME NEW w \in Worker, CallFails(w) PROVE Typed'
  <2>1. LegacyTypeOK'
      BY <1>13, <1>failure DEF CallFails, Say, Goto, ledgerVars
  <2>2. InHand(w)' /\ Others(w) /\ rows' = rows
      BY <1>13 DEF CallFails, Say, Goto, InHand, AtTarget, Others, ledgerVars
  <2> QED
      BY <2>1, <2>2, InHandOthers
<1>14. ASSUME NEW w \in Worker, AnswerLost(w) PROVE Typed'
  <2>1. failures' \in Nat /\ calm' \in BOOLEAN
      BY <1>14, <1>failure DEF AnswerLost
  <2>2. CASE pc[w] = "append" /\ Insert(w)
      BY <1>6, <1>14, <2>1, <2>2 DEF AnswerLost, Say
  <2>3. CASE pc[w] = "write" /\ Write(w)
      BY <1>9, <1>14, <2>1, <2>3 DEF AnswerLost, Say
  <2> QED
      BY <1>14, <2>2, <2>3 DEF AnswerLost
<1>15. CASE Restart
  <2>1. failures' \in Nat /\ targets' \in [Message -> DOMAIN rows \cup {0}]
      BY <1>15, <1>failure DEF Restart
  <2> QED
      BY <1>15, <2>1, EndTyped DEF Restart
<1>16. CASE Tick \/ UNCHANGED vars
  <2>1. clock' \in Nat /\ UNCHANGED <<storage, rows, events, targets, pc, localVars, calm,
                                      acked, effects, failures>>
      BY <1>16, <1>tick DEF Tick, vars, ledgerVars, localVars
  <2> QED
      BY <2>1 DEF InHand, localVars
<1> QED
    BY <1>1, <1>2, <1>3, <1>4, <1>5, <1>7, <1>8, <1>10, <1>11, <1>12, <1>13, <1>14,
       <1>15, <1>16
    DEF Next, WorkerStep

LEMMA AlwaysTyped == Spec => []Typed
BY TypedInit, TypedStep, PTL DEF Spec

(* On either ledger every variable keeps its type; with it, a request that *)
(* is about to write has an expense of the ledger to write to.             *)
THEOREM LegacyTypes == Spec => []LegacyTypeOK
<1>1. Typed => LegacyTypeOK
    BY DEF Typed
<1> QED
    BY <1>1, AlwaysTyped, PTL

-----------------------------------------------------------------------------
(* One row per message *)

Moves(w) ==
    \/ WorkerStep(w) \/ SendFails(w) \/ CallFails(w) \/ AnswerLost(w)
    \/ \E m \in Message : Deliver(w, m)

LEMMA StepKinds ==
    ASSUME [Next]_vars
    PROVE  (\E w \in Worker : Moves(w)) \/ Restart \/ Tick \/ UNCHANGED vars
BY DEF Next, Moves

(* What a request does is done to its own row of the tables of requests.   *)
LEMMA OthersStay ==
    ASSUME Typed, NEW w \in Worker, Moves(w)
    PROVE  Others(w)
<1> USE DEF Typed, LegacyTypeOK
<1>1. CASE FindMessage(w) \/ Parse(w) \/ ChooseTarget(w) \/ GuardCreate(w)
    BY <1>1 DEF FindMessage, Parse, ChooseTarget, GuardCreate, Say, Goto, Aim, Others
<1>2. CASE AppendRow(w) \/ ReadTarget(w) \/ WriteTarget(w) \/ Remember(w)
    BY <1>2 DEF AppendRow, ReadTarget, WriteTarget, Remember, Say, Goto, Others
<1>3. CASE SendReply(w) \/ SendFails(w)
  <2>1. EndOf({w})
      BY <1>3 DEF SendReply, SendFails
  <2> QED
      BY <2>1 DEF EndOf, Others
<1>4. CASE CallFails(w) \/ AnswerLost(w)
    BY <1>4 DEF CallFails, AnswerLost, Say, Goto, Others
<1>5. CASE \E m \in Message : Deliver(w, m)
    BY <1>5 DEF Deliver, Goto, Others
<1> QED
    BY <1>1, <1>2, <1>3, <1>4, <1>5 DEF Moves, WorkerStep

(* Calm does not come back, and the ledger is the same for good.           *)
LEMMA NeverCalmAgain ==
    ASSUME [Next]_vars
    PROVE  storage' = storage /\ (calm' => calm)
<1>1. ASSUME NEW w \in Worker, Moves(w) PROVE storage' = storage
    BY <1>1 DEF Moves, WorkerStep, FindMessage, Parse, ChooseTarget, GuardCreate,
       AppendRow, ReadTarget, WriteTarget, Remember, SendReply, SendFails, CallFails,
       AnswerLost, Deliver, outVars
<1>2. ASSUME NEW w \in Worker, Moves(w) PROVE calm' => calm
    BY <1>2, Zenon DEF Moves, WorkerStep, FindMessage, Parse, ChooseTarget, GuardCreate,
       AppendRow, ReadTarget, WriteTarget, Remember, SendReply, SendFails, CallFails,
       AnswerLost, Deliver
<1>3. Restart \/ Tick \/ UNCHANGED vars => storage' = storage
    BY DEF Restart, Tick, vars
<1>4. Restart \/ Tick \/ UNCHANGED vars => (calm' => calm)
    BY Zenon DEF Restart, Tick, vars
<1> QED
    BY <1>1, <1>2, <1>3, <1>4, StepKinds

(* The ledger changes by one append or one change of a row.                *)
LEMMA LedgerSteps ==
    ASSUME Typed, [Next]_vars
    PROVE  \/ UNCHANGED ledgerVars
           \/ \E w \in Worker : pc[w] = "append" /\ pc'[w] = "send" /\ Appended(w)
           \/ \E w \in Worker : pc[w] = "write" /\ pc'[w] \in {"send", "remember"}
                                /\ \E r, new : Changes(w, r, new)
<1>0. pc \in [Worker -> {"idle", "find", "parse", "latest", "append", "read",
                         "write", "remember", "send"}]
    BY DEF Typed, LegacyTypeOK
<1>1. ASSUME NEW w \in Worker, AppendRow(w) \/ AnswerLost(w), pc[w] = "append"
      PROVE  UNCHANGED ledgerVars \/ (pc'[w] = "send" /\ Appended(w))
  <2>1. Insert(w) /\ pc'[w] = "send"
      BY <1>0, <1>1 DEF AppendRow, AnswerLost, Say, Goto
  <2> QED
      BY <1>1, <2>1, InsertLedger
<1>2. ASSUME NEW w \in Worker, WriteTarget(w) \/ AnswerLost(w), pc[w] = "write"
      PROVE  pc'[w] \in {"send", "remember"} /\ \E r, new : Changes(w, r, new)
  <2>1. Write(w) /\ pc'[w] \in {"send", "remember"}
      BY <1>0, <1>2 DEF WriteTarget, AnswerLost, Say, Goto
  <2>2. \E r, new : r = goal[w] /\ new = Changed(seen[w], answer[w])
      OBVIOUS
  <2> QED
      BY <1>2, <2>1, <2>2, WriteLedger
<1>3. ASSUME NEW w \in Worker, Moves(w), ~AppendRow(w), ~WriteTarget(w), ~AnswerLost(w)
      PROVE  UNCHANGED ledgerVars
    BY <1>3 DEF Moves, WorkerStep, FindMessage, Parse, ChooseTarget, GuardCreate,
       ReadTarget, Remember, SendReply, SendFails, CallFails, Deliver
<1>4. CASE Restart \/ Tick \/ UNCHANGED vars
    BY <1>4 DEF Restart, Tick, vars, ledgerVars
<1>5. ASSUME NEW w \in Worker
      PROVE  /\ AppendRow(w) => pc[w] = "append"
             /\ WriteTarget(w) => pc[w] = "write"
             /\ AnswerLost(w) => pc[w] \in {"append", "write"}
    BY DEF AppendRow, WriteTarget, AnswerLost
<1> QED
    BY <1>1, <1>2, <1>3, <1>4, <1>5, StepKinds

(* Rows keep their message, and stay.                                      *)
LEMMA RowsStay ==
    ASSUME Typed, [Next]_vars
    PROVE  /\ \A r \in DOMAIN rows : r \in DOMAIN rows' /\ rows'[r].by = rows[r].by
           /\ \A m : RowsOf(m) \subseteq RowsOf(m)'
           /\ (~\E w \in Worker : pc[w] = "append" /\ pc'[w] = "send") =>
                  DOMAIN rows' = DOMAIN rows /\ \A m : RowsOf(m)' = RowsOf(m)
<1>1. /\ \A r \in DOMAIN rows : r \in DOMAIN rows' /\ rows'[r].by = rows[r].by
      /\ (~\E w \in Worker : pc[w] = "append" /\ pc'[w] = "send") =>
             DOMAIN rows' = DOMAIN rows
    BY LedgerSteps DEF ledgerVars, Appended, Changes
<1> QED
    BY <1>1 DEF RowsOf

LEMMA AloneBefore ==
    ASSUME OneAtATime, calm, NEW w \in Worker, pc[w] # "idle"
    PROVE  \A v \in Worker \ {w} : pc[v] = "idle"
BY DEF OneAtATime

(* While calm lasts, the request that takes a step is alone after it.      *)
LEMMA AloneAfter ==
    ASSUME Typed, OneAtATime, NEW w \in Worker, Moves(w), calm'
    PROVE  calm /\ \A v \in Worker \ {w} : pc[v] = "idle" /\ pc'[v] = "idle"
<1>1. Others(w) /\ calm
    BY OthersStay, NeverCalmAgain DEF Next, Moves
<1>2. \A v \in Worker \ {w} : pc[v] = "idle"
  <2>1. CASE pc[w] # "idle"
      BY <1>1, <2>1, AloneBefore
  <2>2. CASE pc[w] = "idle"
      BY <2>2 DEF Moves, WorkerStep, FindMessage, Parse, ChooseTarget, GuardCreate,
         AppendRow, ReadTarget, WriteTarget, Remember, SendReply, SendFails, CallFails,
         AnswerLost, Deliver, Busy
  <2> QED
      BY <2>1, <2>2
<1> QED
    BY <1>1, <1>2 DEF Others

LEMMA OneAtATimeStep == Typed /\ OneAtATime /\ [Next]_vars => OneAtATime'
<1> SUFFICES ASSUME Typed, OneAtATime, [Next]_vars, calm' PROVE OneAtATime'
    BY DEF OneAtATime
<1>1. ASSUME NEW w \in Worker, Moves(w) PROVE OneAtATime'
    BY <1>1, AloneAfter DEF OneAtATime
<1>2. CASE Tick \/ UNCHANGED vars
    BY <1>2 DEF Tick, vars, OneAtATime
<1> QED
    BY <1>1, <1>2, StepKinds DEF Restart

(* A request comes past its search only with nothing found.                *)
LEMMA SearchFailed ==
    ASSUME Typed, NEW w \in Worker, Moves(w), pc'[w] \in PastFind
    PROVE  /\ job'[w] = job[w] /\ pc[w] # "idle" /\ pc[w] # "append"
           /\ pc[w] \in PastFind \/ RowsOf(job[w]) = {}
<1> USE DEF Typed, LegacyTypeOK, PastFind, AtTarget
<1>1. CASE FindMessage(w) \/ Parse(w) \/ ChooseTarget(w) \/ GuardCreate(w)
    BY <1>1 DEF FindMessage, Parse, ChooseTarget, GuardCreate, Say, Goto, Aim
<1>2. CASE AppendRow(w) \/ ReadTarget(w) \/ WriteTarget(w) \/ Remember(w)
    BY <1>2 DEF AppendRow, ReadTarget, WriteTarget, Remember, Say, Goto
<1>3. CASE SendReply(w) \/ SendFails(w) \/ CallFails(w) \/ AnswerLost(w)
    BY <1>3 DEF SendReply, SendFails, CallFails, AnswerLost, EndOf, Say, Goto
<1>4. CASE \E m \in Message : Deliver(w, m)
    BY <1>4 DEF Deliver, Goto
<1> QED
    BY <1>1, <1>2, <1>3, <1>4 DEF Moves, WorkerStep

LEMMA NotRecordedStep == Typed /\ Single /\ [Next]_vars => NotRecorded'
<1> SUFFICES ASSUME Typed, Single, [Next]_vars, calm', NEW v \in Worker,
                    pc'[v] \in PastFind
             PROVE  RowsOf(job[v])' = {}
    BY DEF NotRecorded
<1>1. ASSUME NEW w \in Worker, Moves(w) PROVE RowsOf(job[v])' = {}
  <2>1. calm /\ \A u \in Worker \ {w} : pc[u] = "idle" /\ pc'[u] = "idle"
      BY <1>1, AloneAfter DEF Single
  <2>2. v = w
      BY <2>1 DEF PastFind, AtTarget
  <2>3. job'[v] = job[v] /\ RowsOf(job[v]) = {} /\ pc[v] # "append"
      BY <1>1, <2>1, <2>2, SearchFailed DEF Single, NotRecorded
  <2>4. \A m : RowsOf(m)' = RowsOf(m)
      BY <2>1, <2>2, <2>3, RowsStay
  <2> QED
      BY <2>3, <2>4
<1>2. CASE Tick \/ UNCHANGED vars
  <2>1. UNCHANGED <<pc, job, rows, calm>>
      BY <1>2 DEF Tick, vars, ledgerVars, localVars
  <2> QED
      BY <2>1 DEF Single, NotRecorded, RowsOf
<1> QED
    BY <1>1, <1>2, StepKinds DEF Restart

LEMMA UniqueRowsStep == Typed /\ Single /\ [Next]_vars => UniqueRows'
<1> SUFFICES ASSUME Typed, Single, [Next]_vars, storage' = "postgres" \/ calm'
             PROVE  \A r, s \in DOMAIN rows' : rows'[r].by = rows'[s].by => r = s
    BY DEF UniqueRows
<1>1. storage' = storage /\ (calm' => calm)
    BY NeverCalmAgain
<1>2. \A r, s \in DOMAIN rows : rows[r].by = rows[s].by => r = s
    BY <1>1 DEF Single, UniqueRows
<1>3. CASE UNCHANGED ledgerVars
    BY <1>2, <1>3 DEF ledgerVars
<1>4. ASSUME NEW w \in Worker, pc[w] = "append", Appended(w)
      PROVE  \A r, s \in DOMAIN rows' : rows'[r].by = rows'[s].by => r = s
  <2>1. RowsOf(job[w]) = {}
      BY <1>1, <1>4 DEF Appended, Recorded, Single, NotRecorded, PastFind
  <2>2. \A r \in DOMAIN rows : rows[r].by # job[w]
      BY <2>1 DEF RowsOf
  <2>3. /\ DOMAIN rows' = DOMAIN rows \cup {Len(rows) + 1}
        /\ \A r \in DOMAIN rows : rows'[r].by = rows[r].by
        /\ rows'[Len(rows) + 1].by = job[w]
      BY <1>4 DEF Appended
  <2> QED
      BY <1>2, <2>2, <2>3
<1>5. ASSUME NEW w \in Worker, NEW r, NEW new, Changes(w, r, new)
      PROVE  \A p, s \in DOMAIN rows' : rows'[p].by = rows'[s].by => p = s
    BY <1>2, <1>5 DEF Changes
<1> QED
    BY <1>3, <1>4, <1>5, LedgerSteps

LEMMA SingleInit == Init => Single
BY DEF Init, Single, OneAtATime, NotRecorded, UniqueRows, PastFind, AtTarget, RowsOf

LEMMA SingleStep == Typed /\ Single /\ [Next]_vars => Single'
BY OneAtATimeStep, NotRecordedStep, UniqueRowsStep DEF Single

LEMMA AlwaysSingle == Spec => [](Typed /\ Single)
BY TypedInit, TypedStep, SingleInit, SingleStep, PTL DEF Spec

(* A message has at most one transaction: in PostgreSQL under any race, in *)
(* a worksheet as long as one request runs at a time, with no restart and  *)
(* no lost answer.                                                         *)
THEOREM MessageRecordedOnce == Spec => []RecordedOnce
<1>1. Typed /\ Single => RecordedOnce
  <2> SUFFICES ASSUME Typed, Single, storage = "postgres" \/ calm, NEW m \in Message
               PROVE  Cardinality(RowsOf(m)) <= 1
      BY DEF RecordedOnce
  <2>1. \A r, s \in RowsOf(m) : r = s
      BY DEF Single, UniqueRows, RowsOf
  <2>2. CASE RowsOf(m) = {}
      BY <2>2, FS_EmptySet
  <2>3. CASE RowsOf(m) # {}
    <3>1. PICK r : RowsOf(m) = {r}
        BY <2>1, <2>3
    <3>2. Cardinality({r}) = 1
        BY FS_Singleton
    <3> QED
        BY <3>1, <3>2
  <2> QED
      BY <2>2, <2>3
<1> QED
    BY <1>1, AlwaysSingle, PTL

-----------------------------------------------------------------------------
(* One effect per message *)

(* How a request comes to its target.                                      *)
LEMMA TargetFound ==
    ASSUME Typed, NEW w \in Worker, Moves(w),
           pc'[w] \in {"latest", "append"} \cup AtTarget
    PROVE  /\ job'[w] = job[w] /\ targets' = targets
           /\ pc'[w] \in {"latest", "append"} =>
                  pc[w] = "latest" \/ (pc[w] = "parse" /\ targets[job[w]] = 0)
           /\ pc'[w] \in AtTarget =>
                  \/ pc[w] = "parse" /\ goal'[w] = targets[job[w]]
                  \/ pc[w] = "latest"
                  \/ pc[w] \in AtTarget /\ goal'[w] = goal[w]
           /\ pc'[w] \in {"latest"} \cup AtTarget =>
                  \/ pc[w] = "parse" /\ known'[w] = (targets[job[w]] # 0)
                  \/ pc[w] \in {"latest"} \cup AtTarget /\ known'[w] = known[w]
<1> USE DEF Typed, LegacyTypeOK, AtTarget
<1>1. CASE FindMessage(w)
  <2>1. pc'[w] \in {"send", "parse"}
      BY <1>1 DEF FindMessage, Say, Goto
  <2> QED
      BY <2>1
<1>2. CASE Parse(w)
  <2>1. PICK a \in Answer[job[w]] :
            IF a.intent \in {"create", "update"}
            THEN /\ goal' = [goal EXCEPT ![w] = targets[job[w]]]
                 /\ known' = [known EXCEPT ![w] = targets[job[w]] # 0]
                 /\ Goto(w, IF targets[job[w]] = 0 THEN "latest" ELSE "read")
            ELSE Say(w, IF a.intent = "query" THEN "total" ELSE "refused")
      BY <1>2 DEF Parse, Recall
  <2>2. pc[w] = "parse" /\ targets' = targets /\ job' = job
      BY <1>2 DEF Parse
  <2>3. CASE a.intent \in {"create", "update"}
    <3>1. known'[w] = (targets[job[w]] # 0)
        BY <2>1, <2>3
    <3>2. goal'[w] = targets[job[w]]
          /\ pc'[w] = IF targets[job[w]] = 0 THEN "latest" ELSE "read"
        BY <2>1, <2>3 DEF Goto
    <3> QED
        BY <2>2, <3>1, <3>2
  <2>4. CASE a.intent \notin {"create", "update"}
      BY <2>1, <2>4 DEF Say, Goto
  <2> QED
      BY <2>3, <2>4
<1>3. CASE ChooseTarget(w) \/ GuardCreate(w)
    BY <1>3 DEF ChooseTarget, GuardCreate, Say, Goto, Aim
<1>4. CASE AppendRow(w) \/ ReadTarget(w) \/ WriteTarget(w) \/ Remember(w)
    BY <1>4 DEF AppendRow, ReadTarget, WriteTarget, Remember, Say, Goto
<1>5. CASE SendReply(w) \/ SendFails(w) \/ CallFails(w) \/ AnswerLost(w)
    BY <1>5 DEF SendReply, SendFails, CallFails, AnswerLost, EndOf, Say, Goto
<1>6. CASE \E m \in Message : Deliver(w, m)
    BY <1>6 DEF Deliver, Goto
<1> QED
    BY <1>1, <1>2, <1>3, <1>4, <1>5, <1>6 DEF Moves, WorkerStep

LEMMA SameTargetStep == Typed /\ Single /\ SameTarget /\ [Next]_vars => SameTarget'
<1> SUFFICES ASSUME Typed, Single, SameTarget, [Next]_vars, calm', NEW v \in Worker,
                    pc'[v] \in {"latest", "append"} \cup AtTarget
             PROVE  /\ pc'[v] \in {"latest", "append"} => targets'[job'[v]] = 0
                    /\ pc'[v] \in AtTarget => targets'[job'[v]] \in {0, goal'[v]}
                    /\ pc'[v] \in {"latest"} \cup AtTarget =>
                           known'[v] = (targets'[job'[v]] # 0)
    BY DEF SameTarget
<1>1. ASSUME NEW w \in Worker, Moves(w)
      PROVE  /\ pc'[v] \in {"latest", "append"} => targets'[job'[v]] = 0
             /\ pc'[v] \in AtTarget => targets'[job'[v]] \in {0, goal'[v]}
             /\ pc'[v] \in {"latest"} \cup AtTarget =>
                    known'[v] = (targets'[job'[v]] # 0)
  <2>1. calm /\ v = w
      BY <1>1, AloneAfter DEF Single, AtTarget
  <2>2. /\ pc[w] \in {"latest", "append"} => targets[job[w]] = 0
        /\ pc[w] \in AtTarget => targets[job[w]] \in {0, goal[w]}
        /\ pc[w] \in {"latest"} \cup AtTarget => known[w] = (targets[job[w]] # 0)
      BY <2>1 DEF SameTarget
  <2> QED
      BY <1>1, <2>1, <2>2, TargetFound DEF AtTarget
<1>2. CASE Tick \/ UNCHANGED vars
  <2>1. UNCHANGED <<pc, job, goal, known, targets, calm>>
      BY <1>2 DEF Tick, vars, localVars
  <2> QED
      BY <2>1 DEF SameTarget
<1> QED
    BY <1>1, <1>2, StepKinds DEF Restart

(* The one effect of a message, as it is seen when no request is about to  *)
(* remember it.                                                            *)
Trace(e) == IF RowsOf(e[1]) # {} THEN e[2] \in RowsOf(e[1]) ELSE targets[e[1]] = e[2]
Remembering(e) ==
    \E w \in Worker : pc[w] = "remember" /\ job[w] = e[1] /\ goal[w] = e[2]

LEMMA EffectsType ==
    Typed => /\ effects \subseteq Message \X DOMAIN rows /\ 0 \notin DOMAIN rows
             /\ targets \in [Message -> DOMAIN rows \cup {0}]
<1> SUFFICES ASSUME Typed
             PROVE  0 \notin DOMAIN rows
    BY DEF Typed, LegacyTypeOK
<1>1. rows \in Seq(Row)
    BY DEF Typed, LegacyTypeOK, Row
<1>2. DOMAIN rows = 1 .. Len(rows)
    BY <1>1, LenProperties
<1> QED
    BY <1>2

(* An append makes the row of a message that has no effect yet.            *)
LEMMA AppendTraced ==
    ASSUME Typed, Single, SameTarget, Traced, calm, NEW w \in Worker,
           pc[w] = "append", Appended(w), targets' = targets,
           NEW m, m = job[w], NEW e \in effects'
    PROVE  Trace(e)'
<1>1. \A v \in Worker \ {w} : pc[v] = "idle"
    BY AloneBefore DEF Single
<1>2. \A d \in effects : Trace(d)
    BY <1>1 DEF Traced, Trace
<1>3. RowsOf(m) = {} /\ targets[m] = 0
    BY DEF Single, NotRecorded, PastFind, SameTarget
<1>4. \A d \in effects : d[1] # m
    BY <1>2, <1>3, EffectsType DEF Trace
<1> DEFINE n == Len(rows) + 1
<1>5. /\ DOMAIN rows' = DOMAIN rows \cup {n}
      /\ \A r \in DOMAIN rows : rows'[r].by = rows[r].by
      /\ rows'[n].by = m
      /\ effects' = effects \cup {<<m, n>>}
    BY DEF Appended
<1> HIDE DEF n
<1>6. CASE e \in effects
  <2>1. RowsOf(e[1])' = RowsOf(e[1])
      BY <1>4, <1>5, <1>6 DEF RowsOf
  <2> QED
      BY <1>2, <1>6, <2>1 DEF Trace
<1>7. CASE e \notin effects
  <2>1. e = <<m, n>>
      BY <1>5, <1>7
  <2>2. e[1] = m /\ e[2] = n
      BY <2>1
  <2>3. e[2] \in RowsOf(e[1])'
      BY <1>5, <2>2 DEF RowsOf
  <2> QED
      BY <2>3 DEF Trace
<1> QED
    BY <1>6, <1>7

(* A change of a row goes to the row the message has changed before, if it *)
(* has, and the request is about to remember it or found it remembered.    *)
LEMMA ChangeTraced ==
    ASSUME Typed, Single, SameTarget, Traced, calm, NEW w \in Worker,
           pc[w] = "write", NEW r, NEW new, Changes(w, r, new),
           targets' = targets,
           \/ pc'[w] = "remember" /\ job' = job /\ goal' = goal
           \/ known[w],
           NEW m, m = job[w], NEW e \in effects'
    PROVE  Trace(e)' \/ (RowsOf(e[1])' = {} /\ Remembering(e)')
<1>1. \A v \in Worker \ {w} : pc[v] = "idle"
    BY AloneBefore DEF Single
<1>2. \A d \in effects : Trace(d)
    BY <1>1 DEF Traced, Trace
<1>3. /\ RowsOf(m) = {} /\ targets[m] \in {0, goal[w]}
      /\ known[w] = (targets[m] # 0)
    BY DEF Single, NotRecorded, PastFind, AtTarget, SameTarget
<1>4. \A x : RowsOf(x)' = RowsOf(x)
    BY DEF Changes, RowsOf
<1>5. effects' = effects \cup {<<m, r>>} /\ r = goal[w]
    BY DEF Changes
<1>6. CASE e \in effects
    BY <1>2, <1>4, <1>6 DEF Trace
<1>7. CASE e \notin effects
  <2>1. e[1] = m /\ e[2] = goal[w]
      BY <1>5, <1>7
  <2>2. RowsOf(e[1])' = {}
      BY <1>3, <1>4, <2>1
  <2>3. CASE pc'[w] = "remember" /\ job' = job /\ goal' = goal
      BY <2>1, <2>2, <2>3 DEF Remembering
  <2>4. CASE known[w]
      BY <1>3, <2>1, <2>2, <2>4 DEF Trace
  <2> QED
      BY <2>3, <2>4
<1> QED
    BY <1>6, <1>7

(* The memory takes over from the request.                                 *)
LEMMA MemoryTraced ==
    ASSUME Typed, Single, SameTarget, Traced, calm, NEW w \in Worker, Remember(w),
           NEW m, m = job[w], NEW e \in effects'
    PROVE  Trace(e)'
<1>1. /\ pc[w] = "remember" /\ UNCHANGED ledgerVars
      /\ targets' = [targets EXCEPT ![m] = goal[w]]
    BY DEF Remember
<1>2. \A v \in Worker \ {w} : pc[v] = "idle"
    BY <1>1, AloneBefore DEF Single
<1>3. RowsOf(m) = {} /\ targets[m] \in {0, goal[w]}
    BY <1>1 DEF Single, NotRecorded, PastFind, AtTarget, SameTarget
<1>4. \A x : RowsOf(x)' = RowsOf(x)
    BY <1>1 DEF ledgerVars, RowsOf
<1>5. e \in effects /\ e[1] \in Message
    BY <1>1, EffectsType DEF ledgerVars
<1>6. Trace(e) \/ (e[1] = m /\ e[2] = goal[w] /\ RowsOf(e[1]) = {})
    BY <1>2, <1>5 DEF Traced, Trace
<1>7. CASE e[1] = m
  <2>1. e[2] = goal[w]
      BY <1>3, <1>5, <1>6, <1>7, EffectsType DEF Trace
  <2>2. targets'[e[1]] = goal[w]
      BY <1>1, <1>5, <1>7, EffectsType
  <2> QED
      BY <1>3, <1>4, <1>7, <2>1, <2>2 DEF Trace
<1>8. CASE e[1] # m
  <2>1. targets'[e[1]] = targets[e[1]]
      BY <1>1, <1>5, <1>8, EffectsType
  <2> QED
      BY <1>4, <1>6, <1>8, <2>1 DEF Trace
<1> QED
    BY <1>7, <1>8

LEMMA TracedStep ==
    Typed /\ Single /\ SameTarget /\ Traced /\ [Next]_vars => Traced'
<1> SUFFICES ASSUME Typed, Single, SameTarget, Traced, [Next]_vars, calm',
                    NEW e \in effects'
             PROVE  Trace(e)' \/ (RowsOf(e[1])' = {} /\ Remembering(e)')
    BY DEF Traced, Trace, Remembering
<1>1. calm
    BY NeverCalmAgain
<1>2. pc \in [Worker -> {"idle", "find", "parse", "latest", "append", "read",
                         "write", "remember", "send"}]
    BY DEF Typed, LegacyTypeOK
<1>3. ASSUME UNCHANGED <<ledgerVars, targets>>,
             \A w \in Worker : pc[w] = "remember" =>
                 pc'[w] = "remember" /\ job'[w] = job[w] /\ goal'[w] = goal[w]
      PROVE  Trace(e)' \/ (RowsOf(e[1])' = {} /\ Remembering(e)')
  <2>1. e \in effects /\ targets' = targets /\ \A x : RowsOf(x)' = RowsOf(x)
      BY <1>3 DEF ledgerVars, RowsOf
  <2>2. Trace(e) \/ (RowsOf(e[1]) = {} /\ Remembering(e))
      BY <1>1, <2>1 DEF Traced, Trace, Remembering
  <2>3. Trace(e) => Trace(e)'
      BY <2>1 DEF Trace
  <2>4. Remembering(e) => Remembering(e)'
      BY <1>3 DEF Remembering
  <2> QED
      BY <2>1, <2>2, <2>3, <2>4
<1>4. ASSUME NEW w \in Worker, AppendRow(w)
      PROVE  Trace(e)' \/ (RowsOf(e[1])' = {} /\ Remembering(e)')
  <2>1. pc[w] = "append" /\ Insert(w) /\ targets' = targets /\ Others(w)
      BY <1>4, OthersStay DEF AppendRow, Moves, WorkerStep
  <2>2. CASE Appended(w)
    <3>1. PICK m : m = job[w]
        OBVIOUS
    <3> QED
        BY <1>1, <2>1, <2>2, <3>1, AppendTraced
  <2>3. CASE UNCHANGED ledgerVars
      BY <1>3, <2>1, <2>3 DEF Others
  <2> QED
      BY <2>1, <2>2, <2>3, InsertLedger
<1>5. ASSUME NEW w \in Worker, WriteTarget(w)
      PROVE  Trace(e)' \/ (RowsOf(e[1])' = {} /\ Remembering(e)')
  <2>1. pc[w] = "write" /\ Write(w) /\ targets' = targets
      BY <1>5 DEF WriteTarget
  <2>2. \/ pc'[w] = "remember" /\ job' = job /\ goal' = goal
        \/ known[w]
      BY <1>2, <1>5 DEF WriteTarget, Goto
  <2>3. PICK m, r, new : m = job[w] /\ r = goal[w] /\ new = Changed(seen[w], answer[w])
      OBVIOUS
  <2>4. Changes(w, r, new)
      BY <2>1, <2>3, WriteLedger
  <2> QED
      BY <1>1, <2>1, <2>2, <2>3, <2>4, ChangeTraced
<1>6. ASSUME NEW w \in Worker, Remember(w) PROVE Trace(e)'
  <2>1. PICK m : m = job[w]
      OBVIOUS
  <2> QED
      BY <1>1, <1>6, <2>1, MemoryTraced
<1>7. ASSUME NEW w \in Worker, Moves(w), ~AppendRow(w), ~WriteTarget(w), ~Remember(w)
      PROVE  Trace(e)' \/ (RowsOf(e[1])' = {} /\ Remembering(e)')
  <2>1. ~AnswerLost(w)
      BY Zenon DEF AnswerLost
  <2>2. UNCHANGED <<ledgerVars, targets>> /\ pc[w] # "remember"
      BY <1>7, <2>1 DEF Moves, WorkerStep, FindMessage, Parse, ChooseTarget, GuardCreate,
         ReadTarget, SendReply, SendFails, CallFails, Deliver
  <2> QED
      BY <1>3, <1>7, <2>2, OthersStay DEF Others
<1>8. CASE Tick \/ UNCHANGED vars
    BY <1>3, <1>8 DEF Tick, vars, ledgerVars, localVars
<1> QED
    BY <1>4, <1>5, <1>6, <1>7, <1>8, StepKinds DEF Restart

LEMMA TracedInit == Init => SameTarget /\ Traced
BY DEF Init, SameTarget, Traced, AtTarget

LEMMA AlwaysTraced == Spec => [](Typed /\ Single /\ SameTarget /\ Traced)
BY TypedInit, TypedStep, SingleInit, SingleStep, TracedInit, SameTargetStep, TracedStep,
   PTL DEF Spec

(* A message handled any number of times by one process writes one         *)
(* transaction, whatever the parser makes of it each time.                 *)
THEOREM MessageHasOneEffect == Spec => []OneEffectPerMessage
<1>1. Typed /\ Single /\ SameTarget /\ Traced => OneEffectPerMessage
  <2> SUFFICES ASSUME Typed, Single, SameTarget, Traced, calm,
                      NEW d \in effects, NEW e \in effects, d[1] = e[1]
               PROVE  d = e
      BY DEF OneEffectPerMessage
  <2>1. d \in Message \X DOMAIN rows /\ e \in Message \X DOMAIN rows
        /\ 0 \notin DOMAIN rows
      BY EffectsType
  <2>2. CASE RowsOf(d[1]) # {}
    <3>1. d[2] \in RowsOf(d[1]) /\ e[2] \in RowsOf(d[1])
        BY <2>2 DEF Traced
    <3>2. d[2] = e[2]
        BY <3>1 DEF Single, UniqueRows, RowsOf
    <3> QED
        BY <2>1, <3>2
  <2>3. CASE RowsOf(d[1]) = {}
    <3>1. /\ targets[d[1]] = d[2] \/ Remembering(d)
          /\ targets[d[1]] = e[2] \/ Remembering(e)
        BY <2>3 DEF Traced, Remembering
    <3>2. \A x, y : Remembering(x) /\ Remembering(y) => x[2] = y[2]
        BY DEF Single, OneAtATime, Remembering
    <3>3. \A x : Remembering(x) => targets[x[1]] \in {0, x[2]}
        BY DEF SameTarget, Remembering, AtTarget
    <3>4. d[2] = e[2]
        BY <2>1, <3>1, <3>2, <3>3
    <3> QED
        BY <2>1, <3>4
  <2> QED
      BY <2>2, <2>3
<1> QED
    BY <1>1, AlwaysTraced, PTL

-----------------------------------------------------------------------------
(* The audit trail *)

(* A request begins to write by locking and reading the row.               *)
LEMMA WriteBegins ==
    ASSUME Typed, NEW w \in Worker, Moves(w), pc'[w] = "write"
    PROVE  /\ pc[w] = "read" /\ ~Locked(w, goal[w])
           /\ UNCHANGED <<ledgerVars, goal>>
           /\ seen'[w] = rows[goal[w]].item
<1> USE DEF Typed, LegacyTypeOK
<1>1. CASE FindMessage(w) \/ Parse(w) \/ ChooseTarget(w) \/ GuardCreate(w)
    BY <1>1 DEF FindMessage, Parse, ChooseTarget, GuardCreate, Say, Goto, Aim
<1>2. CASE AppendRow(w) \/ ReadTarget(w) \/ WriteTarget(w) \/ Remember(w)
    BY <1>2 DEF AppendRow, ReadTarget, WriteTarget, Remember, Say, Goto
<1>3. CASE SendReply(w) \/ SendFails(w) \/ CallFails(w) \/ AnswerLost(w)
    BY <1>3 DEF SendReply, SendFails, CallFails, AnswerLost, EndOf, Say, Goto
<1>4. CASE \E m \in Message : Deliver(w, m)
    BY <1>4 DEF Deliver, Goto
<1> QED
    BY <1>1, <1>2, <1>3, <1>4 DEF Moves, WorkerStep

(* The row a request has locked is changed by nobody else.                 *)
LEMMA LockedRowStays ==
    ASSUME Typed, Held, storage = "postgres", [Next]_vars, NEW v \in Worker,
           pc[v] = "write", pc'[v] = "write", NEW g, g = goal[v]
    PROVE  rows'[g].item = rows[g].item
<1>1. g \in DOMAIN rows
    BY DEF Typed, InHand, AtTarget
<1>2. CASE UNCHANGED ledgerVars
    BY <1>2 DEF ledgerVars
<1>3. ASSUME NEW w \in Worker, Appended(w) PROVE rows'[g].item = rows[g].item
    BY <1>1, <1>3 DEF Appended
<1>4. ASSUME NEW w \in Worker, pc[w] = "write", pc'[w] \in {"send", "remember"},
             NEW r, NEW new, Changes(w, r, new)
      PROVE  rows'[g].item = rows[g].item
  <2>1. w # v /\ goal[w] # g
      BY <1>4 DEF Held
  <2> QED
      BY <1>1, <1>4, <2>1 DEF Changes
<1> QED
    BY <1>2, <1>3, <1>4, LedgerSteps

LEMMA HeldStep == Typed /\ Held /\ [Next]_vars => Held'
<1> SUFFICES ASSUME Typed, Held, [Next]_vars, storage = "postgres" PROVE Held'
    BY NeverCalmAgain DEF Held
<1>1. ASSUME NEW w \in Worker, Moves(w) PROVE Held'
  <2>1. \A v \in Worker \ {w} :
            pc'[v] = pc[v] /\ goal'[v] = goal[v] /\ seen'[v] = seen[v]
      BY <1>1, OthersStay DEF Others
  <2>2. ASSUME NEW v \in Worker \ {w}, pc'[v] = "write"
        PROVE  seen'[v] = rows'[goal'[v]].item
    <3>1. PICK g : g = goal[v]
        OBVIOUS
    <3> QED
        BY <2>1, <2>2, <3>1, LockedRowStays DEF Held
  <2>3. pc'[w] = "write" => seen'[w] = rows'[goal'[w]].item
      BY <1>1, WriteBegins DEF ledgerVars
  <2>4. ASSUME NEW u \in Worker, NEW v \in Worker, pc'[u] = "write", pc'[v] = "write",
               goal'[u] = goal'[v]
        PROVE  u = v
    <3>1. CASE u # w /\ v # w
        BY <2>1, <2>4, <3>1 DEF Held
    <3>2. ASSUME NEW x \in Worker \ {w}, pc'[x] = "write", pc'[w] = "write",
                 goal'[x] = goal'[w]
          PROVE  FALSE
        BY <1>1, <2>1, <3>2, WriteBegins DEF Locked
    <3> QED
        BY <2>4, <3>1, <3>2
  <2> QED
      BY <2>2, <2>3, <2>4 DEF Held
<1>2. CASE Restart
    BY <1>2 DEF Restart, EndOf, Held
<1>3. CASE Tick \/ UNCHANGED vars
  <2>1. UNCHANGED <<storage, pc, goal, seen, rows>>
      BY <1>3 DEF Tick, vars, ledgerVars, localVars
  <2> QED
      BY <2>1 DEF Held
<1> QED
    BY <1>1, <1>2, <1>3, StepKinds

(* The events of row r after the i-th.                                     *)
Later(i) == {j \in DOMAIN events : j > i /\ events[j].row = events[i].row}

(* The i-th event is followed by one that begins where it ended, or ends   *)
(* at what is stored.                                                      *)
Linked(i) ==
    IF Later(i) = {} THEN rows[events[i].row].item = events[i].new
    ELSE \E j \in Later(i) : (\A k \in Later(i) : j <= k) /\ events[j].old = events[i].new

LEMMA AuditIsLinked ==
    AuditChain <=> (storage = "postgres" => \A i \in DOMAIN events : Linked(i))
BY DEF AuditChain, Linked, Later

LEMMA EventRows == Typed => \A i \in DOMAIN events : events[i].row \in DOMAIN rows
<1> SUFFICES ASSUME Typed PROVE \A i \in DOMAIN events : events[i].row \in DOMAIN rows
    OBVIOUS
<1>1. events \in Seq(Event)
    BY DEF Typed, LegacyTypeOK, Event
<1>2. events \in [1 .. Len(events) -> Event]
    BY <1>1, LenProperties
<1> QED
    BY <1>2 DEF Event

(* An event appended is the last of its row, and begins where the last one *)
(* before it ended.                                                        *)
LEMMA EventLinks ==
    ASSUME Typed, storage = "postgres", NEW w \in Worker, NEW r, NEW new,
           Changes(w, r, new), r \in DOMAIN rows, rows[r].item = seen[w],
           seen[w] \in Item,
           \A i \in DOMAIN events : Linked(i),
           NEW i \in DOMAIN events'
    PROVE  Linked(i)'
<1> DEFINE e == [row |-> r, old |-> seen[w], new |-> new]
           n == Len(events) + 1
<1>1. /\ e.row = r /\ e.old = rows[r].item /\ e.new = new
      /\ events' = Append(events, e) /\ new \in Item
    BY DEF Changes
<1>2. e \in Event /\ events \in Seq(Event)
    BY <1>1 DEF Event, Typed, LegacyTypeOK
<1> HIDE DEF e
<1>3. /\ DOMAIN events = 1 .. Len(events) /\ Len(events) \in Nat
      /\ DOMAIN events' = 1 .. n
      /\ \A j \in DOMAIN events : events'[j] = events[j]
      /\ events'[n] = e
    BY <1>1, <1>2, LenProperties
<1>4. \A j \in DOMAIN events : events[j].row \in DOMAIN rows
    BY EventRows
<1>5. \A s \in DOMAIN rows : rows'[s].item = IF s = r THEN new ELSE rows[s].item
    BY DEF Changes
<1>6. CASE i = n
  <2>1. Later(i)' = {}
      BY <1>3, <1>6 DEF Later
  <2> QED
      BY <1>1, <1>3, <1>5, <1>6, <2>1 DEF Linked
<1>7. CASE i # n
  <2>1. i \in DOMAIN events /\ events'[i] = events[i] /\ i < n
      BY <1>3, <1>7
  <2>2. Linked(i)
      BY <2>1
  <2>3. CASE events[i].row # r
    <3>1. Later(i)' = Later(i)
        BY <1>1, <1>3, <2>1, <2>3 DEF Later
    <3>2. rows'[events[i].row].item = rows[events[i].row].item
        BY <1>4, <1>5, <2>1, <2>3
    <3>3. \A j \in Later(i) : events'[j] = events[j]
        BY <1>3 DEF Later
    <3> QED
        BY <2>1, <2>2, <3>1, <3>2, <3>3 DEF Linked
  <2>4. CASE events[i].row = r
    <3>1. Later(i)' = Later(i) \cup {n}
        BY <1>1, <1>3, <2>1, <2>4 DEF Later
    <3>2. CASE Later(i) = {}
        BY <1>1, <1>3, <2>1, <2>2, <2>4, <3>1, <3>2 DEF Linked
    <3>3. CASE Later(i) # {}
      <4>1. PICK j \in Later(i) : (\A k \in Later(i) : j <= k)
                                  /\ events[j].old = events[i].new
          BY <2>2, <3>3 DEF Linked
      <4>2. j \in DOMAIN events /\ j <= n
          BY <1>3, <4>1 DEF Later
      <4>3. events'[j].old = events'[i].new /\ \A k \in Later(i)' : j <= k
          BY <1>3, <2>1, <3>1, <4>1, <4>2
      <4> QED
          BY <3>1, <4>1, <4>3 DEF Linked
    <3> QED
        BY <3>2, <3>3
  <2> QED
      BY <2>3, <2>4
<1> QED
    BY <1>6, <1>7

LEMMA AuditStep == Typed /\ Held /\ AuditChain /\ [Next]_vars => AuditChain'
<1> SUFFICES ASSUME Typed, Held, [Next]_vars, storage = "postgres",
                    \A i \in DOMAIN events : Linked(i)
             PROVE  \A i \in DOMAIN events' : Linked(i)'
  <2>1. AuditChain' <=> (storage' = "postgres" => \A i \in DOMAIN events' : Linked(i)')
      BY DEF AuditChain, Linked, Later
  <2> QED
      BY <2>1, AuditIsLinked, NeverCalmAgain
<1>1. CASE UNCHANGED ledgerVars
    BY <1>1 DEF ledgerVars, Linked, Later
<1>2. ASSUME NEW w \in Worker, Appended(w)
      PROVE  \A i \in DOMAIN events' : Linked(i)'
  <2>1. events' = events /\ \A r \in DOMAIN rows : rows'[r] = rows[r]
      BY <1>2 DEF Appended
  <2>3. \A i \in DOMAIN events : events[i].row \in DOMAIN rows
      BY EventRows
  <2>4. \A i \in DOMAIN events : Later(i)' = Later(i)
      BY <2>1 DEF Later
  <2> QED
      BY <2>1, <2>3, <2>4 DEF Linked
<1>3. ASSUME NEW w \in Worker, pc[w] = "write", NEW r, NEW new, Changes(w, r, new)
      PROVE  \A i \in DOMAIN events' : Linked(i)'
  <2>1. r = goal[w] /\ r \in DOMAIN rows /\ rows[r].item = seen[w] /\ seen[w] \in Item
      BY <1>3 DEF Changes, Held, Typed, InHand, AtTarget
  <2> QED
      BY <1>3, <2>1, EventLinks
<1> QED
    BY <1>1, <1>2, <1>3, LedgerSteps

LEMMA AuditInit == Init => Held /\ AuditChain
BY DEF Init, Held, AuditChain

(* In PostgreSQL the update events of a transaction tell its whole story,  *)
(* whatever updates of it race: each event begins where the one before     *)
(* ended, and the last one ends at what is stored.                         *)
THEOREM AuditTrail == Spec => []AuditChain
BY TypedInit, TypedStep, AuditInit, HeldStep, AuditStep, PTL DEF Spec

=============================================================================
