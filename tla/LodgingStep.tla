---------------------------- MODULE LodgingStep -----------------------------
(***************************************************************************)
(* RunLodgingStep.Execute: the dialogue of one guest with the lodging      *)
(* system, from check-in to check-out, over a chat that keeps the order of *)
(* messages (ChatContract) and a clock that a wait never overtakes         *)
(* (HourEvents).                                                           *)
(*                                                                         *)
(* The time is a number of hours since the start of the check-in day.  The *)
(* lodging system is external: it follows the dialogue the step is written *)
(* for and adds up to MaxStrays messages of the kinds in Strays.           *)
(***************************************************************************)
EXTENDS Integers, Sequences, FiniteSets

CONSTANTS Nights,     \* check-out day minus check-in day of SelectedPeriod
          Strays,     \* kinds of messages the system may send unprompted
          MaxStrays   \* bound on their number

VARIABLES
  pc,      \* "start" | "gate" | "wait" | "missed" | "notice" | "request" |
           \* "reply" | "send" | "after" | "checkin" | "key" | "take" |
           \* "done" | "failed"
  phase,   \* whose plan is executed: "showUp" | "stay" | "checkout"
  idx,     \* index of the current action in that plan
  msg,     \* the request to reply to
  inbox,   \* system messages not yet read by the step
  sent,    \* number of messages of each kind the system has sent
  strays,  \* the unprompted ones among them
  log,     \* what the guest has said: <<day offset, action or response>>
  clock

stepVars == <<pc, phase, idx, msg>>
vars == <<stepVars, inbox, sent, strays, log, clock>>

HoursPerDay == 24
None == "UNSPECIFIED"
Notifications ==
  {"BOOKING_CHECKING", "CHECK_IN_COMPLETE", "DINNER_READY", "BREAKFAST_READY",
   "CHECK_OUT_TOMORROW", "CHECK_OUT_COMPLETE"}
Requests ==
  {"REQUEST_DOCUMENT", "REQUEST_BOOKING_NUMBER", "GIVE_COTTAGE_KEY",
   "REQUEST_COTTAGE_KEY"}
Messages == Notifications \cup Requests

ASSUME LodgingAssumption ==
  /\ Nights \in Int /\ Strays \subseteq Messages /\ MaxStrays \in Nat

\* The response a request is answered with.
guestResponse ==
  [REQUEST_DOCUMENT |-> "showDocument",
   REQUEST_BOOKING_NUMBER |-> "showBookingNumber",
   GIVE_COTTAGE_KEY |-> "receiveCottageKey",
   REQUEST_COTTAGE_KEY |-> "returnCottageKey"]
-----------------------------------------------------------------------------
(* The plans of config.DefaultLodgingFlow.                                  *)

NoHour == -1
Planned(action, hour, notification, request, waitFor) ==
  [action |-> action, hour |-> hour, notification |-> notification,
   request |-> request, waitFor |-> waitFor]
At(action, hour) == Planned(action, hour, None, None, None)
Meal(action, hour, notification) == Planned(action, hour, notification, None, None)

ShowUp == <<At("SHOW_FOR_CHECKIN", 15)>>
FirstDayStay ==
  <<At("ENTER_COTTAGE", NoHour), At("GO_FOR_A_BATH", 16),
    Meal("GO_FOR_DINNER", 18, "DINNER_READY"), At("GO_TO_SLEEP", 22)>>
RecurringStay ==
  <<At("WAKEUP", 7), Meal("GO_FOR_BREAKFAST", 8, "BREAKFAST_READY"),
    At("LEAVE_CLEANUP_NOTIFICATION", 10), At("ENJOY_RESORT", 11),
    At("GO_FOR_A_BATH", 16), Meal("GO_FOR_DINNER", 18, "DINNER_READY"),
    At("GO_TO_SLEEP", 22)>>
Checkout ==
  <<At("WAKEUP", 7), At("LEAVE_COTTAGE", 9), At("PROCEED_TO_CHECKOUT", NoHour),
    Planned("RETURN_COTTAGE_KEY", NoHour, None, "REQUEST_COTTAGE_KEY",
            "CHECK_OUT_COMPLETE")>>
AllPlanned ==
  UNION {{p[i] : i \in 1..Len(p)} :
         p \in {ShowUp, FirstDayStay, RecurringStay, Checkout}}
Actions == {a.action : a \in AllPlanned}
PlanHours == {a.hour : a \in AllPlanned} \ {NoHour}

expandPlan(dayOffset, actions) ==
  [i \in 1..Len(actions) |-> [day |-> dayOffset, act |-> actions[i]]]

fullStayDays == IF Nights <= 1 THEN 0 ELSE Nights - 1
checkoutDayOffset == IF Nights < 0 THEN 0 ELSE Nights

\* The plan up to the recurring day with the given offset; the loop of the
\* code starts at offset 2.
stayPlanTo[offset \in Nat] ==
  IF offset < 2 THEN expandPlan(0, FirstDayStay)
  ELSE stayPlanTo[offset - 1] \o expandPlan(offset, RecurringStay)
buildStayActionPlan == stayPlanTo[fullStayDays]
buildCheckoutActionPlan == expandPlan(checkoutDayOffset, Checkout)

PlanOf(p) == CASE p = "showUp" -> expandPlan(0, ShowUp)
               [] p = "stay" -> buildStayActionPlan
               [] p = "checkout" -> buildCheckoutActionPlan
Day == PlanOf(phase)[idx].day
Cur == PlanOf(phase)[idx].act
Target == Day * HoursPerDay + Cur.hour
-----------------------------------------------------------------------------
Init ==
  /\ pc = "start" /\ phase = "showUp" /\ idx = 1 /\ msg = None
  /\ inbox = <<>> /\ sent = [m \in Messages |-> 0] /\ strays = <<>>
  /\ log = <<>> /\ clock = 0

Ended == pc \in {"done", "failed"}
Say(what) == log' = Append(log, <<Day, what>>)

\* The cached context is valid and the websocket is dialled.
NewClient ==
  /\ pc = "start"
  /\ pc' = "gate"
  /\ UNCHANGED <<phase, idx, msg, inbox, sent, strays, log, clock>>

\* Any call of the step fails or is cancelled; Execute returns the error and
\* the deferred Close drops the messages that were not read.
callFails ==
  /\ ~Ended
  /\ pc' = "failed"
  /\ inbox' = <<>>
  /\ UNCHANGED <<phase, idx, msg, sent, strays, log, clock>>

\* waitForActionGate, its first part: an action without an hour, or whose
\* hour the current time has reached, is not waited for.
waitUntil ==
  /\ pc = "gate"
  /\ pc' = IF Cur.hour # NoHour /\ clock < Target THEN "wait" ELSE "notice"
  /\ UNCHANGED <<phase, idx, msg, inbox, sent, strays, log, clock>>

\* The event of the target hour ends the wait,
hourReached ==
  /\ pc = "wait" /\ clock >= Target
  /\ pc' = "notice"
  /\ UNCHANGED <<phase, idx, msg, inbox, sent, strays, log, clock>>

\* or it was lost, or handed out before the goroutine of the wait had
\* registered (HourEvents): then no event ends the wait any more.
hourMissed ==
  /\ pc = "wait" /\ clock >= Target
  /\ pc' = "missed"
  /\ UNCHANGED <<phase, idx, msg, inbox, sent, strays, log, clock>>

\* Mutation: a message that was not expected is left in the channel.
expect_keeps(m, next) ==
  /\ inbox # <<>>
  /\ IF Head(inbox) = m
     THEN pc' = next /\ inbox' = Tail(inbox)
     ELSE UNCHANGED <<pc, inbox>>

\* expectNotification and expectRequest: messages are read, and dropped,
\* until the expected one comes.
expect(m, next) ==
  /\ inbox # <<>>
  /\ inbox' = Tail(inbox)
  /\ pc' = IF Head(inbox) = m THEN next ELSE pc

\* Mutation: a notification is not waited for once the hour has come.
gateNotification_skipped ==
  /\ pc = "notice"
  /\ pc' = "request"
  /\ UNCHANGED <<phase, idx, msg, inbox, sent, strays, log, clock>>

gateNotification ==
  /\ pc = "notice"
  /\ \/ Cur.notification = None /\ pc' = "request" /\ UNCHANGED inbox
     \/ Cur.notification # None /\ expect(Cur.notification, "request")
  /\ UNCHANGED <<phase, idx, msg, sent, strays, log, clock>>

\* Only executeCheckoutPlan replies, and only to the request for the key.
gateRequest ==
  /\ pc = "request"
  /\ \/ Cur.request = None /\ pc' = "send" /\ UNCHANGED <<inbox, msg>>
     \/ /\ Cur.request # None
        /\ expect(Cur.request,
                  IF phase = "checkout" /\ Cur.request = "REQUEST_COTTAGE_KEY"
                  THEN "reply" ELSE "send")
        /\ msg' = Head(inbox)
  /\ UNCHANGED <<phase, idx, sent, strays, log, clock>>

\* The next action of the plan, or what Execute does after the plan.
Advance ==
  IF idx < Len(PlanOf(phase))
  THEN idx' = idx + 1 /\ pc' = "gate" /\ UNCHANGED phase
  ELSE /\ idx' = 1
       /\ \/ phase = "showUp" /\ pc' = "checkin" /\ phase' = "stay"
          \/ phase = "stay" /\ pc' = "gate" /\ phase' = "checkout"
          \/ phase = "checkout" /\ pc' = "done" /\ UNCHANGED phase

SendAction ==
  /\ pc = "send"
  /\ Say(Cur.action)
  /\ IF Cur.waitFor # None
     THEN pc' = "after" /\ UNCHANGED <<phase, idx>>
     ELSE Advance
  /\ UNCHANGED <<msg, inbox, sent, strays, clock>>

waitForNotification ==
  /\ pc = "after" /\ inbox # <<>>
  /\ inbox' = Tail(inbox)
  /\ IF Head(inbox) = Cur.waitFor THEN Advance ELSE UNCHANGED <<pc, phase, idx>>
  /\ UNCHANGED <<msg, sent, strays, log, clock>>

\* Mutation: the default case replies as well.
finishCheckin_repliesToAll ==
  /\ pc = "checkin" /\ inbox # <<>>
  /\ inbox' = Tail(inbox) /\ msg' = Head(inbox)
  /\ pc' = IF msg' = "CHECK_IN_COMPLETE" THEN "key" ELSE "reply"
  /\ UNCHANGED <<phase, idx, sent, strays, log, clock>>

\* One round of the loop of finishCheckin.
finishCheckin ==
  /\ pc = "checkin" /\ inbox # <<>>
  /\ inbox' = Tail(inbox) /\ msg' = Head(inbox)
  /\ pc' = CASE msg' = "CHECK_IN_COMPLETE" -> "key"
             [] msg' \in {"REQUEST_DOCUMENT", "REQUEST_BOOKING_NUMBER"} -> "reply"
             [] OTHER -> "checkin"
  /\ UNCHANGED <<phase, idx, sent, strays, log, clock>>

\* Execute waits for the key.
expectKey ==
  /\ pc = "key"
  /\ expect("GIVE_COTTAGE_KEY", "reply")
  /\ msg' = Head(inbox)
  /\ UNCHANGED <<phase, idx, sent, strays, log, clock>>

Reply ==
  /\ pc = "reply"
  /\ Say(guestResponse[msg])
  /\ pc' = CASE msg = "GIVE_COTTAGE_KEY" -> "take"
             [] msg = "REQUEST_COTTAGE_KEY" -> "send"
             [] OTHER -> "checkin"
  /\ UNCHANGED <<phase, idx, msg, inbox, sent, strays, clock>>

takeCottageKey ==
  /\ pc = "take"
  /\ Say("TAKE_COTTAGE_KEY")
  /\ pc' = "gate"
  /\ UNCHANGED <<phase, idx, msg, inbox, sent, strays, clock>>
-----------------------------------------------------------------------------
(* The environment, while the step runs.                                    *)

\* Bound: the clock stops at the last hour that is waited for.
PlanTargets ==
  UNION {{PlanOf(p)[i].day * HoursPerDay + PlanOf(p)[i].act.hour :
            i \in 1..Len(PlanOf(p))} : p \in {"showUp", "stay", "checkout"}}

\* The next midnight or hour of a plan: nothing happens at the others.
NextHour(t) ==
  CHOOSE u \in t + 1..t + HoursPerDay :
    /\ u % HoursPerDay \in PlanHours \cup {0}
    /\ \A v \in t + 1..u - 1 : v % HoursPerDay \notin PlanHours \cup {0}

Tick ==
  /\ ~Ended
  /\ ~(\A t \in PlanTargets : t <= clock)
  /\ clock' = NextHour(clock)
  /\ UNCHANGED <<stepVars, inbox, sent, strays, log>>

Said(what) == \E i \in 1..Len(log) : log[i][2] = what
Times(what) == Cardinality({i \in 1..Len(log) : log[i][2] = what})
Today == clock \div HoursPerDay

\* When the dialogue calls for a message: the check-in and check-out in turn
\* with the guest, dinner every evening and breakfast every later morning.
Due(m) ==
  CASE m \in {"BOOKING_CHECKING", "REQUEST_DOCUMENT"} ->
         sent[m] = 0 /\ Said("SHOW_FOR_CHECKIN")
    [] m = "REQUEST_BOOKING_NUMBER" -> sent[m] = 0 /\ Said("showDocument")
    [] m = "CHECK_IN_COMPLETE" -> sent[m] = 0 /\ Said("showBookingNumber")
    [] m = "GIVE_COTTAGE_KEY" -> sent[m] = 0 /\ sent["CHECK_IN_COMPLETE"] > 0
    [] m = "DINNER_READY" ->
         /\ sent["GIVE_COTTAGE_KEY"] > 0 /\ sent["REQUEST_COTTAGE_KEY"] = 0
         /\ sent[m] <= Today /\ sent[m] <= sent["BREAKFAST_READY"]
    [] m = "BREAKFAST_READY" ->
         /\ sent["REQUEST_COTTAGE_KEY"] = 0
         /\ sent[m] < Today /\ sent[m] < sent["DINNER_READY"]
    [] m = "REQUEST_COTTAGE_KEY" -> sent[m] = 0 /\ Said("PROCEED_TO_CHECKOUT")
    [] m = "CHECK_OUT_COMPLETE" -> sent[m] = 0 /\ Said("RETURN_COTTAGE_KEY")
    [] OTHER -> FALSE

SystemSends(m) ==
  /\ pc # "start" /\ ~Ended
  /\ inbox' = Append(inbox, m)
  /\ sent' = [sent EXCEPT ![m] = @ + 1]
  /\ UNCHANGED <<stepVars, log, clock>>

SystemSpeaks(m) == Due(m) /\ SystemSends(m) /\ UNCHANGED strays
SystemStrays(m) ==
  /\ m \in Strays /\ Len(strays) < MaxStrays
  /\ SystemSends(m)
  /\ strays' = Append(strays, m)
-----------------------------------------------------------------------------
Execute ==
  \/ NewClient \/ waitUntil \/ hourReached \/ hourMissed
  \/ gateNotification \/ gateRequest \/ SendAction \/ waitForNotification
  \/ finishCheckin \/ expectKey \/ Reply \/ takeCottageKey
Next ==
  \/ Execute \/ callFails \/ Tick
  \/ \E m \in Messages : SystemSpeaks(m) \/ SystemStrays(m)

Spec == Init /\ [][Next]_vars

\* Go runs the step, hours go by, and the lodging system goes on with the
\* dialogue; it need not send strays.
FairSpec ==
  /\ Spec /\ WF_vars(Execute) /\ WF_vars(Tick)
  /\ \A m \in Messages : WF_vars(SystemSpeaks(m))
-----------------------------------------------------------------------------
(* Properties.                                                              *)

\* Types; every reply is to a request, so Reply never meets a nil message or
\* one without a response.
TypeOK ==
  /\ pc \in {"start", "gate", "wait", "missed", "notice", "request", "reply",
             "send", "after", "checkin", "key", "take", "done", "failed"}
  /\ phase \in {"showUp", "stay", "checkout"}
  /\ idx \in 1..Len(PlanOf(phase))
  /\ msg \in Messages \cup {None} /\ (pc = "reply" => msg \in Requests)
  /\ inbox \in Seq(Messages)
  /\ sent \in [Messages -> Nat]
  /\ strays \in Seq(Strays) /\ Len(strays) <= MaxStrays
  /\ log \in Seq(Nat \X (Actions \cup {guestResponse[m] : m \in Requests}
                                 \cup {"TAKE_COTTAGE_KEY"}))
  /\ clock \in Nat

\* The guest uses every message of the system at most once: never more meals
\* than were announced, never a response more than was requested, and no
\* stay, key return or success without the system's word for it.
NothingUnprompted ==
  /\ Times("GO_FOR_DINNER") <= sent["DINNER_READY"]
  /\ Times("GO_FOR_BREAKFAST") <= sent["BREAKFAST_READY"]
  /\ \A m \in Requests : Times(guestResponse[m]) <= sent[m]
  /\ Said("ENTER_COTTAGE") =>
       sent["CHECK_IN_COMPLETE"] > 0 /\ Said("receiveCottageKey")
  /\ Said("RETURN_COTTAGE_KEY") => Said("returnCottageKey")
  /\ pc = "done" => sent["CHECK_OUT_COMPLETE"] > 0

\* A message that some wait of the step may expect came out of turn.
Misled == \E i \in 1..Len(strays) : strays[i] # "CHECK_OUT_TOMORROW"

\* With a system that follows the dialogue, at any pace and with messages in
\* between that no wait expects, the stay ends unless a wait misses its hour:
\* no message the guest depends on is dropped by an earlier wait, and none
\* is waited for twice.
StayEnds == <>(Ended \/ Misled \/ pc = "missed")

\* A stay that succeeds has followed the recurring plan on each of the full
\* days that fullStayDays counts.
FullDaysLived ==
  pc = "done" => \A d \in 1..fullStayDays :
                   \E i \in 1..Len(log) : log[i] = <<d, "GO_FOR_BREAKFAST">>
=============================================================================
