-------------------------------- MODULE FanOut --------------------------------
(***************************************************************************)
(* The customer alerts of the edge: src/web/lib/fanout.ts, run in the      *)
(* background of every archived fit, and the handlers of                   *)
(* src/web/functions/api/alerts.ts that keep the list it reads.            *)
(*                                                                         *)
(* Every database call of a request is a step of its own; the code takes   *)
(* no lock and opens no transaction across two of them.  The platform ends *)
(* a background task at the latest RunLife after it began, wherever it is. *)
(***************************************************************************)
EXTENDS Integers, FiniteSets

CONSTANTS
    NULL,
    Alerts,          \* the ids an alert row may be given
    Settings,        \* of each alert: its kind, currency and least edge
    Surfaces,        \* the fits that may be archived
    Slots,           \* background tasks that can be under way together
    Posters,         \* the owner's own requests
    Limit,           \* ten
    Quiet,           \* six hours
    RunLife,
    MaxTime, MaxRuns,
    MaxFaults        \* deliveries that fail and tasks that are cut off

ASSUME FanOutAssumption ==
    /\ {Limit, Quiet, RunLife, MaxTime, MaxRuns, MaxFaults} \subseteq Nat
    /\ RunLife < Quiet
    /\ NULL \notin Int
    /\ IsFiniteSet(Posters) /\ Posters # {}

VARIABLES
    alerts,      \* the rows of alert_subscriptions
    used,        \* every id ever given
    seen,        \* last_sent_at, of each alert and fingerprint
    log,         \* alert_deliveries: alert, task and whether it arrived
    run,         \* what the task in each slot is doing, or NULL
    waiting,     \* the requests that found room and have yet to insert
    now,
    begun,       \* how many tasks were begun
    told,        \* what receivers heard: alert, fingerprint, task, time
    met,         \* the pairs of tasks that were under way together
    cut,         \* the attempts, each an alert of a task, that the platform ended
                 \* after the receiver may have heard and before they were marked
    faults       \* deliveries that failed and tasks that were cut off

vars == <<alerts, used, seen, log, run, waiting, now, begun, told, met, cut, faults>>

-----------------------------------------------------------------------------
(* What an alert wants of a surface. *)

Matches(a, surface, arb) ==
    /\ Settings[a].currency \in {NULL, surface.currency}
    /\ arb.edge = NULL \/ arb.edge >= Settings[a].min_edge

(* A structure is the same arbitrage whatever it is worth today. *)
Fingerprint(surface, arb) == <<surface.currency, arb.structure>>

IntegrityPrint(surface) == <<surface.currency, surface.day>>

Wanted(a, surface) ==
    IF Settings[a].kind = "surface_integrity"
    THEN {IntegrityPrint(surface) : broken \in {TRUE} \intersect {surface.broken}}
    ELSE {Fingerprint(surface, arb) : arb \in {x \in surface.arbs : Matches(a, surface, x)}}

Prints == UNION {Wanted(a, s) : a \in Alerts, s \in Surfaces}

(* What a background task has in hand: its number and the clock it read, the *)
(* alerts it has yet to go through, and the one it is at.                    *)
Task == [no : Nat, at : Nat, surface : Surfaces, todo : SUBSET Alerts,
         alert : Alerts \union {NULL}, fresh : SUBSET Prints,
         pc : {"list", "next", "deliver", "delivered", "failed", "mark"}]

ASSUME TaskAssumption == NULL \notin Task

-----------------------------------------------------------------------------
(* The fan-out. *)

Live == {f \in Slots : run[f] # NULL}

(* A fit is stored and its fan-out begins: the clock is read once ...        *)
Archive(f, surface) ==
    /\ run[f] = NULL
    /\ begun < MaxRuns
    /\ begun' = begun + 1
    /\ run' = [run EXCEPT ![f] = [no |-> begun + 1, at |-> now, surface |-> surface,
                                  todo |-> {}, alert |-> NULL, fresh |-> {},
                                  pc |-> "list"]]
    /\ met' = met \union {{run[g].no, begun + 1} : g \in Live}
    /\ UNCHANGED <<alerts, used, seen, log, waiting, now, told, cut, faults>>

(* ... and so, a little later, is the list of active alerts.                 *)
List(f) ==
    /\ run[f] # NULL /\ run[f].pc = "list"
    /\ run' = [run EXCEPT ![f] = IF alerts = {} THEN NULL
                                 ELSE [@ EXCEPT !.todo = alerts, !.pc = "next"]]
    /\ UNCHANGED <<alerts, used, seen, log, waiting, now, begun, told, met, cut, faults>>

QuietSinceStart(a, print, at) == seen[a][print] # NULL /\ seen[a][print] >= at

Already(a, print, at) == seen[a][print] # NULL /\ seen[a][print] > at - Quiet

(* The task goes on to its next alert; after the last it is over. *)
Past(task, a) ==
    IF task.todo = {a} THEN NULL
    ELSE [task EXCEPT !.todo = @ \ {a}, !.alert = NULL, !.fresh = {}, !.pc = "next"]

(* One alert of the list: what it wants and was not lately told. *)
Pick(f, a) ==
    /\ run[f] # NULL /\ run[f].pc = "next"
    /\ a \in run[f].todo
    /\ LET fresh == {p \in Wanted(a, run[f].surface) : ~Already(a, p, run[f].at)}
       IN  run' = [run EXCEPT ![f] =
                     IF fresh = {} THEN Past(@, a)
                     ELSE [@ EXCEPT !.alert = a, !.fresh = fresh, !.pc = "deliver"]]
    /\ UNCHANGED <<alerts, used, seen, log, waiting, now, begun, told, met, cut, faults>>

(* The receiver answers in time that it is well.  Or the attempt fails: it   *)
(* answers anything else or nothing within eight seconds, and has heard all  *)
(* the same or has not.                                                      *)
Deliver(f, ok, heard) ==
    /\ run[f] # NULL /\ run[f].pc = "deliver"
    /\ ok => heard
    /\ ok \/ faults < MaxFaults
    /\ faults' = IF ok THEN faults ELSE faults + 1
    /\ run' = [run EXCEPT ![f].pc = IF ok THEN "delivered" ELSE "failed"]
    /\ told' = IF heard
               THEN told \union {[alert |-> run[f].alert, print |-> p, no |-> run[f].no,
                                  at |-> run[f].at] : p \in run[f].fresh}
               ELSE told
    /\ UNCHANGED <<alerts, used, seen, log, waiting, now, begun, met, cut>>

MarksAlways(f) == TRUE

Marks(f) == run[f].pc = "delivered"

(* The attempt is logged; only one that arrived is then marked. *)
Record(f) ==
    /\ run[f] # NULL /\ run[f].pc \in {"delivered", "failed"}
    /\ log' = log \union {[alert |-> run[f].alert, no |-> run[f].no,
                           ok |-> run[f].pc = "delivered"]}
    /\ run' = [run EXCEPT ![f] =
                 IF Marks(f) THEN [@ EXCEPT !.pc = "mark"] ELSE Past(@, @.alert)]
    /\ UNCHANGED <<alerts, used, seen, waiting, now, begun, told, met, cut, faults>>

MarkSeen(f) ==
    /\ run[f] # NULL /\ run[f].pc = "mark"
    /\ seen' = [seen EXCEPT ![run[f].alert] =
                  [p \in Prints |-> IF p \in run[f].fresh THEN run[f].at ELSE @[p]]]
    /\ run' = [run EXCEPT ![f] = Past(@, @.alert)]
    /\ UNCHANGED <<alerts, used, log, waiting, now, begun, told, met, cut, faults>>

(* The platform ends a task, wherever it is. *)
CutOff(f) ==
    /\ run[f] # NULL
    /\ faults < MaxFaults
    /\ faults' = faults + 1
    /\ run' = [run EXCEPT ![f] = NULL]
    /\ cut' = IF run[f].pc \in {"delivered", "failed", "mark"}
              THEN cut \union {[alert |-> run[f].alert, no |-> run[f].no]}
              ELSE cut
    /\ UNCHANGED <<alerts, used, seen, log, waiting, now, begun, told, met>>

-----------------------------------------------------------------------------
(* The owner's requests. *)

RoomForOneMore == Cardinality(alerts) <= Limit

Room == Cardinality(alerts) < Limit

PostCount(p) ==
    /\ p \notin waiting
    /\ Room
    /\ waiting' = waiting \union {p}
    /\ UNCHANGED <<alerts, used, seen, log, run, now, begun, told, met, cut, faults>>

PostInsert(p, a) ==
    /\ p \in waiting
    /\ a \notin used
    /\ alerts' = alerts \union {a}
    /\ used' = used \union {a}
    /\ waiting' = waiting \ {p}
    /\ UNCHANGED <<seen, log, run, now, begun, told, met, cut, faults>>

(* The row goes; what it was told about, and what was logged, stay. *)
Delete(a) ==
    /\ a \in alerts
    /\ alerts' = alerts \ {a}
    /\ UNCHANGED <<used, seen, log, run, waiting, now, begun, told, met, cut, faults>>

Tick ==
    /\ now < MaxTime
    /\ \A f \in Live : now < run[f].at + RunLife
    /\ now' = now + 1
    /\ UNCHANGED <<alerts, used, seen, log, run, waiting, begun, told, met, cut, faults>>

Init ==
    /\ alerts = {} /\ used = {}
    /\ seen = [a \in Alerts |-> [p \in Prints |-> NULL]]
    /\ log = {} /\ told = {} /\ met = {} /\ cut = {} /\ faults = 0
    /\ run = [f \in Slots |-> NULL]
    /\ waiting = {}
    /\ now = 0 /\ begun = 0

Step(f) ==
    \/ List(f)
    \/ \E a \in Alerts : Pick(f, a)
    \/ \E ok, heard \in BOOLEAN : Deliver(f, ok, heard)
    \/ Record(f)
    \/ MarkSeen(f)

Next ==
    \/ \E f \in Slots, s \in Surfaces : Archive(f, s)
    \/ \E f \in Slots : Step(f) \/ CutOff(f)
    \/ \E p \in Posters : PostCount(p)
    \/ \E p \in Posters, a \in Alerts : PostInsert(p, a)
    \/ \E a \in Alerts : Delete(a)
    \/ Tick

Spec == Init /\ [][Next]_vars

-----------------------------------------------------------------------------
(* Properties. *)

(* A receiver hears of one arbitrage twice within the quiet period only when *)
(* the two fan-outs were under way together, or the owner's log has the      *)
(* first attempt as failed, or the first task was cut off before it could    *)
(* log or mark that attempt.  A fan-out that overlapped may put an older     *)
(* time over a newer one, so what is promised is the quiet period less the   *)
(* longest a fan-out lasts (fanout.ts:75-81, alerts.ts:45).                  *)
RepeatsAreExplained ==
    \A x, y \in told :
        /\ x.alert = y.alert /\ x.print = y.print
        /\ x.no < y.no /\ y.at - x.at < Quiet - RunLife
        => \/ {x.no, y.no} \in met
           \/ [alert |-> x.alert, no |-> x.no, ok |-> FALSE] \in log
           \/ [alert |-> x.alert, no |-> x.no] \in cut

(* Where a fan-out goes on from an alert, the receiver heard of each thing   *)
(* the alert wants within the quiet period, or the owner's log has the       *)
(* failed attempt: nothing stops arriving in silence (alerts.ts:10-12).  A   *)
(* task that is cut off goes on from nothing: its attempt may be unlogged.   *)
ToldOrLogged ==
    [][\A f \in Live :
         \A a \in run[f].todo \ (IF run'[f] = NULL THEN {} ELSE run'[f].todo) :
            Step(f) =>
              \A p \in Wanted(a, run[f].surface) :
                \/ \E x \in told : x.alert = a /\ x.print = p /\ x.at > run[f].at - Quiet
                \/ [alert |-> a, no |-> run[f].no, ok |-> FALSE] \in log']_vars

(* Requests that count the list together may pass the limit (alerts.ts       *)
(* counts and inserts in two calls), each by one row and no more: with n at  *)
(* once an owner never has more than n - 1 rows too many, and what is still  *)
(* in flight is within that.                                                 *)
OvershootIsBounded ==
    Cardinality(alerts) + Cardinality(waiting) <= Limit + Cardinality(Posters) - 1

=============================================================================
