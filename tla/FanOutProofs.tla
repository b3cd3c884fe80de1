----------------------------- MODULE FanOutProofs -----------------------------
(***************************************************************************)
(* What FanOut promises of alerts, for any number of alerts, fits, tasks   *)
(* under way together, requests and faults, and any quiet period longer    *)
(* than a task may last.                                                   *)
(*                                                                         *)
(* The argument is about what a receiver was told: it is marked as seen    *)
(* with a time at most RunLife too old, or the task that told it is still  *)
(* on its way to the mark or the log, or there is an excuse: the attempt   *)
(* is logged as failed or was cut off.  A later task that chose to tell    *)
(* again found no such mark, so it met the first or has that excuse.       *)
(*                                                                         *)
(* The limit on alerts is kept by counting those that are in the list and  *)
(* those a request has counted room for together.                          *)
(***************************************************************************)
EXTENDS FanOut, FiniteSetTheorems, TLAPS

Told == [alert : Alerts, print : Prints, no : Nat, at : Nat]

TypeOK ==
    /\ alerts \subseteq Alerts
    /\ seen \in [Alerts -> [Prints -> Nat \union {NULL}]]
    /\ run \in [Slots -> Task \union {NULL}]
    /\ now \in Nat /\ begun \in Nat
    /\ told \subseteq Told /\ \A x \in told : x.at <= now /\ x.no <= begun

InTime(t) ==
    /\ t.no <= begun
    /\ t.at <= now /\ now <= t.at + RunLife

(* A task has met every one begun while it was under way. *)
Together(t) == \A n \in Nat : t.no < n /\ n <= begun => {t.no, n} \in met

(* An attempt the receiver may have heard and that went unmarked for a reason. *)
Excused(x) ==
    \/ [alert |-> x.alert, no |-> x.no, ok |-> FALSE] \in log
    \/ [alert |-> x.alert, no |-> x.no] \in cut

(* A task that has yet to choose. *)
Idle(t) == t.pc \in {"list", "next"}

(* It leaves out nothing before it has a list, and then what was told within *)
(* the quiet period, ...                                                     *)
Choosing(t) ==
    /\ t.pc = "list" => t.todo = {}
    /\ ~Idle(t) =>
         /\ t.alert \in t.todo
         /\ t.fresh \subseteq Wanted(t.alert, t.surface)
         /\ \A p \in Wanted(t.alert, t.surface) \ t.fresh :
               \E x \in told : x.alert = t.alert /\ x.print = p /\ x.at > t.at - Quiet

(* ... what it is about to repeat so soon has its reason, ... *)
Repeating(t) ==
    ~Idle(t) =>
        \A x \in told :
            /\ x.alert = t.alert /\ x.print \in t.fresh
            /\ x.no < t.no /\ t.at - x.at < Quiet - RunLife
            => {x.no, t.no} \in met \/ Excused(x)

(* ... and what it goes to mark was told. *)
Arrived(t) ==
    t.pc \in {"delivered", "mark"} =>
        \A p \in t.fresh :
            \E x \in told : x.alert = t.alert /\ x.print = p /\ x.at = t.at

Sound(t) == InTime(t) /\ Together(t) /\ Choosing(t) /\ Repeating(t) /\ Arrived(t)

TasksSound ==
    /\ \A f \in Live : Sound(run[f])
    /\ \A f, g \in Live : run[f].no = run[g].no => f = g

(* A mark is the time of something told. *)
MarksAreTrue ==
    \A a \in Alerts, p \in Prints :
        seen[a][p] # NULL =>
            \E x \in told : x.alert = a /\ x.print = p /\ x.at = seen[a][p]

OnItsWay(x) ==
    \E f \in Live : /\ run[f].no = x.no /\ run[f].pc \in {"delivered", "failed", "mark"}
                    /\ run[f].alert = x.alert /\ x.print \in run[f].fresh

Marked(x) ==
    /\ seen[x.alert][x.print] # NULL
    /\ seen[x.alert][x.print] >= x.at - RunLife

ToldIsMarked == \A x \in told : Excused(x) \/ OnItsWay(x) \/ Marked(x)

Inv == TypeOK /\ TasksSound /\ MarksAreTrue /\ ToldIsMarked /\ RepeatsAreExplained

-----------------------------------------------------------------------------
(* Slots.                                                                    *)

(* Going on to the next alert drops this one and nothing else, and a task    *)
(* without another is over: the loop of fanOut.                              *)
LEMMA PastMovesOn ==
    ASSUME NEW t \in Task, NEW a \in t.todo
    PROVE  \/ Past(t, a) = NULL /\ t.todo = {a}
           \/ /\ Past(t, a) \in Task
              /\ Past(t, a).no = t.no /\ Past(t, a).at = t.at
              /\ Past(t, a).pc = "next" /\ Past(t, a).todo = t.todo \ {a}
<1> QED BY DEF Past, Task

(* A step of one slot leaves the others alone.                               *)
LEMMA OneSlot ==
    ASSUME TypeOK, NEW f \in Slots, NEW t \in Task \union {NULL},
           run' = [run EXCEPT ![f] = t]
    PROVE  /\ run' \in [Slots -> Task \union {NULL}]
           /\ run'[f] = t
           /\ \A g \in Slots : g # f => run'[g] = run[g]
           /\ Live' = (IF t = NULL THEN Live \ {f} ELSE Live \union {f})
<1> QED BY DEF TypeOK, Live

(* Tasks have the type of tasks.                                             *)
LEMMA LiveTasks ==
    ASSUME TypeOK, NEW f \in Live
    PROVE  f \in Slots /\ run[f] \in Task /\ run[f] # NULL
<1> QED BY DEF TypeOK, Live

(* A fingerprint a task may deliver is one an alert can be told.             *)
LEMMA WantedArePrints ==
    ASSUME NEW a \in Alerts, NEW s \in Surfaces
    PROVE  Wanted(a, s) \subseteq Prints
<1> QED BY DEF Prints

(* What is sound stays sound while more is told, met and cut, and the clock  *)
(* stays within the task's life.                                             *)
LEMMA SoundLasts ==
    ASSUME TypeOK, NEW t \in Task, Sound(t), told' = told, met \subseteq met',
           log \subseteq log', cut \subseteq cut',
           begun' = begun, now' \in Nat, now <= now', now' <= t.at + RunLife
    PROVE  Sound(t)'
<1>1. InTime(t)'
  BY FanOutAssumption DEF Sound, InTime, Task, TypeOK
<1>2. Together(t)'
  BY DEF Sound, Together
<1>3. Choosing(t)' /\ Repeating(t)' /\ Arrived(t)'
  BY DEF Sound, Choosing, Repeating, Arrived, Excused, Idle
<1> QED BY <1>1, <1>2, <1>3 DEF Sound

(* Soundness of a slot's task after a step is that of the task it holds.     *)
LEMMA SoundAt ==
    ASSUME NEW f, NEW t, run'[f] = t, Sound(t)'
    PROVE  Sound(run[f])'
<1> QED BY DEF Sound, InTime, Together, Choosing, Repeating, Arrived, Idle

-----------------------------------------------------------------------------
(* One lemma for each kind of step.                                          *)

(* The owner's requests touch no task, mark or receiver.                     *)
LEMMA RequestStep ==
    ASSUME Inv, UNCHANGED <<seen, log, run, now, begun, told, met, cut>>, alerts' \subseteq Alerts
    PROVE  Inv'
<1>1. TypeOK'
  BY DEF Inv, TypeOK
<1>2. Live' = Live
  BY DEF Live
<1>3. TasksSound'
  BY <1>2
  DEF Inv, TasksSound, Sound, InTime, Together, Choosing, Repeating, Arrived, Excused, Idle
<1>4. MarksAreTrue' /\ RepeatsAreExplained'
  BY DEF Inv, MarksAreTrue, RepeatsAreExplained
<1>5. ToldIsMarked'
  BY <1>2 DEF Inv, ToldIsMarked, Excused, OnItsWay, Marked
<1> QED BY <1>1, <1>3, <1>4, <1>5 DEF Inv

(* The clock does not pass the end of a task's life.                         *)
LEMMA TickStep ==
    ASSUME Inv, Tick
    PROVE  Inv'
<1>1. /\ now' = now + 1 /\ UNCHANGED <<alerts, seen, log, run, begun, told, met, cut>>
      /\ \A f \in Live : now < run[f].at + RunLife
  BY DEF Tick
<1>2. Live' = Live
  BY <1>1 DEF Live
<1>3. TypeOK'
  BY <1>1 DEF Inv, TypeOK, Told
<1>4. ASSUME NEW f \in Live
      PROVE  Sound(run[f])'
  <2>1. PICK t \in Task : t = run[f] /\ Sound(t)
    BY LiveTasks DEF Inv, TasksSound
  <2>2. now' <= t.at + RunLife /\ now <= now' /\ now' \in Nat
    BY <1>1, <2>1, FanOutAssumption DEF Task, Inv, TypeOK
  <2>3. Sound(t)'
    BY <1>1, <2>1, <2>2, SoundLasts DEF Sound, InTime, Inv
  <2> QED BY <1>1, <2>1, <2>3, SoundAt
<1>5. TasksSound'
  BY <1>1, <1>2, <1>4 DEF Inv, TasksSound
<1>6. MarksAreTrue' /\ RepeatsAreExplained'
  BY <1>1 DEF Inv, MarksAreTrue, RepeatsAreExplained
<1>7. ToldIsMarked'
  BY <1>1, <1>2 DEF Inv, ToldIsMarked, Excused, OnItsWay, Marked
<1> QED BY <1>3, <1>5, <1>6, <1>7 DEF Inv

(* A task that begins meets every one that is under way.                     *)
LEMMA ArchiveStep ==
    ASSUME Inv, NEW f \in Slots, NEW s \in Surfaces, Archive(f, s)
    PROVE  Inv'
<1>0. PICK t : t = [no |-> begun + 1, at |-> now, surface |-> s, todo |-> {},
                    alert |-> NULL, fresh |-> {}, pc |-> "list"]
  OBVIOUS
<1>1. /\ run[f] = NULL /\ begun' = begun + 1 /\ run' = [run EXCEPT ![f] = t]
      /\ met' = met \union {{run[g].no, begun + 1} : g \in Live}
      /\ UNCHANGED <<alerts, seen, log, now, told, cut>>
  BY <1>0 DEF Archive
<1>2. TypeOK
  BY DEF Inv
<1>3. t \in Task /\ t # NULL
  BY <1>0, <1>2, TaskAssumption DEF TypeOK, Task
<1>4. /\ run' \in [Slots -> Task \union {NULL}] /\ run'[f] = t
      /\ \A g \in Slots : g # f => run'[g] = run[g]
      /\ Live' = Live \union {f}
  BY <1>1, <1>2, <1>3, OneSlot
<1>5. \A g \in Live : g # f /\ run'[g] = run[g]
  BY <1>1, <1>4 DEF Live
<1>6. TypeOK'
  BY <1>1, <1>2, <1>4 DEF TypeOK, Told
<1>7. Sound(t)'
  <2>1. t.no = begun + 1 /\ t.at = now /\ t.pc = "list"
    BY <1>0
  <2>2. InTime(t)'
    BY <1>1, <1>2, <2>1, FanOutAssumption DEF InTime, TypeOK
  <2>3. Together(t)' /\ Choosing(t)' /\ Repeating(t)' /\ Arrived(t)'
    BY <1>0, <1>1, <1>2, <2>1 DEF Together, Choosing, Repeating, Arrived, TypeOK, Idle
  <2> QED BY <2>2, <2>3 DEF Sound
<1>8. ASSUME NEW g \in Live
      PROVE  Sound(run[g])' /\ run'[g].no < begun + 1
  <2>1. PICK u \in Task : u = run[g] /\ Sound(u)
    BY <1>2, LiveTasks DEF Inv, TasksSound
  <2>2. InTime(u)' /\ u.no < begun + 1
    BY <1>1, <1>2, <2>1 DEF Sound, InTime, TypeOK, Task
  <2>3. Together(u)'
    <3>1. ASSUME NEW n \in Nat, u.no < n, n <= begun + 1
          PROVE  {u.no, n} \in met'
      <4>1. CASE n = begun + 1
        BY <1>1, <2>1, <4>1
      <4>2. CASE n # begun + 1
        <5>1. n <= begun
          BY <1>2, <3>1, <4>2 DEF TypeOK
        <5>2. Together(u)
          BY <2>1 DEF Sound
        <5> QED BY <1>1, <3>1, <5>1, <5>2 DEF Together
      <4> QED BY <4>1, <4>2
    <3> QED BY <1>1, <3>1 DEF Together
  <2>4. Choosing(u)' /\ Arrived(u)'
    BY <1>1, <2>1 DEF Sound, Choosing, Arrived
  <2>5. Repeating(u)'
    BY <1>1, <2>1 DEF Sound, Repeating, Excused
  <2>6. run'[g] = u
    BY <1>5, <2>1
  <2>7. Sound(u)'
    BY <2>2, <2>3, <2>4, <2>5 DEF Sound
  <2> QED BY <2>2, <2>6, <2>7, SoundAt
<1>9. TasksSound'
  <2>1. Sound(run[f])'
    BY <1>4, <1>7, SoundAt
  <2>2. run'[f].no = begun + 1
    BY <1>0, <1>4
  <2>3. ASSUME NEW k \in Live
        PROVE  run'[k].no # begun + 1
    <3>1. run'[k].no < begun + 1 /\ run'[k].no \in Nat
      BY <1>2, <1>5, <1>8, LiveTasks DEF Task
    <3> QED BY <1>2, <3>1 DEF TypeOK
  <2>4. ASSUME NEW g \in Live', NEW h \in Live', run'[g].no = run'[h].no
        PROVE  g = h
    <3>1. CASE g \in Live /\ h \in Live
      BY <1>5, <2>4, <3>1 DEF Inv, TasksSound
    <3>2. CASE g = f \/ h = f
      BY <1>4, <2>2, <2>3, <2>4, <3>2
    <3> QED BY <1>4, <3>1, <3>2
  <2> QED BY <1>4, <1>8, <2>1, <2>4 DEF TasksSound
<1>10. MarksAreTrue' /\ RepeatsAreExplained'
  BY <1>1 DEF Inv, MarksAreTrue, RepeatsAreExplained
<1>11. ToldIsMarked'
  <2>1. ASSUME NEW x \in told, OnItsWay(x)
        PROVE  OnItsWay(x)'
    BY <1>4, <1>5, <2>1 DEF OnItsWay
  <2> QED BY <1>1, <2>1 DEF Inv, ToldIsMarked, Marked, Excused
<1> QED BY <1>6, <1>9, <1>10, <1>11 DEF Inv

-----------------------------------------------------------------------------
(* The steps of a task.                                                      *)

(* A step of one task keeps all tasks sound when it keeps its own number and *)
(* leaves the others sound.                                                  *)
LEMMA SlotSound ==
    ASSUME Inv, NEW f \in Live, NEW t \in Task \union {NULL},
           run' = [run EXCEPT ![f] = t],
           t # NULL => t.no = run[f].no /\ Sound(t)',
           \A g \in Live : g # f => Sound(run[g])'
    PROVE  TasksSound'
<1>1. /\ run'[f] = t /\ f \in Slots
      /\ \A g \in Slots : g # f => run'[g] = run[g]
      /\ Live' = (IF t = NULL THEN Live \ {f} ELSE Live \union {f})
  BY OneSlot, LiveTasks DEF Inv
<1>2. \A g \in Live' : g \in Live /\ run'[g].no = run[g].no
  BY <1>1 DEF Live
<1>3. ASSUME NEW g \in Live'
      PROVE  Sound(run[g])'
  <2>1. CASE g = f
    BY <1>1, <1>3, <2>1, SoundAt
  <2>2. CASE g # f
    BY <1>2, <2>2
  <2> QED BY <2>1, <2>2
<1> QED BY <1>2, <1>3 DEF Inv, TasksSound

(* A step that tells nobody leaves every other task sound.                   *)
LEMMA OthersSound ==
    ASSUME Inv, NEW f \in Live, NEW t \in Task \union {NULL},
           run' = [run EXCEPT ![f] = t],
           UNCHANGED <<told, met, begun, now>>,
           log \subseteq log', cut \subseteq cut'
    PROVE  \A g \in Live : g # f => Sound(run[g])'
<1> SUFFICES ASSUME NEW g \in Live, g # f
             PROVE  Sound(run[g])'
  OBVIOUS
<1>1. PICK u \in Task : u = run[g] /\ Sound(u)
  BY LiveTasks DEF Inv, TasksSound
<1>2. run'[g] = u
  BY <1>1, OneSlot, LiveTasks DEF Inv
<1>3. now' <= u.at + RunLife /\ now' \in Nat /\ now <= now'
  BY <1>1 DEF Sound, InTime, Inv, TypeOK
<1>4. Sound(u)'
  BY <1>1, <1>3, SoundLasts DEF Inv
<1> QED BY <1>2, <1>4, SoundAt

(* A task that has gone on, or is over, is as sound as it was.               *)
LEMMA PastIsSound ==
    ASSUME NEW t \in Task, Sound(t), NEW a \in t.todo, NEW u, u = Past(t, a),
           UNCHANGED <<told, met, begun, now>>
    PROVE  /\ u \in Task \union {NULL}
           /\ u # NULL => u.no = t.no /\ u.pc = "next" /\ Sound(u)'
<1>1. \/ u = NULL
      \/ u \in Task /\ u.no = t.no /\ u.at = t.at /\ u.pc = "next"
  BY PastMovesOn
<1>2. ASSUME u # NULL
      PROVE  Sound(u)'
  <2>1. InTime(u)' /\ Together(u)'
    BY <1>1, <1>2 DEF Sound, InTime, Together
  <2>2. Choosing(u)' /\ Repeating(u)' /\ Arrived(u)'
    BY <1>1, <1>2 DEF Choosing, Repeating, Arrived, Idle
  <2> QED BY <2>1, <2>2 DEF Sound
<1> QED BY <1>1, <1>2

(* A step of one task that tells and marks nothing, and goes on from an      *)
(* attempt the receiver may have heard only with an excuse.                  *)
LEMMA SilentStep ==
    ASSUME Inv, NEW f \in Live, NEW t \in Task, t = run[f],
           NEW u \in Task \union {NULL}, run' = [run EXCEPT ![f] = u],
           UNCHANGED <<alerts, seen, now, begun, told, met>>,
           log \subseteq log', cut \subseteq cut',
           u # NULL => u.no = t.no /\ Sound(u)',
           t.pc \in {"delivered", "failed", "mark"} =>
               \/ /\ u # NULL /\ u.pc \in {"delivered", "failed", "mark"}
                  /\ u.alert = t.alert /\ u.fresh = t.fresh
               \/ [alert |-> t.alert, no |-> t.no, ok |-> FALSE] \in log'
               \/ [alert |-> t.alert, no |-> t.no] \in cut'
    PROVE  Inv'
<1>1. TasksSound'
  BY SlotSound, OthersSound
<1>2. /\ run' \in [Slots -> Task \union {NULL}] /\ run'[f] = u /\ f \in Slots
      /\ \A g \in Slots : g # f => run'[g] = run[g]
      /\ Live' = (IF u = NULL THEN Live \ {f} ELSE Live \union {f})
  BY OneSlot, LiveTasks DEF Inv
<1>3. TypeOK'
  BY <1>2 DEF Inv, TypeOK
<1>4. MarksAreTrue' /\ RepeatsAreExplained'
  BY DEF Inv, MarksAreTrue, RepeatsAreExplained
<1>5. ASSUME NEW x \in told, OnItsWay(x)
      PROVE  OnItsWay(x)' \/ Excused(x)'
  <2>1. PICK g \in Live : /\ run[g].no = x.no /\ run[g].pc \in {"delivered", "failed", "mark"}
                          /\ run[g].alert = x.alert /\ x.print \in run[g].fresh
    BY <1>5 DEF OnItsWay
  <2>2. CASE g = f
    <3>1. CASE /\ u # NULL /\ u.pc \in {"delivered", "failed", "mark"}
               /\ u.alert = t.alert /\ u.fresh = t.fresh
      BY <1>2, <2>1, <2>2, <3>1 DEF OnItsWay
    <3>2. CASE \/ [alert |-> t.alert, no |-> t.no, ok |-> FALSE] \in log'
               \/ [alert |-> t.alert, no |-> t.no] \in cut'
      BY <2>1, <2>2, <3>2 DEF Excused
    <3> QED BY <2>1, <2>2, <3>1, <3>2
  <2>3. CASE g # f
    <3>1. g \in Slots /\ g \in Live' /\ run'[g] = run[g]
      BY <1>2, <2>1, <2>3 DEF Live
    <3> QED BY <2>1, <3>1 DEF OnItsWay
  <2> QED BY <2>2, <2>3
<1>6. ASSUME NEW x \in told, Excused(x)
      PROVE  Excused(x)'
  BY <1>6 DEF Excused
<1>7. ASSUME NEW x \in told, Marked(x)
      PROVE  Marked(x)'
  BY <1>7 DEF Marked
<1>8. ToldIsMarked'
  BY <1>5, <1>6, <1>7 DEF Inv, ToldIsMarked
<1> QED BY <1>1, <1>3, <1>4, <1>8 DEF Inv

(* The list a task goes through is that of the alerts active when it reads.  *)
LEMMA ListStep ==
    ASSUME Inv, NEW f \in Slots, List(f)
    PROVE  Inv'
<1>1. f \in Live
  BY DEF List, Live
<1>2. PICK t \in Task : t = run[f] /\ Sound(t)
  BY <1>1, LiveTasks DEF Inv, TasksSound
<1>3. PICK u : u = IF alerts = {} THEN NULL
                   ELSE [t EXCEPT !.todo = alerts, !.pc = "next"]
  OBVIOUS
<1>4. /\ t.pc = "list" /\ run' = [run EXCEPT ![f] = u]
      /\ UNCHANGED <<alerts, seen, log, now, begun, told, met, cut>>
  BY <1>2, <1>3 DEF List
<1>5. u \in Task \union {NULL} /\ (u # NULL => u.no = t.no /\ Sound(u)')
  <2>1. CASE alerts = {}
    BY <1>3, <2>1
  <2>2. CASE alerts # {}
    <3>1. alerts \subseteq Alerts
      BY DEF Inv, TypeOK
    <3>2. u \in Task /\ u.no = t.no /\ u.at = t.at /\ u.pc = "next"
      BY <1>2, <1>3, <2>2, <3>1 DEF Task
    <3>3. InTime(u)' /\ Together(u)'
      BY <1>2, <1>4, <3>2 DEF Sound, InTime, Together
    <3>4. Choosing(u)' /\ Repeating(u)' /\ Arrived(u)'
      BY <3>2 DEF Choosing, Repeating, Arrived, Idle
    <3> QED BY <3>2, <3>3, <3>4 DEF Sound
  <2> QED BY <2>1, <2>2
<1> QED BY <1>1, <1>2, <1>4, <1>5, SilentStep

(* Choosing what to tell: what is left out was told lately, and what was     *)
(* told lately without a mark was told by a task met, or has an excuse.      *)
LEMMA PickStep ==
    ASSUME Inv, NEW f \in Slots, NEW a \in Alerts, Pick(f, a)
    PROVE  Inv'
<1>1. f \in Live
  BY DEF Pick, Live
<1>2. PICK t \in Task : t = run[f] /\ Sound(t)
  BY <1>1, LiveTasks DEF Inv, TasksSound
<1>3. PICK fresh : fresh = {p \in Wanted(a, t.surface) : ~Already(a, p, t.at)}
  OBVIOUS
<1>4. PICK u : u = IF fresh = {} THEN Past(t, a)
                   ELSE [t EXCEPT !.alert = a, !.fresh = fresh, !.pc = "deliver"]
  OBVIOUS
<1>5. /\ t.pc = "next" /\ a \in t.todo /\ run' = [run EXCEPT ![f] = u]
      /\ UNCHANGED <<alerts, seen, log, now, begun, told, met, cut>>
  BY <1>2, <1>3, <1>4 DEF Pick
<1>6. u \in Task \union {NULL} /\ (u # NULL => u.no = t.no /\ Sound(u)')
  <2>1. CASE fresh = {}
    BY <1>2, <1>4, <1>5, <2>1, PastIsSound
  <2>2. CASE fresh # {}
    <3>1. fresh \subseteq Prints /\ fresh \subseteq Wanted(a, t.surface)
      BY <1>2, <1>3, WantedArePrints DEF Task
    <3>2. /\ u \in Task /\ u.no = t.no /\ u.at = t.at /\ u.todo = t.todo
          /\ u.surface = t.surface
          /\ u.alert = a /\ u.fresh = fresh /\ u.pc = "deliver"
      BY <1>2, <1>4, <2>2, <3>1 DEF Task
    <3>3. InTime(u)' /\ Together(u)' /\ Arrived(u)'
      BY <1>2, <1>5, <3>2 DEF Sound, InTime, Together, Arrived
    <3>4. ASSUME NEW p \in Wanted(a, t.surface) \ fresh
          PROVE  \E x \in told : x.alert = a /\ x.print = p /\ x.at > t.at - Quiet
      <4>1. p \in Prints
        BY <1>2, WantedArePrints DEF Task
      <4>2. seen[a][p] # NULL /\ seen[a][p] > t.at - Quiet
        BY <1>3, <3>4 DEF Already
      <4> QED BY <4>1, <4>2 DEF Inv, MarksAreTrue
    <3>5. Choosing(u)'
      BY <1>5, <3>1, <3>2, <3>4 DEF Choosing
    <3>6. ASSUME NEW x \in told, x.alert = a, x.print \in fresh, x.no < t.no,
                 t.at - x.at < Quiet - RunLife
          PROVE  {x.no, t.no} \in met \/ Excused(x)
      <4>1. x \in Told /\ t.no \in Nat /\ t.at \in Nat /\ t.no <= begun
        BY <1>2 DEF Inv, TypeOK, Task, Sound, InTime
      <4>2. CASE Excused(x)
        BY <4>2
      <4>3. CASE OnItsWay(x)
        <5>1. PICK g \in Live : run[g].no = x.no
          BY <4>3 DEF OnItsWay
        <5>2. Together(run[g])
          BY <5>1 DEF Inv, TasksSound, Sound
        <5> QED BY <3>6, <4>1, <5>1, <5>2 DEF Together
      <4>4. CASE Marked(x)
        <5>1. seen[a][x.print] # NULL /\ seen[a][x.print] >= x.at - RunLife
          BY <3>6, <4>4 DEF Marked
        <5>2. x.print \in Prints /\ x.at \in Nat
          BY <4>1 DEF Told
        <5>3. seen[a][x.print] \in Nat
          BY <5>1, <5>2 DEF Inv, TypeOK
        <5>4. seen[a][x.print] > t.at - Quiet
          BY <3>6, <4>1, <5>1, <5>2, <5>3, FanOutAssumption
        <5>5. ~Already(a, x.print, t.at)
          BY <1>3, <3>6
        <5> QED BY <5>1, <5>4, <5>5 DEF Already
      <4> QED BY <4>2, <4>3, <4>4 DEF Inv, ToldIsMarked
    <3>7. Repeating(u)'
      BY <1>5, <3>2, <3>6 DEF Repeating, Excused
    <3> QED BY <3>2, <3>3, <3>5, <3>7 DEF Sound
  <2> QED BY <2>1, <2>2
<1> QED BY <1>1, <1>2, <1>5, <1>6, SilentStep

(* A delivery that was heard, whether or not it was answered well in time:   *)
(* the task is on its way to the mark or to the log.                         *)
LEMMA HeardStep ==
    ASSUME Inv, NEW f \in Slots, NEW ok \in BOOLEAN, Deliver(f, ok, TRUE)
    PROVE  Inv'
<1>1. f \in Live
  BY DEF Deliver, Live
<1>2. PICK t \in Task : t = run[f] /\ Sound(t)
  BY <1>1, LiveTasks DEF Inv, TasksSound
<1>3. PICK u : u = [t EXCEPT !.pc = IF ok THEN "delivered" ELSE "failed"]
  OBVIOUS
<1>4. PICK news : news = {[alert |-> t.alert, print |-> p, no |-> t.no, at |-> t.at] : p \in t.fresh}
  OBVIOUS
<1>5. /\ t.pc = "deliver" /\ run' = [run EXCEPT ![f] = u] /\ told' = told \union news
      /\ UNCHANGED <<alerts, seen, log, now, begun, met, cut>>
  BY <1>2, <1>3, <1>4 DEF Deliver
<1>6. /\ u \in Task /\ u # NULL /\ u.pc \in {"delivered", "failed"} /\ u.no = t.no /\ u.at = t.at
      /\ u.alert = t.alert /\ u.fresh = t.fresh /\ u.surface = t.surface /\ u.todo = t.todo
  BY <1>2, <1>3, TaskAssumption DEF Task
<1>7. \A x \in news : /\ x.alert = t.alert /\ x.print \in t.fresh
                     /\ x.no = t.no /\ x.at = t.at
  BY <1>4
<1>8. /\ run' \in [Slots -> Task \union {NULL}] /\ run'[f] = u
      /\ \A g \in Slots : g # f => run'[g] = run[g]
      /\ Live' = Live \union {f}
  BY <1>5, <1>6, OneSlot DEF Inv
<1>9. t.no \in Nat /\ t.at \in Nat /\ t.no <= begun /\ t.at <= now
  BY <1>2 DEF Task, Sound, InTime
<1>10. TypeOK'
  <2>1. news \subseteq Told
    <3>1. t.alert \in Alerts /\ t.fresh \subseteq Prints
      BY <1>2, <1>5 DEF Sound, Choosing, Task, Idle
    <3> QED BY <1>4, <1>9, <3>1 DEF Told
  <2>2. \A x \in news : x.at <= now /\ x.no <= begun
    BY <1>7, <1>9
  <2> QED BY <1>5, <1>8, <2>1, <2>2 DEF Inv, TypeOK, Told
<1>11. Sound(u)'
  <2>1. InTime(u)' /\ Together(u)'
    BY <1>2, <1>5, <1>6 DEF Sound, InTime, Together
  <2>2. Choosing(u)'
    BY <1>2, <1>5, <1>6 DEF Sound, Choosing, Idle
  <2>3. Repeating(u)'
    <3>1. ASSUME NEW x \in told', x.alert = t.alert, x.print \in t.fresh,
                 x.no < t.no, t.at - x.at < Quiet - RunLife
          PROVE  {x.no, t.no} \in met \/ Excused(x)
      <4>1. x \in told
        BY <1>5, <1>7, <1>9, <3>1
      <4> QED BY <1>2, <1>5, <3>1, <4>1 DEF Sound, Repeating, Idle
    <3> QED BY <1>5, <1>6, <3>1 DEF Repeating, Excused
  <2>4. ASSUME NEW p \in t.fresh
        PROVE  \E x \in told' : x.alert = t.alert /\ x.print = p /\ x.at = t.at
    <3>1. PICK x : x = [alert |-> t.alert, print |-> p, no |-> t.no, at |-> t.at]
      OBVIOUS
    <3>2. x \in told' /\ x.alert = t.alert /\ x.print = p /\ x.at = t.at
      BY <1>4, <1>5, <3>1
    <3> QED BY <3>2
  <2>5. Arrived(u)'
    BY <1>6, <2>4 DEF Arrived
  <2> QED BY <2>1, <2>2, <2>3, <2>5 DEF Sound
<1>12. ASSUME NEW g \in Live, g # f
       PROVE  Sound(run[g])'
  <2>1. PICK v \in Task : v = run[g] /\ Sound(v)
    BY LiveTasks DEF Inv, TasksSound
  <2>2. v.no \in Nat /\ v.no <= begun
    BY <2>1 DEF Task, Sound, InTime
  <2>3. InTime(v)' /\ Together(v)'
    BY <1>5, <2>1 DEF Sound, InTime, Together
  <2>4. Choosing(v)' /\ Arrived(v)'
    BY <1>5, <2>1 DEF Sound, Choosing, Arrived
  <2>5. ASSUME NEW x \in told', ~Idle(v), x.alert = v.alert, x.print \in v.fresh,
               x.no < v.no, v.at - x.at < Quiet - RunLife
        PROVE  {x.no, v.no} \in met \/ Excused(x)
    <3>1. CASE x \in told
      BY <2>1, <2>5, <3>1 DEF Sound, Repeating
    <3>2. CASE x \in news
      BY <1>2, <1>7, <2>2, <2>5, <3>2 DEF Sound, Together
    <3> QED BY <1>5, <3>1, <3>2
  <2>6. Repeating(v)'
    BY <1>5, <2>5 DEF Repeating, Excused, Idle
  <2>7. run'[g] = v
    BY <1>8, <1>12, <2>1, LiveTasks DEF Inv
  <2>8. Sound(v)'
    BY <2>3, <2>4, <2>6 DEF Sound
  <2> QED BY <2>7, <2>8, SoundAt
<1>13. TasksSound'
  BY <1>1, <1>2, <1>5, <1>6, <1>11, <1>12, SlotSound
<1>14. MarksAreTrue'
  BY <1>5 DEF Inv, MarksAreTrue
<1>15. ToldIsMarked'
  <2>1. ASSUME NEW x \in told, OnItsWay(x)
        PROVE  OnItsWay(x)'
    <3>1. PICK g \in Live : /\ run[g].no = x.no /\ run[g].pc \in {"delivered", "failed", "mark"}
                            /\ run[g].alert = x.alert /\ x.print \in run[g].fresh
      BY <2>1 DEF OnItsWay
    <3>2. g # f /\ g \in Slots
      BY <1>2, <1>5, <3>1, LiveTasks DEF Inv
    <3>3. g \in Live' /\ run'[g] = run[g]
      BY <1>8, <3>1, <3>2
    <3> QED BY <3>1, <3>3 DEF OnItsWay
  <2>2. ASSUME NEW x \in news
        PROVE  OnItsWay(x)'
    BY <1>6, <1>7, <1>8 DEF OnItsWay
  <2>3. ASSUME NEW x \in told, Marked(x)
        PROVE  Marked(x)'
    BY <1>5, <2>3 DEF Marked
  <2> QED BY <1>5, <2>1, <2>2, <2>3 DEF Inv, ToldIsMarked, Excused
<1>16. RepeatsAreExplained'
  <2>1. ASSUME NEW x \in told', NEW y \in told', x.alert = y.alert, x.print = y.print,
               x.no < y.no, y.at - x.at < Quiet - RunLife
        PROVE  {x.no, y.no} \in met \/ Excused(x)
    <3>1. CASE x \in told /\ y \in told
      BY <2>1, <3>1 DEF Inv, RepeatsAreExplained, Excused
    <3>2. CASE x \in told /\ y \in news
      <4>1. y.alert = t.alert /\ y.print \in t.fresh /\ y.no = t.no /\ y.at = t.at
        BY <1>7, <3>2
      <4>2. Repeating(t) /\ ~Idle(t)
        BY <1>2, <1>5 DEF Sound, Idle
      <4> QED BY <2>1, <3>2, <4>1, <4>2 DEF Repeating
    <3>3. CASE x \in news /\ y \in told
      <4>1. y.no \in Nat /\ y.no <= begun
        BY <3>3 DEF Inv, TypeOK, Told
      <4>2. Together(t) /\ x.no = t.no
        BY <1>2, <1>7, <3>3 DEF Sound
      <4> QED BY <2>1, <4>1, <4>2 DEF Together
    <3>4. CASE x \in news /\ y \in news
      BY <1>7, <1>9, <2>1, <3>4
    <3> QED BY <1>5, <3>1, <3>2, <3>3, <3>4
  <2> QED BY <1>5, <2>1 DEF RepeatsAreExplained, Excused
<1> QED BY <1>10, <1>13, <1>14, <1>15, <1>16 DEF Inv

(* A delivery that failed unheard tells and marks nothing.                   *)
LEMMA UnheardStep ==
    ASSUME Inv, NEW f \in Slots, Deliver(f, FALSE, FALSE)
    PROVE  Inv'
<1>1. f \in Live
  BY DEF Deliver, Live
<1>2. PICK t \in Task : t = run[f] /\ Sound(t)
  BY <1>1, LiveTasks DEF Inv, TasksSound
<1>3. PICK u : u = [t EXCEPT !.pc = "failed"]
  OBVIOUS
<1>4. /\ t.pc = "deliver" /\ run' = [run EXCEPT ![f] = u]
      /\ UNCHANGED <<alerts, seen, log, now, begun, told, met, cut>>
  BY <1>2, <1>3 DEF Deliver
<1>5. /\ u \in Task /\ u.pc = "failed" /\ u.no = t.no /\ u.at = t.at
      /\ u.alert = t.alert /\ u.fresh = t.fresh /\ u.surface = t.surface /\ u.todo = t.todo
  BY <1>2, <1>3 DEF Task
<1>6. InTime(u)' /\ Together(u)'
  BY <1>2, <1>4, <1>5 DEF Sound, InTime, Together
<1>7. Choosing(u)' /\ Repeating(u)' /\ Arrived(u)'
  BY <1>2, <1>4, <1>5 DEF Sound, Choosing, Repeating, Arrived, Excused, Idle
<1>8. Sound(u)'
  BY <1>6, <1>7 DEF Sound
<1> QED BY <1>1, <1>2, <1>4, <1>5, <1>8, SilentStep

(* The log comes before the mark; an attempt that is not marked is on it.    *)
LEMMA RecordStep ==
    ASSUME Inv, NEW f \in Slots, Record(f)
    PROVE  Inv'
<1>1. f \in Live
  BY DEF Record, Live
<1>2. PICK t \in Task : t = run[f] /\ Sound(t)
  BY <1>1, LiveTasks DEF Inv, TasksSound
<1>3. PICK u : u = IF t.pc = "delivered" THEN [t EXCEPT !.pc = "mark"] ELSE Past(t, t.alert)
  OBVIOUS
<1>4. /\ t.pc \in {"delivered", "failed"} /\ run' = [run EXCEPT ![f] = u]
      /\ UNCHANGED <<alerts, seen, now, begun, told, met, cut>>
      /\ log' = log \union {[alert |-> t.alert, no |-> t.no, ok |-> t.pc = "delivered"]}
  BY <1>2, <1>3 DEF Record, Marks
<1>5. CASE t.pc = "delivered"
  <2>1. /\ u \in Task /\ u # NULL /\ u.pc = "mark" /\ u.no = t.no /\ u.at = t.at
        /\ u.alert = t.alert /\ u.fresh = t.fresh /\ u.surface = t.surface /\ u.todo = t.todo
    BY <1>2, <1>3, <1>5, TaskAssumption DEF Task
  <2>2. InTime(u)' /\ Together(u)'
    BY <1>2, <1>4, <2>1 DEF Sound, InTime, Together
  <2>3. Choosing(u)' /\ Repeating(u)' /\ Arrived(u)'
    BY <1>2, <1>4, <1>5, <2>1 DEF Sound, Choosing, Repeating, Arrived, Excused, Idle
  <2>4. Sound(u)'
    BY <2>2, <2>3 DEF Sound
  <2> QED BY <1>1, <1>2, <1>4, <2>1, <2>4, SilentStep
<1>6. CASE t.pc = "failed"
  <2>1. t.alert \in t.todo
    BY <1>2, <1>6 DEF Sound, Choosing, Idle
  <2>2. u \in Task \union {NULL} /\ (u # NULL => u.no = t.no /\ Sound(u)')
    BY <1>2, <1>3, <1>4, <1>6, <2>1, PastIsSound
  <2>3. [alert |-> t.alert, no |-> t.no, ok |-> FALSE] \in log'
    BY <1>4, <1>6
  <2> QED BY <1>1, <1>2, <1>4, <2>2, <2>3, SilentStep
<1> QED BY <1>4, <1>5, <1>6

(* A mark is the clock its task began with, at most RunLife before the       *)
(* latest that was told, and it is put only where something arrived.         *)
LEMMA MarkSeenStep ==
    ASSUME Inv, NEW f \in Slots, MarkSeen(f)
    PROVE  Inv'
<1>1. f \in Live
  BY DEF MarkSeen, Live
<1>2. PICK t \in Task : t = run[f] /\ Sound(t)
  BY <1>1, LiveTasks DEF Inv, TasksSound
<1>3. PICK u : u = Past(t, t.alert)
  OBVIOUS
<1>4. /\ t.pc = "mark" /\ run' = [run EXCEPT ![f] = u]
      /\ UNCHANGED <<alerts, log, now, begun, told, met, cut>>
      /\ seen' = [seen EXCEPT ![t.alert] =
                    [p \in Prints |-> IF p \in t.fresh THEN t.at ELSE seen[t.alert][p]]]
  BY <1>2, <1>3 DEF MarkSeen
<1>5. t.alert \in t.todo /\ t.alert \in Alerts /\ t.at \in Nat /\ now <= t.at + RunLife
  BY <1>2, <1>4 DEF Sound, Choosing, InTime, Task, Idle
<1>6. u \in Task \union {NULL} /\ (u # NULL => u.no = t.no /\ Sound(u)')
  BY <1>2, <1>3, <1>4, <1>5, PastIsSound
<1>7. TasksSound'
  BY <1>1, <1>2, <1>4, <1>6, SlotSound, OthersSound
<1>8. /\ run' \in [Slots -> Task \union {NULL}] /\ run'[f] = u
      /\ \A g \in Slots : g # f => run'[g] = run[g]
      /\ Live' = (IF u = NULL THEN Live \ {f} ELSE Live \union {f})
  BY <1>4, <1>6, OneSlot DEF Inv
<1>9. ASSUME NEW a \in Alerts, NEW p \in Prints
      PROVE  seen'[a][p] = IF a = t.alert /\ p \in t.fresh THEN t.at ELSE seen[a][p]
  BY <1>4, <1>5 DEF Inv, TypeOK
<1>10. TypeOK'
  <2>1. [p \in Prints |-> IF p \in t.fresh THEN t.at ELSE seen[t.alert][p]]
           \in [Prints -> Nat \union {NULL}]
    BY <1>5 DEF Inv, TypeOK
  <2>2. seen' \in [Alerts -> [Prints -> Nat \union {NULL}]]
    BY <1>4, <2>1 DEF Inv, TypeOK
  <2> QED BY <1>4, <1>8, <2>2 DEF Inv, TypeOK
<1>11. MarksAreTrue'
  <2>1. ASSUME NEW a \in Alerts, NEW p \in Prints, seen'[a][p] # NULL
        PROVE  \E x \in told : x.alert = a /\ x.print = p /\ x.at = seen'[a][p]
    <3>1. CASE a = t.alert /\ p \in t.fresh
      BY <1>2, <1>4, <1>9, <3>1 DEF Sound, Arrived
    <3>2. CASE ~(a = t.alert /\ p \in t.fresh)
      BY <1>9, <2>1, <3>2 DEF Inv, MarksAreTrue
    <3> QED BY <3>1, <3>2
  <2> QED BY <1>4, <2>1 DEF MarksAreTrue
<1>12. ToldIsMarked'
  <2>1. ASSUME NEW x \in told, Marked(x)
        PROVE  Marked(x)'
    <3>1. /\ x.alert \in Alerts /\ x.print \in Prints /\ x.at \in Nat /\ x.at <= now
          /\ now \in Nat
      BY DEF Inv, TypeOK, Told
    <3>2. t.at # NULL /\ t.at >= x.at - RunLife
      BY <1>5, <3>1, FanOutAssumption
    <3> QED BY <1>9, <2>1, <3>1, <3>2 DEF Marked
  <2>2. ASSUME NEW x \in told, OnItsWay(x)
        PROVE  OnItsWay(x)' \/ Marked(x)'
    <3>1. PICK g \in Live : /\ run[g].no = x.no /\ run[g].pc \in {"delivered", "failed", "mark"}
                            /\ run[g].alert = x.alert /\ x.print \in run[g].fresh
      BY <2>2 DEF OnItsWay
    <3>2. CASE g = f
      <4>1. /\ x.alert \in Alerts /\ x.print \in Prints /\ x.at \in Nat /\ x.at <= now
            /\ now \in Nat
        BY DEF Inv, TypeOK, Told
      <4>2. t.at # NULL /\ t.at >= x.at - RunLife
        BY <1>5, <4>1, FanOutAssumption
      <4>3. seen'[x.alert][x.print] = t.at
        BY <1>2, <1>9, <3>1, <3>2, <4>1
      <4> QED BY <4>2, <4>3 DEF Marked
    <3>3. CASE g # f
      <4>1. g \in Live' /\ run'[g] = run[g]
        BY <1>8, <3>1, <3>3, LiveTasks DEF Inv
      <4> QED BY <3>1, <4>1 DEF OnItsWay
    <3> QED BY <3>2, <3>3
  <2> QED BY <1>4, <2>1, <2>2 DEF Inv, ToldIsMarked, Excused
<1>13. RepeatsAreExplained'
  BY <1>4 DEF Inv, RepeatsAreExplained
<1> QED BY <1>7, <1>10, <1>11, <1>12, <1>13 DEF Inv

(* An attempt the platform ended between delivery and mark is among those    *)
(* cut off.                                                                  *)
LEMMA CutOffStep ==
    ASSUME Inv, NEW f \in Slots, CutOff(f)
    PROVE  Inv'
<1>1. f \in Live
  BY DEF CutOff, Live
<1>2. PICK t \in Task : t = run[f] /\ Sound(t)
  BY <1>1, LiveTasks DEF Inv, TasksSound
<1>3. PICK u : u = NULL
  OBVIOUS
<1>4. /\ run' = [run EXCEPT ![f] = u] /\ cut \subseteq cut'
      /\ UNCHANGED <<alerts, seen, log, now, begun, told, met>>
      /\ t.pc \in {"delivered", "failed", "mark"} =>
            [alert |-> t.alert, no |-> t.no] \in cut'
  BY <1>2, <1>3 DEF CutOff
<1> QED BY <1>1, <1>2, <1>3, <1>4, SilentStep

-----------------------------------------------------------------------------
(* The invariant, and what follows from it.                                  *)

(* Nothing is told, marked or under way at first.                            *)
LEMMA Initially ==
    ASSUME Init
    PROVE  Inv
<1>1. Live = {}
  BY DEF Init, Live
<1>2. TypeOK
  BY DEF Init, TypeOK
<1> QED BY <1>1, <1>2 DEF Init, Inv, TasksSound, MarksAreTrue, ToldIsMarked, RepeatsAreExplained

(* Every step of the edge keeps the invariant.                               *)
LEMMA Inductive ==
    ASSUME Inv, [Next]_vars
    PROVE  Inv'
<1>1. ASSUME NEW f \in Slots, NEW s \in Surfaces, Archive(f, s)
      PROVE  Inv'
  BY <1>1, ArchiveStep
<1>2. ASSUME NEW f \in Slots, NEW a \in Alerts, Pick(f, a)
      PROVE  Inv'
  BY <1>2, PickStep
<1>3. ASSUME NEW f \in Slots, NEW ok \in BOOLEAN, NEW heard \in BOOLEAN,
             Deliver(f, ok, heard)
      PROVE  Inv'
  <2>1. CASE heard = TRUE
    BY <1>3, <2>1, HeardStep
  <2>2. CASE heard = FALSE
    <3>1. ok = FALSE
      BY <1>3, <2>2 DEF Deliver
    <3> QED BY <1>3, <2>2, <3>1, UnheardStep
  <2> QED BY <2>1, <2>2
<1>4. ASSUME NEW f \in Slots, Record(f)
      PROVE  Inv'
  BY <1>4, RecordStep
<1>5. ASSUME NEW f \in Slots, MarkSeen(f)
      PROVE  Inv'
  BY <1>5, MarkSeenStep
<1>6. ASSUME NEW f \in Slots, CutOff(f)
      PROVE  Inv'
  BY <1>6, CutOffStep
<1>7. ASSUME NEW p \in Posters, PostCount(p)
      PROVE  Inv'
  BY <1>7, RequestStep DEF PostCount, Inv, TypeOK
<1>8. ASSUME NEW p \in Posters, NEW a \in Alerts, PostInsert(p, a)
      PROVE  Inv'
  BY <1>8, RequestStep DEF PostInsert, Inv, TypeOK
<1>9. ASSUME NEW a \in Alerts, Delete(a)
      PROVE  Inv'
  BY <1>9, RequestStep DEF Delete, Inv, TypeOK
<1>10. CASE Tick
  BY <1>10, TickStep
<1>11. CASE UNCHANGED vars
  BY <1>11, RequestStep DEF vars, Inv, TypeOK
<1>12. ASSUME NEW f \in Slots, List(f)
       PROVE  Inv'
  BY <1>12, ListStep
<1> QED
  BY <1>1, <1>2, <1>3, <1>4, <1>5, <1>6, <1>7, <1>8, <1>9, <1>10, <1>11, <1>12
  DEF Next, Step

(* The invariant of the fan-out holds throughout.                            *)
THEOREM Invariance == Spec => []Inv
<1>1. Init => Inv
  BY Initially
<1>2. Inv /\ [Next]_vars => Inv'
  BY Inductive
<1> QED BY <1>1, <1>2, PTL DEF Spec

(* A receiver hears again within the quiet period, less a task's life, only  *)
(* of a task that was under way with the first, of an attempt the owner's    *)
(* log has as failed, or of one cut off between its delivery and its mark:   *)
(* whatever the alerts, the fits and the faults.                             *)
THEOREM RepeatsExplained == Spec => []RepeatsAreExplained
<1>1. Inv => RepeatsAreExplained
  BY DEF Inv
<1> QED BY <1>1, Invariance, PTL

(* What a task leaves behind when it goes on was told, or its failure is on  *)
(* the owner's log.                                                          *)
LEMMA LeftBehind ==
    ASSUME Inv, NEW f \in Live, Step(f),
           NEW a \in run[f].todo,
           run'[f] = NULL \/ a \notin run'[f].todo,
           NEW p \in Wanted(a, run[f].surface)
    PROVE  \/ \E x \in told : x.alert = a /\ x.print = p /\ x.at > run[f].at - Quiet
           \/ [alert |-> a, no |-> run[f].no, ok |-> FALSE] \in log'
<1>1. f \in Slots
  BY DEF Live
<1>2. PICK t \in Task : t = run[f] /\ Sound(t)
  BY LiveTasks DEF Inv, TasksSound
<1>3. a \in Alerts /\ p \in Prints /\ t.at \in Int
  BY <1>2, WantedArePrints DEF Task
<1>4. run \in [Slots -> Task \union {NULL}]
  BY DEF Inv, TypeOK
<1>5. ~List(f)
  BY <1>2 DEF List, Sound, Choosing
<1>6. ASSUME NEW b \in Alerts, Pick(f, b)
      PROVE  \E x \in told : x.alert = a /\ x.print = p /\ x.at > t.at - Quiet
  <2>1. PICK fresh : fresh = {q \in Wanted(b, t.surface) : ~Already(b, q, t.at)}
    OBVIOUS
  <2>2. PICK v : v = [t EXCEPT !.alert = b, !.fresh = fresh, !.pc = "deliver"]
    OBVIOUS
  <2>3. v.todo = t.todo
    BY <1>2, <2>2 DEF Task
  <2>4. run'[f] = IF fresh = {} THEN Past(t, b) ELSE v
    BY <1>2, <1>4, <1>6, <2>1, <2>2 DEF Pick
  <2>5. fresh = {} /\ run'[f] = Past(t, b) /\ b \in t.todo
    <3>1. fresh = {}
      <4>1. fresh \subseteq Prints
        BY <1>2, <2>1, WantedArePrints DEF Task
      <4>2. v \in Task
        BY <1>2, <2>2, <4>1 DEF Task
      <4> QED BY <1>2, <2>3, <2>4, <4>2, TaskAssumption
    <3> QED BY <1>2, <1>6, <2>4, <3>1 DEF Pick
  <2>6. a = b
    BY <1>2, <2>5, PastMovesOn, TaskAssumption
  <2>7. Already(a, p, t.at)
    BY <1>2, <2>1, <2>5, <2>6
  <2> QED BY <1>3, <2>7 DEF Already, Inv, MarksAreTrue
<1>7. ASSUME Record(f)
      PROVE  [alert |-> a, no |-> t.no, ok |-> FALSE] \in log'
  <2>1. CASE t.pc = "delivered"
    <3>1. PICK v : v = [t EXCEPT !.pc = "mark"]
      OBVIOUS
    <3>2. v.todo = t.todo /\ v # NULL /\ run'[f] = v
      BY <1>2, <1>4, <1>7, <2>1, <3>1, TaskAssumption DEF Task, Record, Marks
    <3> QED BY <1>2, <3>2
  <2>2. CASE t.pc = "failed"
    <3>1. run'[f] = Past(t, t.alert) /\ t.alert \in t.todo
      BY <1>2, <1>4, <1>7, <2>2 DEF Record, Marks, Sound, Choosing, Idle
    <3>2. a = t.alert
      BY <1>2, <3>1, PastMovesOn, TaskAssumption
    <3> QED BY <1>2, <1>7, <2>2, <3>2 DEF Record
  <2> QED BY <1>2, <1>7, <2>1, <2>2 DEF Record
<1>8. ASSUME MarkSeen(f)
      PROVE  \E x \in told : x.alert = a /\ x.print = p /\ x.at > t.at - Quiet
  <2>1. run'[f] = Past(t, t.alert) /\ t.alert \in t.todo /\ t.pc = "mark"
    BY <1>2, <1>4, <1>8 DEF MarkSeen, Sound, Choosing, Idle
  <2>2. a = t.alert
    BY <1>2, <2>1, PastMovesOn, TaskAssumption
  <2>3. CASE p \in t.fresh
    <3>1. PICK x \in told : x.alert = a /\ x.print = p /\ x.at = t.at
      BY <1>2, <2>1, <2>2, <2>3 DEF Sound, Arrived
    <3>2. x.at > t.at - Quiet
      BY <1>3, <3>1, FanOutAssumption
    <3> QED BY <3>1, <3>2
  <2>4. CASE p \notin t.fresh
    BY <1>2, <2>1, <2>2, <2>4 DEF Sound, Choosing, Idle
  <2> QED BY <2>3, <2>4
<1>9. ASSUME NEW ok \in BOOLEAN, NEW heard \in BOOLEAN, Deliver(f, ok, heard)
      PROVE  FALSE
  <2>1. PICK v : v = [t EXCEPT !.pc = IF ok THEN "delivered" ELSE "failed"]
    OBVIOUS
  <2>2. run'[f] = v
    BY <1>1, <1>2, <1>4, <1>9, <2>1 DEF Deliver
  <2>3. v \in Task /\ v.todo = t.todo
    BY <1>2, <2>1 DEF Task
  <2> QED BY <1>2, <2>2, <2>3, TaskAssumption
<1>10. CASE (\E b \in Alerts : Pick(f, b)) \/ MarkSeen(f)
  <2>1. \E x \in told : x.alert = a /\ x.print = p /\ x.at > t.at - Quiet
    BY <1>6, <1>8, <1>10
  <2> QED BY <1>2, <2>1
<1>11. CASE Record(f)
  BY <1>2, <1>7, <1>11
<1> QED BY <1>5, <1>9, <1>10, <1>11 DEF Step

(* Nothing an alert wants stops arriving in silence while its task runs, for *)
(* every alert, fit and interleaving.                                        *)
THEOREM NothingStopsInSilence == Spec => ToldOrLogged
<1>1. Inv /\ [Next]_vars =>
        [\A f \in Live :
           \A a \in run[f].todo \ (IF run'[f] = NULL THEN {} ELSE run'[f].todo) :
              Step(f) =>
                \A p \in Wanted(a, run[f].surface) :
                  \/ \E x \in told : x.alert = a /\ x.print = p /\ x.at > run[f].at - Quiet
                  \/ [alert |-> a, no |-> run[f].no, ok |-> FALSE] \in log']_vars
  BY LeftBehind
<1> QED BY <1>1, Invariance, PTL DEF Spec, ToldOrLogged

-----------------------------------------------------------------------------
(* The limit on an owner's alerts.                                           *)

(* The list and the requests that counted room are finite, and together      *)
(* within the bound.                                                         *)
Counted ==
    /\ IsFiniteSet(alerts)
    /\ waiting \subseteq Posters
    /\ OvershootIsBounded

(* The sizes the bound is about are numbers.                                 *)
LEMMA Sizes ==
    ASSUME Counted
    PROVE  /\ IsFiniteSet(waiting) /\ IsFiniteSet(Posters)
           /\ Cardinality(alerts) \in Nat /\ Cardinality(waiting) \in Nat
           /\ Cardinality(Posters) \in Nat /\ Limit \in Nat
           /\ Cardinality(waiting) <= Cardinality(Posters)
<1> QED BY FS_Subset, FS_CardinalityType, FanOutAssumption DEF Counted

(* A count finds the list below the limit, and at most every request is in   *)
(* flight; what it adds in flight, its insert takes out again.               *)
LEMMA CountedHolds ==
    ASSUME Counted, [Next]_vars
    PROVE  Counted'
<1>1. ASSUME NEW p \in Posters, PostCount(p)
      PROVE  Counted'
  <2>1. PICK more : more = waiting \union {p}
    OBVIOUS
  <2>2. more \subseteq Posters /\ waiting' = more /\ alerts' = alerts
    BY <1>1, <2>1 DEF PostCount, Counted
  <2>3. Cardinality(more) <= Cardinality(Posters) /\ Cardinality(more) \in Nat
    BY <2>2, Sizes, FS_Subset, FS_CardinalityType
  <2>4. Cardinality(alerts) < Limit
    BY <1>1 DEF PostCount, Room
  <2>5. Cardinality(alerts) + Cardinality(more) <= Limit + Cardinality(Posters) - 1
    BY <2>3, <2>4, Sizes
  <2> QED BY <2>2, <2>5 DEF Counted, OvershootIsBounded
<1>2. ASSUME NEW p \in Posters, NEW a \in Alerts, PostInsert(p, a)
      PROVE  Counted'
  <2>1. PICK more : more = alerts \union {a}
    OBVIOUS
  <2>2. PICK fewer : fewer = waiting \ {p}
    OBVIOUS
  <2>3. p \in waiting /\ alerts' = more /\ waiting' = fewer
    BY <1>2, <2>1, <2>2 DEF PostInsert
  <2>4. /\ IsFiniteSet(more) /\ Cardinality(more) \in Nat
        /\ Cardinality(more) <= Cardinality(alerts) + 1
    <3>1. IsFiniteSet(alerts) /\ Cardinality(alerts) \in Nat
      BY Sizes DEF Counted
    <3>2. /\ IsFiniteSet(more)
          /\ Cardinality(more) \in {Cardinality(alerts), Cardinality(alerts) + 1}
      BY <2>1, <3>1, FS_AddElement
    <3> QED BY <3>1, <3>2
  <2>5. Cardinality(fewer) = Cardinality(waiting) - 1
    BY <2>2, <2>3, Sizes, FS_RemoveElement
  <2>6. Cardinality(more) + Cardinality(fewer) <= Limit + Cardinality(Posters) - 1
    BY <2>4, <2>5, Sizes DEF Counted, OvershootIsBounded
  <2> QED BY <2>2, <2>3, <2>4, <2>6 DEF Counted, OvershootIsBounded
<1>3. ASSUME NEW a \in Alerts, Delete(a)
      PROVE  Counted'
  <2>1. PICK fewer : fewer = alerts \ {a}
    OBVIOUS
  <2>2. a \in alerts /\ alerts' = fewer /\ waiting' = waiting
    BY <1>3, <2>1 DEF Delete
  <2>3. IsFiniteSet(fewer) /\ Cardinality(fewer) = Cardinality(alerts) - 1
    BY <2>1, <2>2, FS_RemoveElement DEF Counted
  <2>4. Cardinality(fewer) + Cardinality(waiting) <= Limit + Cardinality(Posters) - 1
    BY <2>3, Sizes DEF Counted, OvershootIsBounded
  <2> QED BY <2>2, <2>3, <2>4 DEF Counted, OvershootIsBounded
<1>4. CASE UNCHANGED <<alerts, waiting>>
  BY <1>4 DEF Counted, OvershootIsBounded
<1> QED
  BY <1>1, <1>2, <1>3, <1>4
  DEF Next, Step, Archive, List, Pick, Deliver, Record, MarkSeen, CutOff, Tick, vars

(* Requests that count together pass the limit by one row each at most, and  *)
(* never all of them, for any limit and any number of requests.              *)
THEOREM LimitHolds == Spec => []OvershootIsBounded
<1>1. Init => Counted
  <2>1. ASSUME Init
        PROVE  Counted
    <3>1. alerts = {} /\ waiting = {}
      BY <2>1 DEF Init
    <3>2. IsFiniteSet({}) /\ Cardinality({}) = 0
      BY FS_EmptySet
    <3>3. Limit \in Nat /\ Cardinality(Posters) \in Nat /\ Cardinality(Posters) # 0
      BY FanOutAssumption, FS_CardinalityType, FS_EmptySet
    <3>4. 0 + 0 <= Limit + Cardinality(Posters) - 1
      BY <3>3
    <3> QED BY <3>1, <3>2, <3>4 DEF Counted, OvershootIsBounded
  <2> QED BY <2>1
<1>2. Counted /\ [Next]_vars => Counted'
  BY CountedHolds
<1>3. Counted => OvershootIsBounded
  BY DEF Counted
<1> QED BY <1>1, <1>2, <1>3, PTL DEF Spec

=============================================================================
