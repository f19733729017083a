------------------------------- MODULE Events -------------------------------
(***************************************************************************)
(* EFI_EVENT services (efi/events.rs and their Boot Services entry points):*)
(* a fixed table of event slots, a handle being the slot's number, and a   *)
(* WaitForEvent that polls its list in order until one condition holds.    *)
(* Nothing runs behind the application's back except the timer tick and    *)
(* the arrival of input; a notify function runs inside the poll or the     *)
(* SignalEvent that triggers it.                                           *)
(*                                                                         *)
(* A deadline is kept as the ticks left to it (NotArmed when the code's    *)
(* deadline and period are both 0), so that time needs no bound.  The tick *)
(* counter is past 0 by the time an application runs: main.rs sleeps       *)
(* through the splash screen first.                                        *)
(***************************************************************************)
EXTENDS ConsoleInput, Integers

CONSTANTS
    MaxEvents,    \* MAX_EVENTS
    Spans,        \* trigger times an application asks for, in 100 ns
    Freq,         \* cntfrq_el0, counts of the system counter in a second
    Interval,     \* TICK_INTERVAL, counts between two tick interrupts
    Million,      \* microseconds in a second
    Word,         \* 2^64: numbers are u64
    Notifiers,    \* the notify functions it passes to CreateEvent
    WaitLists,    \* the event lists it waits on
    MaxCalls      \* bound on the event services it calls

Event == 1..MaxEvents

(* A notify function is the application's code: it makes one call, on its  *)
(* own event or on another.                                                *)
Notifier == [act : {"none", "arm", "cancel", "close", "signal"}, on : Event, span : Nat]

ASSUME EventsAssumption ==
    /\ MaxEvents \in Nat \ {0} /\ MaxCalls \in Nat
    /\ {Interval, Million, Word} \subseteq Nat \ {0} /\ Freq \in Nat
    /\ Spans \subseteq Nat /\ Notifiers \subseteq Notifier
    /\ WaitLists \subseteq Seq(Event) \ {<<>>}

VARIABLES
    events,     \* EVENTS
    waiting,    \* the list of the WaitForEvent in progress, <<>> if none
    at,         \* the position its scan polls next
    called      \* event services called

eventVars == <<events, waiting, at, called>>
allEventVars == <<inputVars, eventVars>>

Kinds == {"Generic", "Timer", "ConsoleIn"}
NotArmed == -1
NoNotify == [act |-> "none", on |-> 1, span |-> 0]

(* asked and age are history: the trigger time of the SetTimer whose       *)
(* interval is running, and the tick interrupts since it began, counted    *)
(* until the time is up.                                                   *)
EMPTY == [in_use |-> FALSE, kind |-> "Generic", signaled |-> FALSE, notify |-> NoNotify,
          due |-> NotArmed, period |-> 0, asked |-> NotArmed, age |-> 0]

(* Counts in a million ticks, and in a million times the microseconds of a *)
(* trigger time.                                                           *)
TickCounts == Million * Interval
Counts(span) == (span \div 10) * Freq

(* Mutant of MicrosToTicks: rounds down. *)
MicrosToTicks_Down(us) == Min({us * Freq, Word - 1}) \div TickCounts

(* micros_to_ticks: the product saturates, the sum that rounds up wraps.   *)
MicrosToTicks(us) ==
    ((Min({us * Freq, Word - 1}) + TickCounts - 1) % Word) \div TickCounts

(* set_timer with TIMER_PERIODIC or TIMER_RELATIVE, and with TIMER_CANCEL. *)
Armed(es, i, span, periodic) ==
    LET ticks == MicrosToTicks(span \div 10)
    IN  [es EXCEPT ![i].due = ticks, ![i].period = IF periodic THEN Max({ticks, 1}) ELSE 0,
                   ![i].asked = span, ![i].age = 0]

Disarmed(es, i) ==
    [es EXCEPT ![i].due = NotArmed, ![i].period = 0, ![i].asked = NotArmed, ![i].age = 0]

(* One call of a notify function.                                          *)
Performed(es, n) ==
    CASE n.act = "arm" /\ es[n.on].in_use    -> Armed(es, n.on, n.span, FALSE)
      [] n.act = "cancel" /\ es[n.on].in_use -> Disarmed(es, n.on)
      [] n.act = "close" /\ es[n.on].in_use  -> [es EXCEPT ![n.on] = EMPTY]
      [] n.act = "signal" /\ es[n.on].in_use -> [es EXCEPT ![n.on].signaled = TRUE]
      [] OTHER                               -> es

(* The notify function of event i runs, if it has one.  One that signals   *)
(* has the other event's notify function run inside its own; applications  *)
(* do not nest them deeper.                                                *)
Notified(es, i) ==
    LET n == es[i].notify
        inner == es[n.on].notify
    IN  CASE n.act # "signal"                        -> Performed(es, n)
          [] n.act = "signal" /\ inner.act # "signal"
                  -> IF es[n.on].in_use THEN Performed(Performed(es, n), inner) ELSE es
          [] OTHER                                   -> es

(* A periodic timer's next interval.                                       *)
Renewed(es, i) == [es EXCEPT ![i].due = es[i].period, ![i].age = 0]

(* Mutant of Fired: the notify function runs before the timer is re-armed  *)
(* or disarmed.                                                            *)
Fired_NotifiesFirst(es, i) ==
    LET told == Notified(es, i)
    IN  IF es[i].period > 0 THEN Renewed(told, i) ELSE Disarmed(told, i)

(* condition_met for a timer whose deadline has passed: re-armed from now  *)
(* or disarmed first, then notified.                                       *)
Fired(es, i) ==
    Notified(IF es[i].period > 0 THEN Renewed(es, i) ELSE Disarmed(es, i), i)

Signaled(es, i) == Notified([es EXCEPT ![i].signaled = TRUE], i)

(* CheckEvent and WaitForEvent clear a generic event they report.          *)
Cleared(es, i) == [es EXCEPT ![i].signaled = @ /\ es[i].kind # "Generic"]

FreeSlots == {i \in Event : ~events[i].in_use}

(* console::init's WaitForKey event takes the first slot.                  *)
EventsInit ==
    /\ InputInit
    /\ events = [i \in Event |-> IF i = 1 THEN [EMPTY EXCEPT !.in_use = TRUE, !.kind = "ConsoleIn"]
                                 ELSE EMPTY]
    /\ waiting = <<>> /\ at = 1
    /\ called = 0

(* The application, outside WaitForEvent, calls a service.                 *)
EventCall ==
    /\ waiting = <<>> /\ called < MaxCalls
    /\ called' = called + 1

Quiet == UNCHANGED <<inputVars, waiting, at>>

(* CreateEvent and CreateEventEx: the first free slot.                     *)
CreateEvent(kind, notify) ==
    /\ FreeSlots # {}
    /\ LET i == Min(FreeSlots)
       IN  /\ EventCall
           /\ events' = [events EXCEPT ![i] = [EMPTY EXCEPT
                             !.in_use = TRUE, !.kind = kind, !.notify = notify]]
    /\ Quiet

(* close: any event in use, the console's WaitForKey event too.            *)
CloseEvent(i) ==
    /\ EventCall
    /\ events[i].in_use
    /\ events' = [events EXCEPT ![i] = EMPTY]
    /\ Quiet

(* set_timer: any event in use is accepted, whatever its kind.             *)
CancelTimer(i) ==
    /\ EventCall
    /\ events[i].in_use
    /\ events' = Disarmed(events, i)
    /\ Quiet

SetTimer(i, span, periodic) ==
    /\ EventCall
    /\ events[i].in_use
    /\ events' = Armed(events, i, span, periodic)
    /\ Quiet

SignalEvent(i) ==
    /\ EventCall
    /\ events[i].in_use
    /\ events' = Signaled(events, i)
    /\ Quiet

(* One evaluation of condition_met(i), with what its caller then clears:   *)
(* met says whether the event is reported.                                 *)
Evaluate(i, met) ==
    \/ /\ events[i].kind = "Generic"
       /\ met = events[i].signaled
       /\ events' = IF met THEN Cleared(events, i) ELSE events
       /\ UNCHANGED inputVars
    \/ /\ events[i].kind = "Timer"
       /\ met = (events[i].due = 0)
       /\ events' = IF met THEN Fired(events, i) ELSE events
       /\ UNCHANGED inputVars
    \/ /\ events[i].kind = "ConsoleIn"
       /\ KeyAvailable
       /\ met = (last' = "available")
       /\ UNCHANGED events

CheckEvent(i) ==
    /\ EventCall
    /\ events[i].in_use
    /\ \E met \in BOOLEAN : Evaluate(i, met)
    /\ UNCHANGED <<waiting, at>>

(* WaitForEvent checks the range of the handles it is given, not whether   *)
(* they are in use; then it polls one after the other.                     *)
WaitForEvent(list) ==
    /\ EventCall
    /\ waiting' = list /\ at' = 1
    /\ UNCHANGED <<inputVars, events>>

(* Mutant of PollNext: the scan never leaves the first event. *)
PollNext_FirstOnly ==
    /\ waiting # <<>>
    /\ \E met \in BOOLEAN :
           /\ Evaluate(waiting[1], met)
           /\ waiting' = IF met THEN <<>> ELSE waiting
    /\ UNCHANGED <<at, called>>

PollNext ==
    /\ waiting # <<>>
    /\ \E met \in BOOLEAN :
           /\ Evaluate(waiting[at], met)
           /\ waiting' = IF met THEN <<>> ELSE waiting
           /\ at' = IF met \/ at = Len(waiting) THEN 1 ELSE at + 1
    /\ UNCHANGED called

(* The time asked for has gone by.                                         *)
Over(e) == e.asked = NotArmed \/ e.age * TickCounts >= Counts(e.asked)

(* The tick interrupt.  A deadline that has passed stays passed.           *)
Tick ==
    /\ events' = [i \in Event |->
                     [events[i] EXCEPT !.due = IF @ > 0 THEN @ - 1 ELSE @,
                                       !.age = IF Over(events[i]) THEN @ ELSE @ + 1]]
    /\ UNCHANGED <<inputVars, waiting, at, called>>

KeysArrive ==
    /\ UserInput
    /\ UNCHANGED eventVars

KeyRead ==
    /\ waiting = <<>>
    /\ ReadKeyStroke
    /\ UNCHANGED eventVars

AppCalls ==
    \/ \E kind \in {"Generic", "Timer"}, n \in Notifiers : CreateEvent(kind, n)
    \/ \E i \in Event :
           \/ CloseEvent(i) \/ CancelTimer(i) \/ SignalEvent(i) \/ CheckEvent(i)
           \/ \E span \in Spans, p \in BOOLEAN : SetTimer(i, span, p)
    \/ \E list \in WaitLists : WaitForEvent(list)

EventsNext == AppCalls \/ PollNext \/ Tick \/ KeysArrive \/ KeyRead

EventsSpec == EventsInit /\ [][EventsNext]_allEventVars

(* The tick interrupt keeps coming, and a wait keeps polling: its loop     *)
(* never blocks longer than a wfe the next interrupt ends.                 *)
FairEventsSpec == EventsSpec /\ WF_allEventVars(PollNext) /\ WF_allEventVars(Tick)

-----------------------------------------------------------------------------
(* Slots, the scan position and the histories stay in range.               *)
TypeOK ==
    /\ InputTypeOK
    /\ events \in [Event -> [in_use : BOOLEAN, kind : Kinds, signaled : BOOLEAN,
                             notify : Notifier, due : Nat \cup {NotArmed}, period : Nat,
                             asked : Nat \cup {NotArmed}, age : Nat]]
    /\ waiting \in WaitLists \cup {<<>>}
    /\ at \in 1..Max({1, Len(waiting)})
    /\ called \in 0..MaxCalls

(* The rounding of this trigger time does not fit in a u64.                *)
TooLong(span) == Counts(span) + TickCounts > Word

(* The step in which a wait returns timer event i.                         *)
Fires(i) ==
    /\ waiting # <<>> /\ waiting' = <<>>
    /\ i = waiting[at] /\ events[i].kind = "Timer"

(* A timer never fires unasked, and never early unless its trigger time is *)
(* too long for a u64: when a wait returns a timer event, as many tick     *)
(* interrupts as make up the whole microseconds asked for have come since  *)
(* SetTimer, or since the last period began (events.rs set_timer,          *)
(* condition_met; timer.rs micros_to_ticks).  The first of them may come   *)
(* at once, so up to one tick can be missing in real time.                 *)
FiresOnTime ==
    [][\A i \in Event : Fires(i) =>
          /\ events[i].asked # NotArmed
          /\ Over(events[i]) \/ TooLong(events[i].asked)]_allEventVars

(* What a notify function does to its own timer lasts: condition_met has   *)
(* re-armed or disarmed the timer before it runs, so a new time it sets is *)
(* not lost, and a periodic timer it cancels or closes is not revived.     *)
NotifyLasts ==
    [][\A i \in Event : LET n == events[i].notify IN
          Fires(i) /\ events[i].in_use /\ n.on = i =>
              /\ n.act = "arm" =>
                     /\ events'[i].asked = n.span /\ events'[i].due # NotArmed
                     /\ events'[i].period = 0
              /\ n.act \in {"cancel", "close"} => events'[i].due = NotArmed]_allEventVars

(* The event's condition holds, or will hold by itself.                    *)
Ready(i) ==
    \/ events[i].kind = "Generic" /\ events[i].signaled
    \/ events[i].kind = "Timer" /\ events[i].due # NotArmed

(* No lost wake-up: a WaitForEvent with a signalled generic event or an    *)
(* armed timer anywhere in its list returns, whatever else is in the list. *)
WaitEnds ==
    \A i \in Event : (i \in Range(waiting) /\ Ready(i)) ~> (waiting = <<>>)

-----------------------------------------------------------------------------
(* What comments and documents say.                                        *)

(* timer.rs on micros_to_ticks: "Rounds a microsecond duration up to whole *)
(* ticks".  No timer fires before the microseconds asked for are over.     *)
NeverEarly == [][\A i \in Event : Fires(i) => Over(events[i])]_allEventVars

(* events.rs on wait: "Busy-waits until one of `events` is signaled".  Any *)
(* event the application made and then signalled ends a wait on it.        *)
SignalEndsWait ==
    \A i \in Event :
        (/\ i \in Range(waiting)
         /\ events[i].kind # "ConsoleIn" /\ events[i].signaled) ~> (waiting = <<>>)
=============================================================================
