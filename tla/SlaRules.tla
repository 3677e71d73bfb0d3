------------------------------ MODULE SlaRules ------------------------------
(***************************************************************************)
(* The pure rules of the sla application (sla/services.py): which policy   *)
(* applies to a conversation, and when a number of business minutes is     *)
(* over. Time is counted in ticks from the first day of the calendar;      *)
(* every day has DayLength ticks (a change of summer time is left out).    *)
(*                                                                         *)
(* A calendar is a record of                                               *)
(*   weekly    the working intervals of each weekday, in their order       *)
(*   holidays  a function from days to                                     *)
(*             [working |-> BOOLEAN, hours |-> an interval or NoHours]     *)
(* and an interval a pair <<opens, closes>> of ticks within the day.       *)
(***************************************************************************)
EXTENDS Integers, Sequences, SequencesExt

NoHours == <<>>

\* The [opens, closes) instants of a day: a holiday closes it, or opens it
\* with its own hours, or with those of its weekday.
WorkingWindows(calendar, day, dayLength) ==
  LET holiday == calendar.holidays[day]
      special == day \in DOMAIN calendar.holidays
      hours ==
        CASE special /\ ~holiday.working -> <<>>
          [] special /\ holiday.working /\ holiday.hours # NoHours ->
               <<holiday.hours>>
          [] OTHER -> calendar.weekly[1 + (day % Len(calendar.weekly))]
      opening == SelectSeq(hours, LAMBDA h : h[2] > h[1])
  IN [i \in DOMAIN opening |-> <<day * dayLength + opening[i][1],
                                 day * dayLength + opening[i][2]>>]

\* One window of the walk: what is left of the minutes, and the answer once
\* it is known. A window that is over before the cursor contributes nothing.
InWindow(walk, window) ==
  LET opens == IF window[1] > walk.cursor THEN window[1] ELSE walk.cursor
      available == window[2] - opens
  IN IF walk.due # -1 \/ available <= 0 THEN walk
     ELSE IF available >= walk.remaining
          THEN [walk EXCEPT !.due = opens + walk.remaining]
          ELSE [walk EXCEPT !.remaining = @ - available]

\* add_business_minutes(): walk the days from that of start, and give up for
\* plain minutes after maxDays of them. The cursor moves to the midnight of
\* each later day.
AddBusinessMinutes(start, minutes, calendar, dayLength, maxDays) ==
  LET first == start \div dayLength
      Day(walk, n) ==
        FoldLeft(InWindow,
                 [walk EXCEPT !.cursor =
                    IF n = 0 THEN start ELSE (first + n) * dayLength],
                 WorkingWindows(calendar, first + n, dayLength))
      walked == FoldLeft(Day,
                         [cursor |-> start, remaining |-> minutes, due |-> -1],
                         [i \in 1..maxDays |-> i - 1])
  IN IF walked.due # -1 THEN walked.due ELSE start + minutes

-----------------------------------------------------------------------------
\* A policy constrains any of queue, team and priority; Unset leaves it open.
CONSTANT Unset

Scope == <<"queue", "team", "priority">>

Applies(policy, conversation) ==
  /\ policy.active
  /\ \A i \in DOMAIN Scope :
       policy[Scope[i]] \in {Unset, conversation[Scope[i]]}

Specificity(policy) ==
  Len(SelectSeq(Scope, LAMBDA field : policy[field] # Unset))

\* select_policy(): the first, in the order of the query, of the most
\* specific policies that apply; 0 where none does.
SelectPolicy(policies, conversation) ==
  LET Better(best, i) ==
        IF /\ Applies(policies[i], conversation)
           /\ best = 0 \/ Specificity(policies[i]) > Specificity(policies[best])
        THEN i ELSE best
  IN FoldLeft(Better, 0, [i \in DOMAIN policies |-> i])
=============================================================================
